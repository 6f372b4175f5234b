--------------------------- MODULE SchedulerProofs ---------------------------
(***************************************************************************)
(* Proofs about Scheduler: SchedulerInv is inductive, and with it the      *)
(* safety properties of the system view and of the control thread.         *)
(***************************************************************************)
EXTENDS Scheduler, ProtocolProofs, FiniteSetTheorems

-----------------------------------------------------------------------------
(* Engine states. *)

LEMMA UriHost ==
  ASSUME NEW p
  PROVE  Hostname(Uri(p)) = p.rpc_hostname
BY DEF Hostname, Uri

LEMMA StateOfType ==
  ASSUME ViewInv, NEW e
  PROVE  /\ StateOf(e) \in EngineStates
         /\ e \notin DOMAIN engine_to_state => StateOf(e) = EngineState(NoName, -1)
         /\ e \in DOMAIN engine_to_state => StateOf(e) = engine_to_state[e]
<1>1. EngineState(NoName, -1) \in EngineStates
  BY DEF EngineState, EngineStates, EngineNames
<1> QED
  BY <1>1 DEF StateOf, ViewInv, ViewTypeOK

LEMMA EngineOnHost ==
  ASSUME ViewInv, NEW h, EngineOn(h) # NoName
  PROVE  Hostname(EngineOn(h)) = h /\ EngineOn(h) \in DOMAIN engine_to_state
BY DEF EngineOn, ViewInv, HostInv, HasEngineState

LEMMA EngineOnType ==
  ASSUME ViewInv, NEW h
  PROVE  EngineOn(h) \in EngineNames
BY DEF EngineOn, ViewInv, ViewTypeOK, EngineNames

-----------------------------------------------------------------------------
(* The system view's operations preserve its invariant and forget no       *)
(* engine.                                                                 *)

NoEngineForgotten == DOMAIN engine_to_state \subseteq DOMAIN engine_to_state'

LEMMA AddInv ==
  ASSUME ViewInv, NEW i \in Engines, AddExecutionEngine(i)
  PROVE  ViewInv' /\ NoEngineForgotten
<1> DEFINE s == EngineState(i.rpc_uri, i.maximum_tasks)
<1>1. i.rpc_uri \in EngineNames /\ i.rpc_uri # NoName /\ i.maximum_tasks \in Int
  BY EnginesAssumption DEF EngineNames
<1>2. s \in EngineStates
  BY <1>1 DEF EngineState, EngineStates, EngineNames
<1>3. /\ DOMAIN engine_to_state' = DOMAIN engine_to_state \cup {i.rpc_uri}
      /\ engine_to_state'[i.rpc_uri] = s
      /\ \A e \in DOMAIN engine_to_state \ {i.rpc_uri} : engine_to_state'[e] = engine_to_state[e]
  BY DEF AddExecutionEngine, Bind
<1>4. /\ DOMAIN hostname_to_engine' = DOMAIN hostname_to_engine \cup {Hostname(i.rpc_uri)}
      /\ hostname_to_engine'[Hostname(i.rpc_uri)] = i.rpc_uri
      /\ \A h \in DOMAIN hostname_to_engine \ {Hostname(i.rpc_uri)} :
           hostname_to_engine'[h] = hostname_to_engine[h]
  BY DEF AddExecutionEngine, Bind
<1>5. ViewTypeOK'
  <2>1. engine_to_state' \in [DOMAIN engine_to_state' -> EngineStates]
    BY <1>2, BindType DEF AddExecutionEngine, ViewInv, ViewTypeOK
  <2>2. hostname_to_engine' \in [DOMAIN hostname_to_engine' -> EngineNames]
    BY <1>1, BindType DEF AddExecutionEngine, ViewInv, ViewTypeOK
  <2>3. client_uri_to_engine' \in [DOMAIN client_uri_to_engine' -> EngineNames]
    BY <1>1, BindType DEF AddExecutionEngine, ViewInv, ViewTypeOK
  <2> QED
    BY <1>1, <1>3, <2>1, <2>2, <2>3 DEF AddExecutionEngine, ViewInv, ViewTypeOK
<1>6. HostInv'
  BY <1>3, <1>4 DEF HostInv, HasEngineState, ViewInv
<1>7. ASSUME NEW e \in DOMAIN engine_to_state'
      PROVE  EngineInv(e)'
  <2>1. CASE e = i.rpc_uri
    BY <1>1, <1>3, <2>1 DEF EngineInv, EngineState
  <2>2. CASE e # i.rpc_uri
    <3>1. e \in DOMAIN engine_to_state /\ engine_to_state'[e] = engine_to_state[e]
      BY <1>3, <2>2
    <3>2. EngineInv(e)
      BY <3>1 DEF ViewInv
    <3> QED
      BY <3>1, <3>2 DEF EngineInv, ClientOf, ManagerOf, HasEngineState,
                        AddExecutionEngine
  <2> QED
    BY <2>1, <2>2
<1> QED
  BY <1>3, <1>5, <1>6, <1>7 DEF ViewInv, NoEngineForgotten

-----------------------------------------------------------------------------
(* ParseGetViewReply. *)

LEMMA ReplyType ==
  ASSUME NEW r \in MasterViews
  PROVE  /\ DOMAIN r.view \subseteq Managers
         /\ \A m \in DOMAIN r.view : r.view[m] \subseteq Keys
         /\ r.client \subseteq Clients
         /\ EphemeralIn(r) \subseteq DOMAIN r.view
         /\ PersistentIn(r) \subseteq DOMAIN r.view
         /\ PersistentKeys(r) \subseteq Keys
<1>1. r \in Replies
  BY RepliesAssumption
<1>2. PICK M \in SUBSET Managers : r.view \in [M -> SUBSET Keys]
  BY <1>1 DEF Replies
<1>3. r.client \in SUBSET Clients
  BY <1>1 DEF Replies
<1> QED
  BY <1>2, <1>3 DEF EphemeralIn, PersistentIn, PersistentKeys

(* What a view changes of an engine's state: the two names, if it shows    *)
(* them.                                                                   *)
LEMMA MatchedFields ==
  ASSUME ViewInv, NEW e, NEW ephemeral, NEW client
  PROVE  LET s == StateOf(e)  n == Matched(e, ephemeral, client) IN
         /\ n = [name |-> s.name, client_name |-> NameKept(client, e, s.client_name),
                 ephemeral_name |-> NameKept(ephemeral, e, s.ephemeral_name),
                 running_tasks |-> s.running_tasks, maximum_tasks |-> s.maximum_tasks]
         /\ n.name = s.name
         /\ n.client_name = NameKept(client, e, s.client_name)
         /\ n.ephemeral_name = NameKept(ephemeral, e, s.ephemeral_name)
         /\ n.running_tasks = s.running_tasks
         /\ n.maximum_tasks = s.maximum_tasks
<1> DEFINE s == StateOf(e)
           x == NameKept(ephemeral, e, s.ephemeral_name)
           y == NameKept(client, e, s.client_name)
           first == [s EXCEPT !.ephemeral_name = x]
<1>1. Matched(e, ephemeral, client) = [first EXCEPT !.client_name = y]
  BY DEF Matched
<1>2. s = [name |-> s.name, client_name |-> s.client_name, ephemeral_name |-> s.ephemeral_name,
           running_tasks |-> s.running_tasks, maximum_tasks |-> s.maximum_tasks]
  BY StateOfType DEF EngineStates
<1> HIDE DEF s, x, y
<1>3. first = [name |-> s.name, client_name |-> s.client_name, ephemeral_name |-> x,
               running_tasks |-> s.running_tasks, maximum_tasks |-> s.maximum_tasks]
  BY <1>2
<1> HIDE DEF first
<1>4. Matched(e, ephemeral, client) =
        [name |-> s.name, client_name |-> y, ephemeral_name |-> x,
         running_tasks |-> s.running_tasks, maximum_tasks |-> s.maximum_tasks]
  BY <1>1, <1>3
<1> QED
  BY <1>4 DEF s, x, y

(* The peer kept for an engine is on the engine's host.                    *)
LEMMA KeptOnHost ==
  ASSUME ViewInv, NEW peers, NEW engines, NEW last, Keeps(last, engines, peers),
         NEW e \in engines, e # NoName
  PROVE  last[e] \in peers /\ Hostname(Uri(last[e])) = Hostname(e)
<1>1. last[e] \in peers /\ EngineFor(last[e]) = e
  BY DEF Keeps
<1>2. EngineOn(Hostname(Uri(last[e]))) = e
  BY <1>1 DEF EngineFor
<1> QED
  BY <1>1, <1>2, EngineOnHost

LEMMA ParseInv ==
  ASSUME ViewInv, NEW r \in MasterViews, ParseGetViewReply(r)
  PROVE  ViewInv' /\ NoEngineForgotten
<1> DEFINE with_manager == {EngineFor(m) : m \in EphemeralIn(r)}
           with_client == {EngineFor(c) : c \in r.client}
           shown == {GenerateName(m) : m \in DOMAIN r.view}
<1>1. PICK ephemeral \in [with_manager -> EphemeralIn(r)], client \in [with_client -> r.client] :
        /\ Keeps(ephemeral, with_manager, EphemeralIn(r))
        /\ Keeps(client, with_client, r.client)
        /\ engine_to_state' =
             [e \in DOMAIN engine_to_state \cup with_manager \cup with_client |->
                Matched(e, ephemeral, client)]
  BY DEF ParseGetViewReply
<1>2. PICK mgr \in [PersistentKeys(r) -> PersistentIn(r)] :
        persistant_key_to_mgr' =
          [key \in DOMAIN persistant_key_to_mgr \cup PersistentKeys(r) |->
             IF key \in PersistentKeys(r) THEN GenerateName(mgr[key])
             ELSE persistant_key_to_mgr[key]]
  BY DEF ParseGetViewReply
<1>3. PICK hosts : hostname_to_engine' =
                     [h \in DOMAIN hostname_to_engine \cup hosts |-> EngineOn(h)]
  BY DEF ParseGetViewReply
<1>4. mgr_to_keys' =
        [n \in DOMAIN mgr_to_keys \cup shown |->
           IF n \in shown
           THEN UNION {r.view[m] : m \in {p \in DOMAIN r.view : GenerateName(p) = n}}
           ELSE mgr_to_keys[n]]
  BY DEF ParseGetViewReply
<1>5. UNCHANGED client_uri_to_engine
  BY DEF ParseGetViewReply
<1>6. with_manager \subseteq EngineNames /\ with_client \subseteq EngineNames
  BY EngineOnType DEF EngineFor
<1>7. \A e \in with_manager \cup with_client : e # NoName => e \in DOMAIN engine_to_state
  BY EngineOnHost DEF EngineFor
<1>8. ASSUME NEW e \in DOMAIN engine_to_state'
      PROVE  /\ e \in DOMAIN engine_to_state \/ e = NoName
             /\ engine_to_state'[e] = Matched(e, ephemeral, client)
  BY <1>1, <1>7
<1>9. ASSUME NEW e
      PROVE  /\ NameKept(ephemeral, e, StateOf(e).ephemeral_name) \in
                  {StateOf(e).ephemeral_name} \cup {GenerateName(m) : m \in Managers}
             /\ NameKept(client, e, StateOf(e).client_name) \in
                  {StateOf(e).client_name} \cup {GenerateName(c) : c \in Clients}
  <2>1. e \in DOMAIN ephemeral => ephemeral[e] \in Managers
    BY <1>1, ReplyType
  <2>2. e \in DOMAIN client => client[e] \in Clients
    BY <1>1, ReplyType
  <2> QED
    BY <2>1, <2>2 DEF NameKept
<1> HIDE DEF with_manager, with_client, shown
<1>10. ViewTypeOK'
  <2>1. ASSUME NEW e \in DOMAIN engine_to_state'
        PROVE  engine_to_state'[e] \in EngineStates
    <3>1. StateOf(e) \in EngineStates
      BY StateOfType
    <3> QED
      BY <1>8, <1>9, <3>1, MatchedFields DEF EngineStates
  <2>2. engine_to_state' \in [DOMAIN engine_to_state' -> EngineStates]
    BY <1>1, <2>1
  <2>3. DOMAIN engine_to_state' \subseteq EngineNames
    BY <1>1, <1>6 DEF ViewInv, ViewTypeOK
  <2>4. hostname_to_engine' \in [DOMAIN hostname_to_engine' -> EngineNames]
    BY <1>3, EngineOnType
  <2>5. mgr_to_keys' \in [DOMAIN mgr_to_keys' -> SUBSET Keys]
    <3>1. \A n \in DOMAIN mgr_to_keys : mgr_to_keys[n] \in SUBSET Keys
      BY DEF ViewInv, ViewTypeOK
    <3>2. ASSUME NEW n
          PROVE  UNION {r.view[m] : m \in {p \in DOMAIN r.view : GenerateName(p) = n}} \subseteq Keys
      BY ReplyType
    <3> QED
      BY <1>4, <3>1, <3>2
  <2>6. /\ DOMAIN persistant_key_to_mgr' \subseteq Keys
        /\ persistant_key_to_mgr' \in
             [DOMAIN persistant_key_to_mgr' -> {GenerateName(m) : m \in Managers}]
    <3>1. /\ DOMAIN persistant_key_to_mgr \subseteq Keys
          /\ \A key \in DOMAIN persistant_key_to_mgr :
               persistant_key_to_mgr[key] \in {GenerateName(m) : m \in Managers}
      BY DEF ViewInv, ViewTypeOK
    <3>2. \A key \in PersistentKeys(r) : mgr[key] \in Managers
      BY ReplyType
    <3> QED
      BY <1>2, <3>1, <3>2, ReplyType
  <2> QED
    BY <1>5, <2>2, <2>3, <2>4, <2>5, <2>6 DEF ViewInv, ViewTypeOK
<1>11. HostInv'
  BY <1>1, <1>3, EngineOnHost DEF HostInv, HasEngineState
<1>12. ASSUME NEW e \in DOMAIN engine_to_state'
       PROVE  EngineInv(e)'
  <2> DEFINE s == StateOf(e)
             n == engine_to_state'[e]
  <2>1. /\ n.name = s.name
        /\ n.client_name = NameKept(client, e, s.client_name)
        /\ n.ephemeral_name = NameKept(ephemeral, e, s.ephemeral_name)
    BY <1>8, MatchedFields
  <2>2. CASE e \in DOMAIN engine_to_state
    <3>1. EngineInv(e) /\ s = engine_to_state[e]
      BY <2>2, StateOfType DEF ViewInv
    <3>2. n.name = e
      BY <2>1, <3>1 DEF EngineInv
    <3>3. ASSUME e # NoName, n.client_name # NoName
          PROVE  ClientOf(e)'
      <4>1. CASE e \in with_client
        <5>1. /\ client[e] \in Clients
              /\ Hostname(Uri(client[e])) = Hostname(e)
              /\ n.client_name = GenerateName(client[e])
          BY <1>1, <2>1, <3>3, <4>1, KeptOnHost, ReplyType DEF NameKept
        <5> QED
          BY <5>1 DEF ClientOf
      <4>2. CASE e \notin with_client
        <5>1. n.client_name = s.client_name
          BY <1>1, <2>1, <4>2 DEF NameKept
        <5> QED
          BY <3>1, <3>3, <5>1 DEF EngineInv, ClientOf
      <4> QED
        BY <4>1, <4>2
    <3>4. ASSUME e # NoName, n.ephemeral_name # NoName
          PROVE  ManagerOf(e)'
      <4>1. CASE e \in with_manager
        <5>1. /\ ephemeral[e] \in Managers /\ IsEphemeral(ephemeral[e])
              /\ Hostname(Uri(ephemeral[e])) = Hostname(e)
              /\ n.ephemeral_name = GenerateName(ephemeral[e])
          BY <1>1, <2>1, <3>4, <4>1, KeptOnHost, ReplyType DEF NameKept, EphemeralIn
        <5> QED
          BY <5>1 DEF ManagerOf
      <4>2. CASE e \notin with_manager
        <5>1. n.ephemeral_name = s.ephemeral_name
          BY <1>1, <2>1, <4>2 DEF NameKept
        <5> QED
          BY <3>1, <3>4, <5>1 DEF EngineInv, ManagerOf
      <4> QED
        BY <4>1, <4>2
    <3> QED
      BY <3>2, <3>3, <3>4 DEF EngineInv
  <2>3. CASE e \notin DOMAIN engine_to_state
    <3>1. e = NoName /\ s.name = NoName
      BY <1>8, <2>3, StateOfType DEF EngineState
    <3> QED
      BY <2>1, <3>1 DEF EngineInv
  <2> QED
    BY <2>2, <2>3
<1> QED
  BY <1>1, <1>10, <1>11, <1>12 DEF ViewInv, NoEngineForgotten

-----------------------------------------------------------------------------
(* TasksScheduled: no decision names an engine, so the nameless engine has *)
(* a state afterwards if there is any.                                     *)

CountOf(decisions, e) == Cardinality({i \in DOMAIN decisions : decisions[i].engine = e})

LEMMA CountType ==
  ASSUME NEW S, NEW decisions \in Seq(S), NEW e
  PROVE  CountOf(decisions, e) \in Nat
<1> DEFINE D == DOMAIN decisions
           T == {i \in D : decisions[i].engine = e}
<1>1. PICK n \in Nat : D = 1..n
  <2>1. Len(decisions) \in Nat /\ DOMAIN decisions = 1..Len(decisions)
    OBVIOUS
  <2> QED
    BY <2>1
<1>2. IsFiniteSet(D)
  BY <1>1, FS_Interval
<1>3. T \subseteq D
  OBVIOUS
<1>4. IsFiniteSet(T)
  BY <1>2, <1>3, FS_Subset
<1>5. Cardinality(T) \in Nat
  BY <1>4, FS_CardinalityType
<1> QED
  BY <1>5 DEF CountOf

(* What it changes of an engine's state: the number of its running tasks.  *)
LEMMA CountedFields ==
  ASSUME ViewInv, NEW decisions \in Seq({EmptyDecision}), TasksScheduled(decisions),
         NEW e \in DOMAIN engine_to_state'
  PROVE  LET s == StateOf(e)  n == engine_to_state'[e] IN
         /\ n \in EngineStates
         /\ n.name = s.name
         /\ n.client_name = s.client_name
         /\ n.ephemeral_name = s.ephemeral_name
         /\ n.running_tasks \in Nat /\ n.running_tasks >= s.running_tasks
         /\ n.maximum_tasks = s.maximum_tasks
<1>1. engine_to_state'[e] = [StateOf(e) EXCEPT !.running_tasks = @ + CountOf(decisions, e)]
  BY DEF TasksScheduled, CountOf
<1>2. CountOf(decisions, e) \in Nat
  BY CountType
<1>3. StateOf(e) \in EngineStates
  BY StateOfType
<1> QED
  BY <1>1, <1>2, <1>3 DEF EngineStates

LEMMA CountInv ==
  ASSUME ViewInv, NEW decisions \in Seq({EmptyDecision}), TasksScheduled(decisions)
  PROVE  /\ ViewInv'
         /\ NoEngineForgotten
         /\ decisions # <<>> => NoName \in DOMAIN engine_to_state'
<1> DEFINE named == {decisions[i].engine : i \in DOMAIN decisions}
<1>1. /\ DOMAIN engine_to_state' = DOMAIN engine_to_state \cup named
      /\ engine_to_state' = [e \in DOMAIN engine_to_state' |-> engine_to_state'[e]]
      /\ UNCHANGED <<client_uri_to_engine, hostname_to_engine, mgr_to_keys, persistant_key_to_mgr>>
  BY DEF TasksScheduled
<1>2. \A i \in DOMAIN decisions : decisions[i].engine = NoName
  BY DEF EmptyDecision
<1>3. named \subseteq {NoName}
  BY <1>2
<1>4. decisions # <<>> => NoName \in named
  <2>1. decisions # <<>> => 1 \in DOMAIN decisions
    OBVIOUS
  <2> QED
    BY <1>2, <2>1
<1> HIDE DEF named
<1>5. ViewTypeOK'
  <2>1. engine_to_state' \in [DOMAIN engine_to_state' -> EngineStates]
    BY <1>1, CountedFields
  <2> QED
    BY <1>1, <1>3, <2>1 DEF ViewInv, ViewTypeOK, EngineNames
<1>6. HostInv'
  BY <1>1 DEF ViewInv, HostInv, HasEngineState
<1>7. ASSUME NEW e \in DOMAIN engine_to_state'
      PROVE  EngineInv(e)'
  <2>1. CASE e \in DOMAIN engine_to_state
    <3>1. EngineInv(e) /\ StateOf(e) = engine_to_state[e]
      BY <2>1, StateOfType DEF ViewInv
    <3> QED
      BY <1>1, <3>1, CountedFields
      DEF EngineInv, ClientOf, ManagerOf, HasEngineState
  <2>2. CASE e \notin DOMAIN engine_to_state
    <3>1. e = NoName
      BY <1>1, <1>3, <2>2
    <3>2. StateOf(e).name = NoName
      BY <2>2, StateOfType DEF EngineState
    <3> QED
      BY <3>1, <3>2, CountedFields DEF EngineInv
  <2> QED
    BY <2>1, <2>2
<1> QED
  BY <1>1, <1>4, <1>5, <1>6, <1>7 DEF ViewInv, NoEngineForgotten

-----------------------------------------------------------------------------
(* Steps by what they leave alone. *)

(* What the control thread's pc says about its local variables.            *)
LEMMA ControlFields ==
  ASSUME NEW c \in ControlStates
  PROVE  /\ c.pc \in {"get_engines", "next_engine", "next_task"} => c.tasks \in Nat
         /\ c.pc \in {"next_engine", "next_task"} => c.engines \subseteq EngineNames
         /\ c.pc \in {"next_engine", "next_task", "count", "execute"} =>
              c.decisions \in Seq({EmptyDecision})
         /\ c.pc = "next_task" =>
              /\ c = [pc |-> "next_task", tasks |-> c.tasks, engines |-> c.engines,
                      decisions |-> c.decisions, available |-> c.available]
              /\ c.available \in Int
         /\ c.pc = "execute" => c = [pc |-> "execute", decisions |-> c.decisions]
BY DEF ControlStates

LEMMA ViewFrame ==
  ASSUME ViewInv, UNCHANGED viewVars
  PROVE  ViewInv' /\ DOMAIN engine_to_state' = DOMAIN engine_to_state
<1>1. ViewTypeOK'
  BY DEF viewVars, ViewInv, ViewTypeOK
<1>2. HostInv'
  BY DEF viewVars, ViewInv, HostInv, HasEngineState
<1>3. ASSUME NEW e \in DOMAIN engine_to_state'
      PROVE  EngineInv(e)'
  BY DEF viewVars, ViewInv, EngineInv, ClientOf, ManagerOf, HasEngineState
<1> QED
  BY <1>1, <1>2, <1>3 DEF viewVars, ViewInv

(* A handler changes the view under the control thread.                    *)
LEMMA HandlerStepInv ==
  ASSUME SchedulerInv, ViewInv', NoEngineForgotten, UNCHANGED <<lifecycle, running, control>>
  PROVE  SchedulerInv'
<1>1. SchedulerTypeOK'
  BY DEF SchedulerInv, SchedulerTypeOK, ViewInv
<1>2. ThreadEndsBeforeStop'
  BY DEF SchedulerInv, ThreadEndsBeforeStop
<1>3. ControlInv'
  BY DEF SchedulerInv, ControlInv, NoEngineForgotten, HasEngineState
<1> QED
  BY <1>1, <1>2, <1>3 DEF SchedulerInv

(* The control thread goes on to a state c.                                *)
LEMMA GotoInv ==
  ASSUME SchedulerInv, UNCHANGED viewVars, NEW c \in ControlStates, Goto(c),
         control.pc # "none", c.pc # "none",
         c.pc \in {"next_engine", "next_task"} => c.engines \subseteq DOMAIN engine_to_state,
         c.pc = "execute" /\ c.decisions # <<>> => HasEngineState(NoName)
  PROVE  SchedulerInv'
<1>1. ViewInv' /\ DOMAIN engine_to_state' = DOMAIN engine_to_state
  BY ViewFrame DEF SchedulerInv
<1>2. SchedulerTypeOK'
  BY <1>1 DEF SchedulerInv, SchedulerTypeOK, Goto, ViewInv
<1>3. ThreadEndsBeforeStop'
  BY DEF SchedulerInv, ThreadEndsBeforeStop, Goto
<1>4. ControlInv'
  BY <1>1 DEF ControlInv, Goto, HasEngineState
<1> QED
  BY <1>1, <1>2, <1>3, <1>4 DEF SchedulerInv

LEMMA ThrowInv ==
  ASSUME SchedulerInv, Throw
  PROVE  SchedulerInv'
<1>1. ViewInv'
  BY ViewFrame DEF SchedulerInv, Throw
<1>2. SchedulerTypeOK'
  BY <1>1 DEF SchedulerInv, SchedulerTypeOK, Throw, ViewInv, ControlStates
<1>3. ThreadEndsBeforeStop'
  BY DEF SchedulerInv, ThreadEndsBeforeStop, Throw
<1>4. ControlInv'
  BY DEF ControlInv, Throw
<1> QED
  BY <1>1, <1>2, <1>3, <1>4 DEF SchedulerInv

-----------------------------------------------------------------------------
(* SchedulerInv is inductive. *)

LEMMA SchedulerInitInv == SchedulerInit => SchedulerInv
<1> SUFFICES ASSUME SchedulerInit PROVE SchedulerInv
  OBVIOUS
<1>1. ViewInv
  BY DEF SchedulerInit, ViewInit, ViewInv, ViewTypeOK, HostInv, EmptyMap
<1> QED
  BY <1>1
  DEF SchedulerInit, SchedulerInv, SchedulerTypeOK, ViewInv, ControlStates, ThreadEndsBeforeStop,
      ControlInv

(* The owner's steps change lifecycle, running_ and the thread's existence. *)
LEMMA OwnerInv ==
  ASSUME SchedulerInv, StartServer \/ StopRunning \/ OwnerStep
  PROVE  SchedulerInv'
<1>1. UNCHANGED viewVars
  BY DEF StartServer, StopRunning, OwnerStep, StartThread, JoinThread, ShutdownServer
<1>2. ViewInv' /\ DOMAIN engine_to_state' = DOMAIN engine_to_state
  BY <1>1, ViewFrame DEF SchedulerInv
<1>3. control' = control \/ control' = [pc |-> "none"] \/ control' = [pc |-> "read_running"]
  BY DEF StartServer, StopRunning, OwnerStep, StartThread, JoinThread, ShutdownServer
<1>4. SchedulerTypeOK'
  <2>1. control' \in ControlStates
    BY <1>3 DEF SchedulerInv, SchedulerTypeOK, ControlStates
  <2> QED
    BY <1>2, <2>1 DEF SchedulerInv, SchedulerTypeOK, ViewInv, StartServer, StopRunning, OwnerStep,
                      StartThread, JoinThread, ShutdownServer
<1>5. ThreadEndsBeforeStop'
  BY DEF SchedulerInv, ThreadEndsBeforeStop, StartServer, StopRunning, OwnerStep, StartThread,
         JoinThread, ShutdownServer
<1>6. ControlInv'
  BY <1>2, <1>3 DEF SchedulerInv, ControlInv, HasEngineState
<1> QED
  BY <1>2, <1>4, <1>5, <1>6 DEF SchedulerInv

LEMMA ControlStepInv ==
  ASSUME SchedulerInv, ControlStep
  PROVE  SchedulerInv'
<1>1. CASE ReadRunning
  <2>1. [pc |-> IF running THEN "fetch_view" ELSE "returned"] \in ControlStates
    BY DEF ControlStates
  <2> QED
    BY <1>1, <2>1, GotoInv DEF ReadRunning
<1>2. CASE FetchView
  <2>1. PICK r \in MasterViews : Goto([pc |-> "get_pending", view_reply |-> r])
    BY <1>2 DEF FetchView
  <2>2. [pc |-> "get_pending", view_reply |-> r] \in ControlStates
    BY DEF ControlStates
  <2> QED
    BY <1>2, <2>1, <2>2, GotoInv DEF FetchView
<1>3. CASE GetPendingTasks
  <2>1. PICK n \in Pending :
          Goto(IF n > 0 THEN [pc |-> "get_engines", tasks |-> n] ELSE [pc |-> "read_running"])
    BY <1>3 DEF GetPendingTasks
  <2>2. n \in Nat
    BY SchedulerAssumption
  <2>3. CASE n > 0
    <3>1. [pc |-> "get_engines", tasks |-> n] \in ControlStates
      BY <2>2 DEF ControlStates
    <3> QED
      BY <1>3, <2>1, <2>3, <3>1, GotoInv DEF GetPendingTasks
  <2>4. CASE ~(n > 0)
    <3>1. [pc |-> "read_running"] \in ControlStates
      BY DEF ControlStates
    <3> QED
      BY <1>3, <2>1, <2>4, <3>1, GotoInv DEF GetPendingTasks
  <2> QED
    BY <2>3, <2>4
<1>4. CASE ScheduleEngines
  <2> DEFINE c == [pc |-> "next_engine", tasks |-> control.tasks, engines |-> GetSchedulableEngines,
                   decisions |-> <<>>]
  <2>1. GetSchedulableEngines \subseteq DOMAIN engine_to_state
    BY DEF GetSchedulableEngines
  <2>2. DOMAIN engine_to_state \subseteq EngineNames
    BY DEF SchedulerInv, ViewInv, ViewTypeOK
  <2>3. control.tasks \in Nat
    BY <1>4, ControlFields DEF SchedulerInv, SchedulerTypeOK, ScheduleEngines
  <2>4. c \in ControlStates
    BY <2>1, <2>2, <2>3 DEF ControlStates
  <2> QED
    BY <1>4, <2>1, <2>4, GotoInv DEF ScheduleEngines
<1>5. ASSUME NEW e \in EngineNames, ScheduleEngine(e)
      PROVE  SchedulerInv'
  <2>1. CASE Throw
    BY <2>1, ThrowInv
  <2>2. CASE ~Throw
    <3> DEFINE s == engine_to_state[e]
               c == [pc |-> "next_task", tasks |-> control.tasks,
                     engines |-> control.engines \ {e}, decisions |-> control.decisions,
                     available |-> s.maximum_tasks - s.running_tasks]
    <3>1. control.pc = "next_engine" /\ HasEngineState(e) /\ Goto(c) /\ UNCHANGED viewVars
      BY <1>5, <2>2 DEF ScheduleEngine
    <3>2. control.engines \subseteq DOMAIN engine_to_state
      BY <3>1 DEF SchedulerInv, ControlInv
    <3>3. s \in EngineStates
      BY <3>1 DEF SchedulerInv, ViewInv, ViewTypeOK, HasEngineState
    <3>4. s.maximum_tasks - s.running_tasks \in Int
      BY <3>3 DEF EngineStates
    <3>5. c \in ControlStates
      BY <3>1, <3>4, ControlFields DEF SchedulerInv, SchedulerTypeOK, ControlStates
    <3> QED
      BY <3>1, <3>2, <3>5, GotoInv
  <2> QED
    BY <2>1, <2>2
<1>6. CASE ScheduleTask
  <2>1. CASE Throw
    BY <2>1, ThrowInv
  <2>2. CASE ~Throw
    <3> DEFINE c == [pc |-> "next_task", tasks |-> control.tasks - 1, engines |-> control.engines,
                     decisions |-> Append(control.decisions, EmptyDecision),
                     available |-> control.available - 1]
    <3>1. control.pc = "next_task" /\ control.tasks > 0 /\ Goto(c) /\ UNCHANGED viewVars
      BY <1>6, <2>2 DEF ScheduleTask, HasSpotAndTask
    <3>2. /\ control.tasks \in Nat /\ control.available \in Int
          /\ control.engines \subseteq EngineNames
          /\ control.decisions \in Seq({EmptyDecision})
      BY <3>1, ControlFields DEF SchedulerInv, SchedulerTypeOK
    <3>3. /\ control.tasks - 1 \in Nat /\ control.available - 1 \in Int
          /\ Append(control.decisions, EmptyDecision) \in Seq({EmptyDecision})
      BY <3>1, <3>2
    <3>4. c \in ControlStates
      BY <3>2, <3>3 DEF ControlStates
    <3>5. control.engines \subseteq DOMAIN engine_to_state
      BY <3>1 DEF SchedulerInv, ControlInv
    <3> QED
      BY <3>1, <3>4, <3>5, GotoInv
  <2> QED
    BY <2>1, <2>2
<1>7. CASE EngineScheduled
  <2> DEFINE c == [pc |-> "next_engine", tasks |-> control.tasks, engines |-> control.engines,
                   decisions |-> control.decisions]
  <2>1. control.pc = "next_task" /\ Goto(c) /\ UNCHANGED viewVars
    BY <1>7 DEF EngineScheduled
  <2>2. c \in ControlStates
    BY <2>1, ControlFields DEF SchedulerInv, SchedulerTypeOK, ControlStates
  <2>3. control.engines \subseteq DOMAIN engine_to_state
    BY <2>1 DEF SchedulerInv, ControlInv
  <2> QED
    BY <2>1, <2>2, <2>3, GotoInv
<1>8. CASE AllScheduled
  <2> DEFINE c == [pc |-> "count", decisions |-> control.decisions]
  <2>1. control.pc = "next_engine" /\ Goto(c) /\ UNCHANGED viewVars
    BY <1>8 DEF AllScheduled
  <2>2. c \in ControlStates
    BY <2>1, ControlFields DEF SchedulerInv, SchedulerTypeOK, ControlStates
  <2> QED
    BY <2>1, <2>2, GotoInv
<1>9. CASE CountDecisions
  <2>1. control.decisions \in Seq({EmptyDecision})
    BY <1>9, ControlFields DEF SchedulerInv, SchedulerTypeOK, CountDecisions
  <2>2. /\ ViewInv' /\ NoEngineForgotten
        /\ control.decisions # <<>> => NoName \in DOMAIN engine_to_state'
    BY <1>9, <2>1, CountInv DEF SchedulerInv, CountDecisions
  <2>3. control' = [pc |-> "execute", decisions |-> control.decisions]
    BY <1>9 DEF CountDecisions, Goto
  <2>4. SchedulerTypeOK'
    BY <1>9, <2>1, <2>2, <2>3
    DEF SchedulerInv, SchedulerTypeOK, ViewInv, CountDecisions, Goto, ControlStates
  <2>5. ThreadEndsBeforeStop'
    BY <1>9 DEF SchedulerInv, ThreadEndsBeforeStop, CountDecisions, Goto
  <2>6. ControlInv'
    BY <2>2, <2>3 DEF ControlInv, HasEngineState
  <2> QED
    BY <2>2, <2>4, <2>5, <2>6 DEF SchedulerInv
<1>10. CASE ExecuteDecision
  <2>1. CASE Throw
    BY <2>1, ThrowInv
  <2>2. CASE ~Throw
    <3> DEFINE c == [pc |-> "execute", decisions |-> Tail(control.decisions)]
    <3>1. /\ control.pc = "execute" /\ control.decisions # <<>>
          /\ Goto(c) /\ UNCHANGED viewVars
      BY <1>10, <2>2 DEF ExecuteDecision
    <3>2. control.decisions \in Seq({EmptyDecision})
      BY <3>1, ControlFields DEF SchedulerInv, SchedulerTypeOK
    <3>3. Tail(control.decisions) \in Seq({EmptyDecision})
      BY <3>1, <3>2
    <3>4. c \in ControlStates
      BY <3>3 DEF ControlStates
    <3>5. HasEngineState(NoName)
      BY <3>1 DEF SchedulerInv, ControlInv
    <3> QED
      BY <3>1, <3>4, <3>5, GotoInv
  <2> QED
    BY <2>1, <2>2
<1>11. CASE Executed
  <2>1. [pc |-> "read_running"] \in ControlStates
    BY DEF ControlStates
  <2> QED
    BY <1>11, <2>1, GotoInv DEF Executed
<1> QED
  BY <1>1, <1>2, <1>3, <1>4, <1>5, <1>6, <1>7, <1>8, <1>9, <1>10, <1>11 DEF ControlStep

LEMMA SchedulerNextInv == SchedulerInv /\ [SchedulerNext]_schedulerVars => SchedulerInv'
<1> SUFFICES ASSUME SchedulerInv, [SchedulerNext]_schedulerVars PROVE SchedulerInv'
  OBVIOUS
<1>1. CASE StartServer \/ StopRunning \/ OwnerStep
  BY <1>1, OwnerInv
<1>2. ASSUME NEW i \in Engines, Introduce(i)
      PROVE  SchedulerInv'
  BY <1>2, AddInv, HandlerStepInv DEF Introduce, SchedulerInv
<1>3. ASSUME NEW r \in Refreshes, Refresh(r)
      PROVE  SchedulerInv'
  <2>1. r \in MasterViews
    BY SchedulerAssumption
  <2> QED
    BY <1>3, <2>1, ParseInv, HandlerStepInv DEF Refresh, SchedulerInv
<1>4. CASE ControlStep
  BY <1>4, ControlStepInv
<1>5. CASE UNCHANGED schedulerVars
  BY <1>5, ViewFrame, HandlerStepInv DEF schedulerVars, SchedulerInv, NoEngineForgotten
<1> QED
  BY <1>1, <1>2, <1>3, <1>4, <1>5 DEF SchedulerNext

-----------------------------------------------------------------------------
(* What follows for the scheduler. *)

(* SchedulerInv holds for any engines, views, tasks and number of pending  *)
(* tasks, whatever the handlers' and the control thread's interleaving.    *)
THEOREM SchedulerInvariant == SchedulerSpec => []SchedulerInv
BY SchedulerInitInv, SchedulerNextInv, PTL DEF SchedulerSpec

(* The state of the system view, of the owner and of the control thread is *)
(* well typed (ServerlessSystemView, Scheduler).                           *)
THEOREM SchedulerTypeCorrect == SchedulerSpec => []SchedulerTypeOK
<1>1. SchedulerInv => SchedulerTypeOK
  BY DEF SchedulerInv
<1> QED
  BY <1>1, SchedulerInvariant, PTL

(* Whatever is schedulable has introduced itself, and has its client and   *)
(* its ephemeral manager on its host (AddExecutionEngine,                  *)
(* ParseGetViewReply, AvailableToSchedule).                                *)
THEOREM SchedulableComplete == SchedulerSpec => []SchedulableEnginesAreComplete
<1>1. SchedulerInv => SchedulableEnginesAreComplete
  <2> SUFFICES ASSUME SchedulerInv, NEW e \in GetSchedulableEngines
               PROVE  /\ \E i \in Engines : i.rpc_uri = e
                      /\ ClientOf(e) /\ ManagerOf(e)
    BY DEF SchedulableEnginesAreComplete
  <2>1. e \in DOMAIN engine_to_state /\ AvailableToSchedule(engine_to_state[e])
    BY DEF GetSchedulableEngines
  <2>2. EngineInv(e) /\ e \in EngineNames
    BY <2>1 DEF SchedulerInv, ViewInv, ViewTypeOK
  <2> QED
    BY <2>1, <2>2 DEF EngineInv, AvailableToSchedule, EngineNames
<1> QED
  BY <1>1, SchedulerInvariant, PTL

(* The control thread ends within Stop, and running_ is what the owner last *)
(* said (Start, Stop).                                                     *)
THEOREM ThreadEnds == SchedulerSpec => []ThreadEndsBeforeStop
<1>1. SchedulerInv => ThreadEndsBeforeStop
  BY DEF SchedulerInv
<1> QED
  BY <1>1, SchedulerInvariant, PTL

LEMMA NamesAreNotEmpty ==
  ASSUME NEW p \in Managers \cup Clients
  PROVE  GenerateName(p) # NoName
BY DEF GenerateName, NoName, Managers, Clients

(* A view takes neither the client nor the manager nor the capacity of an  *)
(* engine away.                                                            *)
LEMMA ParseKeepsAvailable ==
  ASSUME ViewInv, NEW r \in MasterViews, ParseGetViewReply(r), NEW e \in GetSchedulableEngines
  PROVE  e \in GetSchedulableEngines'
<1>1. e \in DOMAIN engine_to_state /\ AvailableToSchedule(engine_to_state[e])
  BY DEF GetSchedulableEngines
<1>2. StateOf(e) = engine_to_state[e]
  BY <1>1, StateOfType
<1> DEFINE with_manager == {EngineFor(m) : m \in EphemeralIn(r)}
           with_client == {EngineFor(c) : c \in r.client}
<1>3. PICK ephemeral \in [with_manager -> EphemeralIn(r)], client \in [with_client -> r.client] :
        engine_to_state' =
          [x \in DOMAIN engine_to_state \cup with_manager \cup with_client |->
             Matched(x, ephemeral, client)]
  BY DEF ParseGetViewReply
<1> HIDE DEF with_manager, with_client
<1>4. NameKept(ephemeral, e, StateOf(e).ephemeral_name) # NoName
  <2>1. e \in DOMAIN ephemeral => ephemeral[e] \in Managers
    BY ReplyType
  <2> QED
    BY <1>1, <1>2, <2>1, NamesAreNotEmpty DEF NameKept, AvailableToSchedule
<1>5. NameKept(client, e, StateOf(e).client_name) # NoName
  <2>1. e \in DOMAIN client => client[e] \in Clients
    BY ReplyType
  <2> QED
    BY <1>1, <1>2, <2>1, NamesAreNotEmpty DEF NameKept, AvailableToSchedule
<1>6. e \in DOMAIN engine_to_state' /\ engine_to_state'[e] = Matched(e, ephemeral, client)
  BY <1>1, <1>3
<1>7. AvailableToSchedule(engine_to_state'[e])
  BY <1>1, <1>2, <1>4, <1>5, <1>6, MatchedFields DEF AvailableToSchedule
<1> QED
  BY <1>6, <1>7 DEF GetSchedulableEngines

(* Steps that are no introduction, no view and no count leave the engines  *)
(* alone.                                                                  *)
LEMMA OtherSteps ==
  ASSUME [SchedulerNext]_schedulerVars
  PROVE  \/ \E i \in Engines : Introduce(i)
         \/ \E r \in Refreshes : Refresh(r)
         \/ CountDecisions
         \/ UNCHANGED viewVars
BY DEF SchedulerNext, schedulerVars, StartServer, StopRunning, OwnerStep, StartThread, JoinThread,
       ShutdownServer, ControlStep, ReadRunning, FetchView, GetPendingTasks, ScheduleEngines,
       ScheduleEngine, ScheduleTask, EngineScheduled, AllScheduled, ExecuteDecision, Executed, Throw

(* An engine stops being schedulable only by its own introduction or by    *)
(* its own tasks (ParseGetViewReply, TasksScheduled).                      *)
THEOREM SchedulableStay == SchedulerSpec => SchedulableEnginesStay
<1>1. SchedulerInv /\ [SchedulerNext]_schedulerVars =>
        [\A e \in GetSchedulableEngines :
           \/ e \in GetSchedulableEngines'
           \/ Full(e)'
           \/ \E i \in Engines : i.rpc_uri = e /\ Introduce(i)]_schedulerVars
  <2> SUFFICES ASSUME SchedulerInv, [SchedulerNext]_schedulerVars, NEW e \in GetSchedulableEngines
               PROVE  \/ e \in GetSchedulableEngines'
                      \/ Full(e)'
                      \/ \E i \in Engines : i.rpc_uri = e /\ Introduce(i)
    OBVIOUS
  <2>1. e \in DOMAIN engine_to_state /\ AvailableToSchedule(engine_to_state[e])
    BY DEF GetSchedulableEngines
  <2>2. ASSUME NEW i \in Engines, Introduce(i), i.rpc_uri # e
        PROVE  e \in GetSchedulableEngines'
    <3>1. e \in DOMAIN engine_to_state' /\ engine_to_state'[e] = engine_to_state[e]
      BY <2>1, <2>2 DEF Introduce, AddExecutionEngine, Bind
    <3> QED
      BY <2>1, <3>1 DEF GetSchedulableEngines
  <2>3. ASSUME NEW r \in Refreshes, Refresh(r)
        PROVE  e \in GetSchedulableEngines'
    BY <2>3, ParseKeepsAvailable, SchedulerAssumption DEF Refresh, SchedulerInv
  <2>4. ASSUME CountDecisions
        PROVE  e \in GetSchedulableEngines' \/ Full(e)'
    <3>1. control.decisions \in Seq({EmptyDecision})
      BY <2>4, ControlFields DEF SchedulerInv, SchedulerTypeOK, CountDecisions
    <3>2. e \in DOMAIN engine_to_state'
      BY <2>1, <2>4, <3>1, CountInv DEF SchedulerInv, CountDecisions, NoEngineForgotten
    <3>3. StateOf(e) = engine_to_state[e]
      BY <2>1, StateOfType DEF SchedulerInv
    <3> DEFINE n == engine_to_state'[e]
    <3>4. /\ n \in EngineStates
          /\ n.name # NoName /\ n.client_name # NoName /\ n.ephemeral_name # NoName
      BY <2>1, <2>4, <3>1, <3>2, <3>3, CountedFields
      DEF SchedulerInv, CountDecisions, AvailableToSchedule
    <3>5. n.running_tasks < n.maximum_tasks \/ n.running_tasks >= n.maximum_tasks
      BY <3>4 DEF EngineStates
    <3> QED
      BY <3>2, <3>4, <3>5 DEF GetSchedulableEngines, AvailableToSchedule, Full
  <2>5. CASE UNCHANGED viewVars
    BY <2>1, <2>5 DEF viewVars, GetSchedulableEngines
  <2> QED
    BY <2>2, <2>3, <2>4, <2>5, OtherSteps
<1> QED
  BY <1>1, SchedulerInvariant, PTL DEF SchedulerSpec, SchedulableEnginesStay

(* Nothing but a file without a persistent manager ends the process        *)
(* (Schedule, Execute).                                                    *)
THEOREM SchedulerKeepsRunning == SchedulerSpec => KeepsRunning
<1>1. SchedulerInv /\ [SchedulerNext]_schedulerVars =>
        [lifecycle # "terminated" /\ (\A task \in Tasks : FilesAreKnown(task))
           => lifecycle' # "terminated"]_schedulerVars
  <2> SUFFICES ASSUME SchedulerInv, [SchedulerNext]_schedulerVars, lifecycle # "terminated",
                      \A task \in Tasks : FilesAreKnown(task)
               PROVE  lifecycle' # "terminated"
    OBVIOUS
  <2>1. ASSUME NEW e \in EngineNames, ScheduleEngine(e)
        PROVE  UNCHANGED lifecycle
    <3>1. HasEngineState(e)
      BY <2>1 DEF SchedulerInv, ControlInv, ScheduleEngine, HasEngineState
    <3> QED
      BY <2>1, <3>1 DEF ScheduleEngine, Goto
  <2>2. CASE ScheduleTask
    BY <2>2 DEF ScheduleTask, Goto
  <2>3. CASE ExecuteDecision
    <3>1. /\ control.pc = "execute" /\ control.decisions # <<>>
          /\ control.decisions \in Seq({EmptyDecision})
      BY <2>3, ControlFields DEF ExecuteDecision, SchedulerInv, SchedulerTypeOK
    <3>2. Head(control.decisions) = EmptyDecision
      BY <3>1
    <3>3. HasEngineState(Head(control.decisions).engine)
      BY <3>1, <3>2 DEF SchedulerInv, ControlInv, EmptyDecision
    <3> QED
      BY <2>3, <3>3 DEF ExecuteDecision, Goto
  <2>4. CASE ReadRunning \/ FetchView \/ GetPendingTasks \/ ScheduleEngines \/ EngineScheduled
               \/ AllScheduled \/ CountDecisions \/ Executed
    BY <2>4 DEF ReadRunning, FetchView, GetPendingTasks, ScheduleEngines, EngineScheduled,
                AllScheduled, CountDecisions, Executed, Goto
  <2>5. CASE StartServer \/ StopRunning \/ OwnerStep
    BY <2>5 DEF StartServer, StopRunning, OwnerStep, StartThread, JoinThread, ShutdownServer
  <2>6. ASSUME NEW i \in Engines, Introduce(i)
        PROVE  UNCHANGED lifecycle
    BY <2>6 DEF Introduce
  <2>7. ASSUME NEW r \in Refreshes, Refresh(r)
        PROVE  UNCHANGED lifecycle
    BY <2>7 DEF Refresh
  <2>8. CASE UNCHANGED schedulerVars
    BY <2>8 DEF schedulerVars
  <2> QED
    BY <2>1, <2>2, <2>3, <2>4, <2>5, <2>6, <2>7, <2>8 DEF SchedulerNext, ControlStep
<1> QED
  BY <1>1, SchedulerInvariant, PTL DEF SchedulerSpec, KeepsRunning

=============================================================================
