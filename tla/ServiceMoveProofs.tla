------------------------- MODULE ServiceMoveProofs -------------------------
(***************************************************************************)
(* Proofs about StorageService with rules that move files, for any number  *)
(* of managers, clients, rules and calls: no file is lost, and what is got *)
(* is what was put, when files are moved once, as FilesMoveOnce describes; *)
(* and the views agree with the managers, but for what a call is changing, *)
(* when calls are made one at a time, as OneCallAtATime describes.         *)
(***************************************************************************)
EXTENDS ServiceViewProofs

-----------------------------------------------------------------------------
(* The manager that a rule for Get moves the file to. *)
Target(c) == c.rule.rule.action[1].mgrs[1]

MoveInv(t, c) ==
  /\ c.pc = "copying" =>
       /\ work[t].pc = "write"
       /\ GenerateName(work[t].at) = Target(c) /\ work[t].key = t.key
  /\ c.pc \in {"reporting", "last"} \/ (c.pc = "action" /\ c.idx >= 2) =>
       \E m \in Managers : GenerateName(m) = Target(c) /\ Holds(m, t.key)
  /\ c.pc = "returned" /\ c.status = "OK" => c.value \in Values

(* The file may be gone from where it was. *)
Moved(c) ==
  c.pc \in {"reporting", "fallthrough", "last", "returned"} \/ (c.pc = "action" /\ c.idx >= 3)

-----------------------------------------------------------------------------
(* The parts of FilesMoveInv. *)

StoredInv == \A m \in Managers : \A key \in DOMAIN store[m] : store[m][key] \in Values

(* What a manager still has to do for thread t: to end its copy, or what   *)
(* it had sent when its client ended.  A file is fetched from where it is, *)
(* what is written is what somebody put, and a file is removed when        *)
(* another manager has it.                                                 *)
LateInv(t) ==
  /\ work[t] # NoWork => t \in Calls /\ call[t].pc \in {"copying", "returned"}
  /\ work[t].pc = "write" => work[t].value \in Values
  /\ work[t].pc \in {"fetch", "remove"} => t.op = "GET" /\ work[t].key = t.key
  /\ work[t].pc = "fetch" =>
       \E m \in Managers :
         manager_state[m] = "serving" /\ Uri(m) = work[t].from /\ Holds(m, t.key)
  /\ work[t].pc = "remove" => \E m \in Managers \ {work[t].at} : Holds(m, t.key)

ServingInv ==
  forwarded # {} \/ (\E o \in Operators : handler[o] # Idle) =>
    \A m \in Managers : manager_state[m] = "serving"

OnDiskInv ==
  \A m \in Managers : \A key \in DOMAIN OnDisk[m] :
    Holds(m, key) \/ \E t \in Calls : t.op = "GET" /\ t.key = key /\ Moved(call[t])

FilesMoveInv ==
  /\ StoredInv /\ ServingInv /\ OnDiskInv
  /\ \A t \in Threads : LateInv(t)
  /\ \A t \in Calls : t.op = "GET" => MoveInv(t, call[t])

-----------------------------------------------------------------------------
(* All managers serve from the first rule on: rules are made of the names  *)
(* of running servers, and no manager ends. *)

LEMMA ManagersStay ==
  ASSUME ManagersKeepFiles, ServiceInv, [ServiceNext]_serviceVars, NEW m \in Managers,
         manager_state[m] = "serving"
  PROVE  manager_state'[m] = "serving"
<1>1. ~\E n \in Managers : CrashManager(n)
  BY DEF CrashManager, Kill, ManagersKeepFiles
<1>2. CASE StartStep
  BY <1>2 DEF StartStep, BeginManagerStart, EndManagerStart, BeginClientStart, EndClientStart,
              managerVars, ServiceInv, ServiceTypeOK, ManagerTypeOK
<1>3. CASE \E t \in Calls : BeginCall(t) \/ CallStep(t)
  <2>1. UNCHANGED manager_state
    BY <1>3, AbortWork
       DEF BeginCall, CallStep, MakeCall, HasMatchingRule, GetMatchingRule, ExecuteCopyAction,
           BeginCopyFrom, FinishWrite, EndWrite, BelatedWork, BeginFetch, EndRemove,
           ExecuteRemoveAction, ExecutePutAction, SkipAction, RejectAction, Report, Reported,
           ExecuteGetAction, managerVars
  <2> QED
    BY <2>1
<1>4. CASE UNCHANGED managerVars
  BY <1>4 DEF managerVars
<1>5. CASE \E c \in Clients : CrashClient(c)
  BY <1>5, AbortWork DEF CrashClient
<1> QED
  BY <1>1, <1>2, <1>3, <1>4, <1>5
     DEF ServiceNext, serviceVars, Operate, Look, MasterStep, ForwardRule

LEMMA OperatorsAct ==
  ASSUME ServiceInv, ThreadsInv, [ServiceNext]_serviceVars
  PROVE  /\ forwarded' # {} => forwarded # {} \/ \E o \in Operators : handler[o] # Idle
         /\ \A o \in Operators : handler'[o] # Idle => handler[o] # Idle \/ Operate(o)
<1> DEFINE Goal == /\ forwarded' # {} => forwarded # {} \/ \E o \in Operators : handler[o] # Idle
                   /\ \A o \in Operators : handler'[o] # Idle => handler[o] # Idle \/ Operate(o)
<1>1. ASSUME NEW t \in Threads, NEW h, Become(t, h)
      PROVE  \A u \in Threads : handler'[u] = IF u = t THEN h ELSE handler[u]
  BY <1>1 DEF Become, ServiceInv, MasterInv, MasterTypeOK
<1>2. ASSUME UNCHANGED forwarded, NEW t \in Threads \ Operators, NEW h, Become(t, h)
      PROVE  Goal
  BY <1>1, <1>2, ManagersAreNoCalls
<1>3. CASE UNCHANGED masterVars
  BY <1>3 DEF masterVars
<1>4. CASE StartStep
  <2>1. ASSUME NEW p \in Peers, (\E s : Receive(p, s)) \/ Consume(p)
        PROVE  Goal
    <3>1. (\E h : Become(p, h)) /\ UNCHANGED forwarded
      BY <2>1 DEF Receive, Consume
    <3> QED
      BY <1>2, <3>1, ServiceAssumption
  <2> QED
    BY <1>3, <1>4, <2>1, StartStepMaster DEF ReceiveIntroduce, Peers, ServiceInv, ServiceTypeOK
<1>5. ASSUME NEW t \in Calls, BeginCall(t) \/ CallStep(t)
      PROVE  Goal
  <2>1. \/ UNCHANGED masterVars
        \/ (\E h : Become(t, h)) /\ UNCHANGED forwarded
    BY <1>5, CallStepMaster DEF ReceiveStorageChange, Receive, Consume
  <2> QED
    BY <1>2, <1>3, <2>1, ServiceAssumption
<1>6. ASSUME NEW o \in Operators, Operate(o)
      PROVE  Goal
  <2>1. UNCHANGED forwarded /\ \E h : Become(o, h)
    BY <1>6 DEF Operate, ReceiveRule, Receive
  <2> QED
    BY <1>1, <1>6, <2>1, ManagersAreNoCalls
<1>7. ASSUME NEW t \in Threads, ForwardRule(t)
      PROVE  Goal
  <2>1. t \in Operators /\ handler[t] # Idle /\ \E h : Become(t, h)
    BY <1>7 DEF ForwardRule, Forward, ThreadsInv, Serves, Idle
  <2> QED
    BY <1>1, <2>1, ManagersAreNoCalls
<1>8. CASE Terminate
  BY <1>8, ManagersAreNoCalls DEF Terminate
<1>9. ASSUME NEW t \in Threads, HandlerStep(t)
      PROVE  Goal
  <2>1. UNCHANGED forwarded
    BY <1>9 DEF HandlerStep, LockTracker, AddPeer, AddManager, AddFile, FinishIntroduce, ApplyChange,
                RemoveFromDst, FinishStorageChange, FindClient, FillInRule, PopulateFiles,
                PopulateUris, Throw, Terminate
  <2>2. Terminate \/ (handler[t] # Idle /\ \E h : Become(t, h))
    BY <1>9, HandlerAdvances DEF Advances, ThreadsInv, ServiceInv
  <2> QED
    BY <1>1, <1>8, <2>1, <2>2, ManagersAreNoCalls
<1>10. CASE MasterStart
  BY <1>10 DEF MasterStart
<1>11. ASSUME NEW v \in Viewers, Look(v)
       PROVE  Goal
  <2>1. UNCHANGED forwarded /\ \E h : Become(v, h)
    BY <1>11 DEF Look, ReceiveGetView, Receive
  <2> QED
    BY <1>2, <2>1, ServiceAssumption
<1>12. ASSUME NEW p \in Peers, NEW state, Kill(p), LeaveIntroduction(p, state)
       PROVE  Goal
  <2>1. UNCHANGED forwarded /\ \A o \in Operators : handler'[o] = handler[o]
    BY <1>12, LeaveFrame, ManagersAreNoCalls, ServiceAssumption
  <2> QED
    BY <2>1
<1> QED
  BY <1>3, <1>4, <1>5, <1>6, <1>7, <1>8, <1>9, <1>10, <1>11, <1>12
     DEF ServiceNext, serviceVars, CrashClient, CrashManager, MasterStep, Peers

LEMMA ServingNext ==
  ASSUME ManagersKeepFiles, ServiceInv, ThreadsInv, ServingInv, [ServiceNext]_serviceVars
  PROVE  ServingInv'
<1>1. \A o \in Operators : Operate(o) => \A m \in Managers : manager_state[m] = "serving"
  BY DEF Operate
<1> QED
  BY <1>1, ManagersStay, OperatorsAct DEF ServingInv

-----------------------------------------------------------------------------
(* The rules. *)

LEMMA ElementsOf ==
  ASSUME NEW S, NEW seq \in Seq(S)
  PROVE  \A i \in DOMAIN seq : seq[i] \in S
OBVIOUS

LEMMA ThreeActions ==
  ASSUME NEW a \in Seq(Actions), Len(a) = 3
  PROVE  DOMAIN a = 1..3 /\ a[1] \in Actions /\ a[2] \in Actions /\ a[3] \in Actions
<1>1. DOMAIN a = 1..3
  OBVIOUS
<1>2. \A i \in DOMAIN a : a[i] \in Actions
  BY ElementsOf
<1>3. 1 \in 1..3 /\ 2 \in 1..3 /\ 3 \in 1..3
  OBVIOUS
<1> QED
  BY <1>1, <1>2, <1>3

LEMMA ManagersOf ==
  ASSUME NEW a \in Actions
  PROVE  /\ a.type = "copy_from" => 1 \in DOMAIN a.mgrs /\ 2 \in DOMAIN a.mgrs
         /\ a.type \in {"get", "remove", "put"} => 1 \in DOMAIN a.mgrs
<1>1. CASE a \in [type: {"get", "remove", "put"}, key: Keys, mgrs: [1..1 -> Names]]
  BY <1>1
<1>2. CASE a \in [type: {"copy_from"}, key: Keys, mgrs: [1..2 -> Names]]
  BY <1>2
<1>3. CASE a \in [type: {"not_set"}, key: Keys, mgrs: {<<>>}]
  BY <1>3
<1> QED
  BY <1>1, <1>2, <1>3 DEF Actions

LEMMA MoveRule ==
  ASSUME FilesMoveOnce, ServiceInv, ThreadsInv, NEW t \in Calls, t.op = "GET", HasARule(call[t]),
         NEW a, a = call[t].rule.rule.action
  PROVE  /\ a \in Seq(Actions) /\ Len(a) = 3
         /\ \A i \in 1..3 : a[i].key = t.key /\ i \in DOMAIN a /\ 1 \in DOMAIN a[i].mgrs
         /\ a[1].type = "copy_from" /\ a[2].type = "remove" /\ a[3].type = "get"
         /\ a[3].mgrs[1] = a[1].mgrs[1] /\ a[2].mgrs[1] = a[1].mgrs[2]
         /\ a[1].mgrs[1] # a[1].mgrs[2] /\ 2 \in DOMAIN a[1].mgrs
         /\ \E m \in Managers : GenerateName(m) = a[1].mgrs[2] /\ t.key \in DOMAIN OnDisk[m]
<1> PICK r : r = call[t].rule.rule
  OBVIOUS
<1>1. a = r.action /\ r \in Rules /\ a \in Seq(Actions) /\ r.op_type = "GET" /\ r.key = t.key
  BY CallRule
<1>2. Moves(r)
  BY <1>1 DEF FilesMoveOnce
<1>3. /\ Len(a) = 3 /\ \A i \in 1..3 : a[i].key = t.key
      /\ a[1].type = "copy_from" /\ a[2].type = "remove" /\ a[3].type = "get"
      /\ a[3].mgrs[1] = a[1].mgrs[1] /\ a[2].mgrs[1] = a[1].mgrs[2]
      /\ a[1].mgrs[1] # a[1].mgrs[2]
      /\ \E m \in Managers : GenerateName(m) = a[1].mgrs[2] /\ t.key \in DOMAIN OnDisk[m]
  BY <1>1, <1>2 DEF Moves
<1>4. /\ 1 \in DOMAIN a /\ 2 \in DOMAIN a /\ 3 \in DOMAIN a
      /\ a[1] \in Actions /\ a[2] \in Actions /\ a[3] \in Actions
  BY <1>1, <1>3, ThreeActions
<1>5. /\ 1 \in DOMAIN a[1].mgrs /\ 2 \in DOMAIN a[1].mgrs
      /\ 1 \in DOMAIN a[2].mgrs /\ 1 \in DOMAIN a[3].mgrs
  BY <1>3, <1>4, ManagersOf
<1>6. \A i \in 1..3 : i = 1 \/ i = 2 \/ i = 3
  OBVIOUS
<1>7. \A i \in 1..3 : a[i].key = t.key /\ i \in DOMAIN a /\ 1 \in DOMAIN a[i].mgrs
  BY <1>3, <1>4, <1>5, <1>6
<1> QED
  BY <1>1, <1>3, <1>5, <1>7

LEMMA PutRule ==
  ASSUME FilesMoveOnce, ServiceInv, ThreadsInv, NEW t \in Calls, t.op = "PUT", HasARule(call[t])
  PROVE  \A i \in DOMAIN call[t].rule.rule.action :
           call[t].rule.rule.action[i].type \notin {"copy_from", "remove"}
BY CallRule DEF FilesMoveOnce, Moves

LEMMA CallOp ==
  ASSUME NEW t \in Calls
  PROVE  t.op \in {"GET", "PUT"}
BY ClientAssumption

(* Copies and removals belong to Gets, which are at their first action or  *)
(* their second one, and no action of a Get is not set.                    *)
LEMMA MoveAction ==
  ASSUME FilesMoveOnce, ServiceInv, ThreadsInv, NEW t \in Calls
  PROVE  /\ AtAction(t, {"copy_from"}) => t.op = "GET" /\ call[t].idx = 1
         /\ AtAction(t, {"remove"}) => t.op = "GET" /\ call[t].idx = 2
         /\ AtAction(t, {"not_set"}) => t.op = "PUT"
         /\ call[t].pc = "copying" => t.op = "GET" /\ call[t].idx = 1
         /\ t.op = "GET" /\ call[t].pc = "action" => Limit(t) = 2
<1> PICK a : a = call[t].rule.rule.action
  OBVIOUS
<1>1. ASSUME call[t].pc = "copying" \/ AtAction(t, {CurrentAction(t).type})
      PROVE  /\ HasARule(call[t]) /\ call[t].idx \in DOMAIN a /\ CurrentAction(t) = a[call[t].idx]
             /\ call[t].idx \in Nat
             /\ call[t].pc = "copying" => a[call[t].idx].type = "copy_from"
  <2>1. call[t].pc \in {"action", "copying"} /\ call[t].idx <= Len(a)
    BY <1>1, AtActionFields DEF ServiceInv, ServiceTypeOK, ClientInv, CallInv
  <2> QED
    BY <2>1, CurrentActionType, RunningFields
       DEF HasARule, ServiceInv, ServiceTypeOK, CurrentAction, ThreadsInv, Follows
<1>2. ASSUME t.op = "GET", HasARule(call[t])
      PROVE  /\ a \in Seq(Actions) /\ Len(a) = 3 /\ a[1].type = "copy_from" /\ a[2].type = "remove"
             /\ a[3].type = "get"
  BY <1>2, MoveRule
<1>3. ASSUME t.op = "GET", HasARule(call[t]), call[t].idx \in DOMAIN a
      PROVE  call[t].idx \in {1, 2, 3}
  BY <1>2, <1>3
<1>4. t.op = "GET" /\ call[t].pc = "action" => Limit(t) = 2
  BY <1>2 DEF HasARule, Limit
<1>5. ASSUME call[t].pc = "copying" \/ AtAction(t, {CurrentAction(t).type})
      PROVE  /\ t.op = "PUT" => a[call[t].idx].type \notin {"copy_from", "remove"}
             /\ t.op = "GET" => \/ call[t].idx = 1 /\ a[call[t].idx].type = "copy_from"
                                \/ call[t].idx = 2 /\ a[call[t].idx].type = "remove"
                                \/ call[t].idx = 3 /\ a[call[t].idx].type = "get"
  BY <1>1, <1>2, <1>3, <1>5, PutRule
<1>6. \A type : AtAction(t, {type}) => CurrentAction(t).type = type /\ AtAction(t, {CurrentAction(t).type})
  BY DEF AtAction
<1>7. AtAction(t, {"copy_from"}) => t.op = "GET" /\ call[t].idx = 1
  BY <1>1, <1>5, <1>6, CallOp
<1>8. AtAction(t, {"remove"}) => t.op = "GET" /\ call[t].idx = 2
  BY <1>1, <1>5, <1>6, CallOp
<1>9. AtAction(t, {"not_set"}) => t.op = "PUT"
  BY <1>1, <1>5, <1>6, CallOp
<1>10. call[t].pc = "copying" => t.op = "GET" /\ call[t].idx = 1
  BY <1>1, <1>5, CallOp
<1> QED
  BY <1>4, <1>7, <1>8, <1>9, <1>10

(* The managers of a Get's rule: the one that the file comes from listens  *)
(* at its uri, and whoever listens at a uri of the rule has the name next  *)
(* to it.                                                                  *)
LEMMA MoveUris ==
  ASSUME FilesMoveOnce, NamesTellApart, ServiceInv, ThreadsInv, ServingInv, NEW t \in Calls,
         t.op = "GET", HasARule(call[t]), NEW a, a = call[t].rule.rule.action
  PROVE  /\ \A i \in 1..3 : \A m \in ListeningAt(call[t].rule.uri[<<i, 1>>]) :
              GenerateName(m) = a[i].mgrs[1]
         /\ \E m \in Managers :
              /\ GenerateName(m) = a[1].mgrs[2] /\ t.key \in DOMAIN OnDisk[m]
              /\ ListeningAt(call[t].rule.uri[<<1, 2>>]) = {m}
<1>1. /\ a \in Seq(Actions)
      /\ \A i \in 1..3 : i \in DOMAIN a /\ 1 \in DOMAIN a[i].mgrs
      /\ 2 \in DOMAIN a[1].mgrs
      /\ \E m \in Managers : GenerateName(m) = a[1].mgrs[2] /\ t.key \in DOMAIN OnDisk[m]
  BY MoveRule
<1>2. ASSUME NEW i \in 1..3, NEW m \in ListeningAt(call[t].rule.uri[<<i, 1>>])
      PROVE  GenerateName(m) = a[i].mgrs[1]
  BY <1>1, <1>2, UriNamed
<1> PICK m : m \in Managers /\ GenerateName(m) = a[1].mgrs[2] /\ t.key \in DOMAIN OnDisk[m]
  BY <1>1
<1> PICK uri : uri = call[t].rule.uri[<<1, 2>>]
  OBVIOUS
<1>3. ASSUME NEW n \in ListeningAt(uri)
      PROVE  n = m
  <2>1. GenerateName(n) = a[1].mgrs[2]
    BY <1>1, <1>3, UriNamed
  <2> QED
    BY <1>3, <2>1 DEF NamesTellApart, ListeningAt, Peers
<1>4. RouteOf(a[1].mgrs[2], uri) /\ forwarded # {}
  <2> PICK s : s = <<1, 2>>
    OBVIOUS
  <2> PICK r : r = call[t].rule
    OBVIOUS
  <2>1. s \in Slots(r.rule) /\ NameAt(r.rule, s) = a[1].mgrs[2]
    BY <1>1 DEF Slots, NameAt
  <2> QED
    BY <2>1 DEF ServiceInv, ClientInv, CallInv, Installed, Routed
<1>5. Uri(m) = uri
  BY <1>4 DEF RouteOf, NamesTellApart, Peers
<1>6. m \in ListeningAt(uri)
  BY <1>4, <1>5 DEF ServingInv, ListeningAt
<1> QED
  BY <1>2, <1>3, <1>6

-----------------------------------------------------------------------------
(* FilesMoveInv is invariant. *)

(* A step after which the managers that serve still do.                    *)
ManagersGoOn ==
  /\ ServingInv'
  /\ \A m \in Managers : manager_state[m] = "serving" => manager_state'[m] = "serving"

(* Call t goes on to s, and a file is taken away only when t has moved it. *)
LEMMA CallMoves ==
  ASSUME FilesMoveOnce, FilesMoveInv, StoredInv', ManagersGoOn, NEW t \in Calls, NEW s, LateInv(t)',
         \A u \in Threads \ {t} : work'[u] = work[u],
         \A u \in Calls : call'[u] = IF u = t THEN s ELSE call[u],
         \A m \in Managers : \A key :
           Holds(m, key) => Holds(m, key)' \/ (t.op = "GET" /\ t.key = key /\ Moved(s)),
         t.op = "GET" => MoveInv(t, s)' /\ (Moved(call[t]) => Moved(s))
  PROVE  FilesMoveInv'
<1>1. OnDiskInv'
  BY DEF OnDiskInv, FilesMoveInv
<1>2. ASSUME NEW u \in Calls, u.op = "GET"
      PROVE  MoveInv(u, call[u])'
  <2>1. CASE u = t
    <3>1. call'[u] = s
      BY <2>1
    <3> QED
      BY <1>2, <2>1, <3>1 DEF MoveInv, Target, Holds
  <2>2. CASE u # t
    <3>1. \A m \in Managers : Holds(m, u.key) => Holds(m, u.key)'
      BY <1>2, <2>2 DEF FilesMoveOnce
    <3>2. MoveInv(u, call[u]) /\ call'[u] = call[u] /\ work'[u] = work[u]
      BY <1>2, <2>2, CallFields DEF FilesMoveInv
    <3> QED
      BY <3>1, <3>2 DEF MoveInv, Target
  <2> QED
    BY <2>1, <2>2
<1>3. ASSUME NEW u \in Threads, u # t
      PROVE  LateInv(u)'
  <2>1. LateInv(u) /\ work'[u] = work[u] /\ (u \in Calls => call'[u] = call[u])
    BY <1>3 DEF FilesMoveInv
  <2>2. u \in Calls /\ u.op = "GET" =>
          \A m \in Managers : Holds(m, u.key) => Holds(m, u.key)'
    BY <1>3 DEF FilesMoveOnce
  <2> QED
    BY <2>1, <2>2 DEF LateInv, ManagersGoOn, NoWork
<1> QED
  BY <1>1, <1>2, <1>3 DEF ManagersGoOn, StoredInv, ServingInv, OnDiskInv, FilesMoveInv

(* A call that has nothing left to do with a manager. *)
LEMMA NothingLate ==
  ASSUME NEW t \in Threads, work'[t] = NoWork
  PROVE  LateInv(t)'
BY DEF LateInv, NoWork

LEMMA GotoMoves ==
  ASSUME FilesMoveOnce, ServiceInv, FilesMoveInv, ManagersGoOn, NEW t \in Calls, NEW s, Goto(t, s),
         UNCHANGED <<store, work>>, call[t].pc \notin {"copying", "returned"},
         t.op = "GET" => MoveInv(t, s) /\ (Moved(call[t]) => Moved(s))
  PROVE  FilesMoveInv'
<1>1. \A u \in Calls : call'[u] = IF u = t THEN s ELSE call[u]
  BY DEF Goto, ServiceInv, ServiceTypeOK, ClientTypeOK
<1>2. StoredInv'
  BY DEF StoredInv, FilesMoveInv
<1>3. MoveInv(t, s) => MoveInv(t, s)'
  BY DEF MoveInv, Holds
<1>4. \A m, key : Holds(m, key) => Holds(m, key)'
  BY DEF Holds
<1>5. LateInv(t)'
  BY CallFields, NothingLate DEF LateInv, FilesMoveInv
<1> QED
  BY <1>1, <1>2, <1>3, <1>4, <1>5, CallMoves

(* What a client leaves to the managers when it ends in the middle of a    *)
(* move: the file is still where it is fetched from, and it is somewhere   *)
(* else when it is to be removed.                                          *)
LEMMA AbortLate ==
  ASSUME FilesMoveOnce, NamesTellApart, ServiceInv, ThreadsInv, FilesMoveInv,
         NEW t \in Calls, NEW w \in Sent(t)
  PROVE  /\ w.pc \in {"fetch", "remove"} => t.op = "GET" /\ w.key = t.key
         /\ w.pc = "write" => w.value \in Values
         /\ w.pc = "fetch" =>
              \E m \in Managers : manager_state[m] = "serving" /\ Uri(m) = w.from /\ Holds(m, t.key)
         /\ w.pc = "remove" => \E m \in Managers \ {w.at} : Holds(m, t.key)
<1> PICK a : a = call[t].rule.rule.action
  OBVIOUS
<1> PICK m \in ListeningAt(UriOf(t, 1)) :
      \/ AtAction(t, {"copy_from"}) /\ w = FetchWork(m, CurrentAction(t).key, UriOf(t, 2))
      \/ AtAction(t, {"remove"}) /\ w = RemoveWork(m, CurrentAction(t).key)
      \/ PutAllowed(t) /\ w = WriteWork(m, t.key, t.value)
  BY SentCases
<1>1. CASE AtAction(t, {"copy_from"}) /\ w = FetchWork(m, CurrentAction(t).key, UriOf(t, 2))
  <2>1. t.op = "GET" /\ call[t].idx = 1 /\ call[t].pc = "action" /\ HasARule(call[t])
    BY <1>1, MoveAction DEF AtAction, HasARule
  <2>2. CurrentAction(t).key = t.key /\ UriOf(t, 2) = call[t].rule.uri[<<1, 2>>]
    BY <2>1, MoveRule DEF CurrentAction, UriOf
  <2>3. PICK src \in Managers : t.key \in DOMAIN OnDisk[src] /\ ListeningAt(UriOf(t, 2)) = {src}
    BY <2>1, <2>2, MoveUris DEF FilesMoveInv
  <2>4. Holds(src, t.key)
    BY <2>1, <2>3 DEF Moved, OnDiskInv, FilesMoveInv, FilesMoveOnce
  <2>5. src \in ListeningAt(UriOf(t, 2))
    BY <2>3
  <2> QED
    BY <1>1, <2>1, <2>2, <2>4, <2>5 DEF FetchWork, ListeningAt
<1>2. CASE AtAction(t, {"remove"}) /\ w = RemoveWork(m, CurrentAction(t).key)
  <2>1. t.op = "GET" /\ call[t].idx = 2 /\ call[t].pc = "action" /\ HasARule(call[t])
    BY <1>2, MoveAction DEF AtAction, HasARule
  <2>2. /\ CurrentAction(t).key = t.key /\ UriOf(t, 1) = call[t].rule.uri[<<2, 1>>]
        /\ a[2].mgrs[1] # a[1].mgrs[1]
    BY <2>1, MoveRule DEF CurrentAction, UriOf
  <2>3. GenerateName(m) = a[2].mgrs[1]
    BY <2>1, <2>2, MoveUris DEF FilesMoveInv
  <2>4. PICK n \in Managers : GenerateName(n) = Target(call[t]) /\ Holds(n, t.key)
    BY <2>1 DEF MoveInv, FilesMoveInv
  <2>5. n # m
    BY <2>2, <2>3, <2>4 DEF Target
  <2> QED
    BY <1>2, <2>1, <2>2, <2>4, <2>5 DEF RemoveWork
<1>3. CASE PutAllowed(t) /\ w = WriteWork(m, t.key, t.value)
  BY <1>3 DEF PutAllowed, WriteWork, FilesMoveOnce
<1> QED
  BY <1>1, <1>2, <1>3

(* A step that moves nothing; calls of a client that ends return, and what *)
(* they had sent is left to do.                                            *)
LEMMA QuietMoves ==
  ASSUME FilesMoveOnce, NamesTellApart, ServiceInv, ThreadsInv, FilesMoveInv, ManagersGoOn,
         UNCHANGED store,
         \A u \in Threads :
           \/ work'[u] = work[u]
           \/ u \in Calls /\ call'[u].pc = "returned" /\ work'[u] \in Sent(u),
         \A u \in Calls : \/ call'[u] = call[u]
                          \/ call'[u].pc = "returned" /\ call'[u].status # "OK"
  PROVE  FilesMoveInv'
<1>1. StoredInv'
  BY DEF StoredInv, FilesMoveInv
<1>2. \A u \in Calls : Moved(call[u]) => Moved(call[u])'
  BY DEF Moved
<1>3. OnDiskInv'
  BY <1>2 DEF OnDiskInv, Holds, FilesMoveInv
<1>4. ASSUME NEW u \in Calls, u.op = "GET"
      PROVE  MoveInv(u, call[u])'
  <2>1. MoveInv(u, call[u])
    BY <1>4 DEF FilesMoveInv
  <2> QED
    BY <2>1, CallFields DEF MoveInv, Target, Holds
<1>5. ASSUME NEW u \in Threads
      PROVE  LateInv(u)'
  <2>1. CASE work'[u] = work[u]
    <3>1. LateInv(u)
      BY DEF FilesMoveInv
    <3> QED
      BY <2>1, <3>1 DEF LateInv, ManagersGoOn, Holds
  <2>2. CASE u \in Calls /\ call'[u].pc = "returned" /\ work'[u] \in Sent(u)
    <3> PICK w : w = work'[u]
      OBVIOUS
    <3>1. /\ w.pc \in {"fetch", "remove"} => u.op = "GET" /\ w.key = u.key
          /\ w.pc = "write" => w.value \in Values
          /\ w.pc = "fetch" =>
               \E m \in Managers : manager_state[m] = "serving" /\ Uri(m) = w.from /\ Holds(m, u.key)
          /\ w.pc = "remove" => \E m \in Managers \ {w.at} : Holds(m, u.key)
      BY <2>2, AbortLate
    <3>2. \A m : Holds(m, u.key)' <=> Holds(m, u.key)
      BY DEF Holds
    <3> QED
      BY <2>2, <3>1, <3>2 DEF LateInv, ManagersGoOn
  <2> QED
    BY <2>1, <2>2
<1> QED
  BY <1>1, <1>3, <1>4, <1>5 DEF ManagersGoOn, FilesMoveInv

LEMMA AbortFails ==
  ASSUME NEW c, Abort(c)
  PROVE  /\ UNCHANGED store
         /\ \A u \in Threads :
              \/ work'[u] = work[u]
              \/ u \in Calls /\ call'[u].pc = "returned" /\ work'[u] \in Sent(u)
         /\ \A u \in Calls : \/ call'[u] = call[u]
                             \/ call'[u].pc = "returned" /\ call'[u].status # "OK"
<1>1. /\ Return("UNAVAILABLE", "").pc = "returned"
      /\ Return("UNAVAILABLE", "").status # "OK"
  BY DEF Return
<1>2. \A u \in Calls :
        call'[u] = IF u.client = c /\ InProgress(u) THEN Return("UNAVAILABLE", "") ELSE call[u]
  BY DEF Abort
<1> QED
  BY <1>1, <1>2, AbortWork

LEMMA PrologueMoves ==
  ASSUME FilesMoveOnce, NamesTellApart, ServiceInv, ThreadsInv, FilesMoveInv, ManagersGoOn,
         NEW t \in Calls, MakeCall(t) \/ HasMatchingRule(t) \/ GetMatchingRule(t)
  PROVE  FilesMoveInv'
<1>1. UNCHANGED <<store, work>> \/ Abort(t.client)
  BY DEF MakeCall, HasMatchingRule, GetMatchingRule, managerVars
<1>2. ~Moved(call[t]) /\ call[t].pc \notin {"copying", "returned"}
  <2>1. call[t] = NotMade \/ call[t].pc \in {"has_rule", "get_rule"}
    BY DEF MakeCall, HasMatchingRule, GetMatchingRule
  <2>2. NotMade.pc = "not_made"
    BY DEF NotMade
  <2> QED
    BY <2>1, <2>2 DEF Moved
<1>3. ASSUME NEW s, Goto(t, s), s.pc \in {"has_rule", "get_rule"} \/ (s.pc = "action" /\ s.idx = 1),
             UNCHANGED <<store, work>>
      PROVE  FilesMoveInv'
  BY <1>2, <1>3, GotoMoves DEF MoveInv
<1>4. ASSUME Goto(t, Return("UNKNOWN", "")), UNCHANGED <<store, work>>
      PROVE  FilesMoveInv'
  <2>1. MoveInv(t, Return("UNKNOWN", ""))
    BY DEF MoveInv, Return
  <2> QED
    BY <1>2, <1>4, <2>1, GotoMoves
<1>5. ASSUME Abort(t.client)
      PROVE  FilesMoveInv'
  BY <1>5, AbortFails, QuietMoves
<1> QED
  BY <1>3, <1>4, <1>5 DEF MakeCall, HasMatchingRule, GetMatchingRule, managerVars

(* The copy of a file that has not been moved yet gets its content.        *)
LEMMA CopyMoves ==
  ASSUME FilesMoveOnce, NamesTellApart, ServiceInv, ThreadsInv, FilesMoveInv, ManagersGoOn,
         NEW t \in Calls, ExecuteCopyAction(t)
  PROVE  FilesMoveInv'
<1> PICK a : a = call[t].rule.rule.action
  OBVIOUS
<1> PICK r : r = call[t].rule
  OBVIOUS
<1>1. t.op = "GET" /\ call[t].idx = 1 /\ call[t].pc = "action" /\ HasARule(call[t])
  BY MoveAction DEF ExecuteCopyAction, AtAction, HasARule
<1>2. /\ CurrentAction(t).key = t.key
      /\ UriOf(t, 1) = r.uri[<<1, 1>>] /\ UriOf(t, 2) = r.uri[<<1, 2>>]
  BY <1>1, MoveRule DEF CurrentAction, UriOf
<1>3. PICK m \in ListeningAt(r.uri[<<1, 1>>]) : BeginCopyFrom(t, m, t.key, r.uri[<<1, 2>>])
  BY <1>2 DEF ExecuteCopyAction
<1>4. GenerateName(m) = a[1].mgrs[1]
  BY <1>1, <1>3, MoveUris DEF FilesMoveInv
<1>5. PICK src \in Managers : t.key \in DOMAIN OnDisk[src] /\ ListeningAt(r.uri[<<1, 2>>]) = {src}
  BY <1>1, MoveUris DEF FilesMoveInv
<1>6. Holds(src, t.key)
  <2>1. \A u \in Calls : u.op = "GET" /\ u.key = t.key => u = t
    BY <1>1 DEF FilesMoveOnce
  <2>2. ~Moved(call[t])
    BY <1>1 DEF Moved
  <2> QED
    BY <1>5, <2>1, <2>2 DEF OnDiskInv, FilesMoveInv
<1>7. Read(src, t.key) \in Values
  BY <1>6 DEF Read, Holds, FilesMoveOnce, StoredInv, FilesMoveInv
<1>8. /\ work' = [work EXCEPT ![t] = WriteWork(m, t.key, Read(src, t.key))]
      /\ UNCHANGED store
  <2>1. Pulled(t.key, r.uri[<<1, 2>>]) = {Read(src, t.key)}
    BY <1>5 DEF Pulled
  <2> QED
    BY <1>3, <2>1 DEF BeginCopyFrom
<1> PICK copy : copy = WriteWork(m, t.key, Read(src, t.key))
  OBVIOUS
<1>9. copy.at = m /\ copy.key = t.key /\ copy.value \in Values /\ copy.pc = "write"
  BY <1>7 DEF WriteWork
<1>10. \A u \in Threads : work'[u] = IF u = t THEN copy ELSE work[u]
  BY <1>8 DEF ServiceInv, ServiceTypeOK, ManagerTypeOK
<1> PICK s : s = [call[t] EXCEPT !.pc = "copying"]
  OBVIOUS
<1>11. s.pc = "copying" /\ s.rule = r /\ \A u \in Calls : call'[u] = IF u = t THEN s ELSE call[u]
  <2>1. s.pc = "copying" /\ s.rule = r
    BY <1>1, RunningFields DEF ServiceInv, ServiceTypeOK
  <2> QED
    BY <2>1 DEF ExecuteCopyAction, Goto, ServiceInv, ServiceTypeOK, ClientTypeOK
<1>12. StoredInv'
  BY <1>8 DEF StoredInv, FilesMoveInv
<1>13. MoveInv(t, s)'
  BY <1>4, <1>9, <1>10, <1>11, CallFields DEF MoveInv, Target
<1>14. ~Moved(call[t])
  BY <1>1 DEF Moved
<1>15. \A n, key : Holds(n, key) => Holds(n, key)'
  BY <1>8 DEF Holds
<1>16. LateInv(t)'
  BY <1>9, <1>10, <1>11, CallFields DEF LateInv
<1> QED
  BY <1>10, <1>11, <1>12, <1>13, <1>14, <1>15, <1>16, CallMoves

(* Whatever file some manager holds, some manager goes on to hold.         *)
Kept ==
  \A key \in Keys :
    (\E m \in Managers : Holds(m, key)) => (\E m \in Managers : Holds(m, key)')

LEMMA WrittenStores ==
  ASSUME StoredInv, NEW m \in Managers, NEW key, NEW value \in Values,
         \A n \in Managers : store'[n] = IF n = m THEN Bind(store[m], key, value) ELSE store[n]
  PROVE  StoredInv'
<1>1. /\ DOMAIN Bind(store[m], key, value) = DOMAIN store[m] \cup {key}
      /\ \A k \in DOMAIN store[m] \cup {key} :
           Bind(store[m], key, value)[k] = IF k = key THEN value ELSE store[m][k]
  BY DEF Bind
<1>2. ASSUME NEW n \in Managers, NEW k \in DOMAIN store'[n]
      PROVE  store'[n][k] \in Values
  BY <1>1, <1>2 DEF StoredInv
<1> QED
  BY <1>2 DEF StoredInv

(* The manager that wanted the file has it, whether or not the call that   *)
(* asked for it is still there.                                            *)
LEMMA FinishMoves ==
  ASSUME FilesMoveOnce, ServiceInv, ThreadsInv, FilesMoveInv, ManagersGoOn, NEW t \in Calls,
         FinishWrite(t)
  PROVE  FilesMoveInv' /\ Kept
<1> PICK copy : copy = work[t]
  OBVIOUS
<1>1. /\ copy.pc = "write" /\ copy.at \in Managers /\ copy.value \in Values
      /\ t \in Threads
  BY CallFields, WorkFields
     DEF FilesMoveInv, FinishWrite, EndWrite, LateInv, ServiceInv, ServiceTypeOK
<1>2. \A m \in Managers :
        store'[m] = IF m = copy.at THEN Bind(store[m], copy.key, copy.value) ELSE store[m]
  BY <1>1 DEF FinishWrite, EndWrite, Write, FilesMoveOnce, ManagersKeepFiles, ServiceInv,
              ServiceTypeOK, ManagerTypeOK
<1>3. \A u \in Threads : work'[u] = IF u = t THEN NoWork ELSE work[u]
  BY DEF FinishWrite, EndWrite, ServiceInv, ServiceTypeOK, ManagerTypeOK
<1>4. StoredInv'
  <2>1. StoredInv
    BY DEF FilesMoveInv
  <2> QED
    BY <1>1, <1>2, <2>1, WrittenStores
<1>5. LateInv(t)'
  BY <1>1, <1>3, NothingLate
<1>6. (\A m \in Managers : \A key : Holds(m, key) => Holds(m, key)') /\ Holds(copy.at, copy.key)'
  BY <1>1, <1>2 DEF Holds, Bind
<1>7. \A u \in Threads \ {t} : work'[u] = work[u]
  BY <1>3
<1>8. ASSUME call[t].pc = "copying"
      PROVE  FilesMoveInv'
  <2> PICK s : s = Executed(t)
    OBVIOUS
  <2>1. \A u \in Calls : call'[u] = IF u = t THEN s ELSE call[u]
    BY <1>8 DEF FinishWrite, Goto, ServiceInv, ServiceTypeOK, ClientTypeOK
  <2>2. s.rule = call[t].rule /\ (t.op = "GET" => s.pc = "action" /\ s.idx = 2)
    <3>1. call[t].idx <= Len(call[t].rule.rule.action) /\ call[t].idx = 1
      BY <1>8, MoveAction DEF ServiceInv, ClientInv, CallInv
    <3> QED
      BY <1>8, <3>1, ExecutedInv DEF ServiceInv, ServiceTypeOK
  <2>3. t.op = "GET" => GenerateName(copy.at) = Target(call[t]) /\ copy.key = t.key
    BY <1>8 DEF MoveInv, FilesMoveInv
  <2>4. t.op = "GET" => MoveInv(t, s)'
    BY <1>1, <1>6, <2>2, <2>3 DEF MoveInv, Target
  <2>5. ~Moved(call[t])
    BY <1>8 DEF Moved
  <2> QED
    BY <1>4, <1>5, <1>6, <1>7, <2>1, <2>4, <2>5, CallMoves
<1>9. ASSUME call[t].pc # "copying"
      PROVE  FilesMoveInv'
  <2> PICK s : s = call[t]
    OBVIOUS
  <2>1. \A u \in Calls : call'[u] = IF u = t THEN s ELSE call[u]
    BY <1>9 DEF FinishWrite, clientVars
  <2>2. t.op = "GET" => MoveInv(t, s)'
    <3>1. t.op = "GET" => MoveInv(t, s)
      BY DEF FilesMoveInv
    <3> QED
      BY <1>6, <1>9, <3>1 DEF MoveInv
  <2> QED
    BY <1>4, <1>5, <1>6, <1>7, <2>1, <2>2, CallMoves
<1> QED
  BY <1>6, <1>8, <1>9 DEF Kept

(* A file is removed where it was copied from, so it is where it was       *)
(* copied to.                                                              *)
LEMMA RemoveMoves ==
  ASSUME FilesMoveOnce, NamesTellApart, ServiceInv, ThreadsInv, FilesMoveInv, ManagersGoOn,
         NEW t \in Calls, ExecuteRemoveAction(t)
  PROVE  FilesMoveInv' /\ Kept
<1> PICK a : a = call[t].rule.rule.action
  OBVIOUS
<1>1. /\ t.op = "GET" /\ call[t].idx = 2 /\ call[t].pc = "action" /\ HasARule(call[t])
      /\ call[t].idx <= Len(call[t].rule.rule.action)
  BY MoveAction, AtActionFields DEF ExecuteRemoveAction, AtAction, HasARule, ServiceInv, ServiceTypeOK
<1>2. /\ CurrentAction(t).key = t.key /\ UriOf(t, 1) = call[t].rule.uri[<<2, 1>>]
      /\ a[2].mgrs[1] # a[1].mgrs[1]
  BY <1>1, MoveRule DEF CurrentAction, UriOf
<1>3. PICK m \in ListeningAt(call[t].rule.uri[<<2, 1>>]) : ManagerRemove(m, t.key)
  BY <1>2 DEF ExecuteRemoveAction
<1>4. m \in Managers /\ GenerateName(m) = a[2].mgrs[1]
  BY <1>1, <1>3, MoveUris DEF ListeningAt, FilesMoveInv
<1>5. \A n \in Managers : store'[n] = IF n = m THEN Unbind(store[m], t.key) ELSE store[n]
  BY <1>3, <1>4 DEF ManagerRemove, Write, FilesMoveOnce, ManagersKeepFiles, ServiceInv, ServiceTypeOK,
                    ManagerTypeOK
<1>6. /\ DOMAIN Unbind(store[m], t.key) = DOMAIN store[m] \ {t.key}
      /\ \A key \in DOMAIN store[m] \ {t.key} : Unbind(store[m], t.key)[key] = store[m][key]
  <2>1. store[m] \in [DOMAIN store[m] -> Contents]
    BY <1>4, FilesAreMaps DEF ServiceInv, ServiceTypeOK, ManagerTypeOK
  <2> QED
    BY <2>1, UnbindMap
<1>7. StoredInv'
  BY <1>4, <1>5, <1>6 DEF StoredInv, FilesMoveInv
<1>8. LateInv(t)' /\ UNCHANGED work
  BY <1>1, CallFields, NothingLate DEF LateInv, ExecuteRemoveAction, FilesMoveInv
<1> PICK s : s = Executed(t)
  OBVIOUS
<1>9. \A u \in Calls : call'[u] = IF u = t THEN s ELSE call[u]
  BY DEF ExecuteRemoveAction, Goto, ServiceInv, ServiceTypeOK, ClientTypeOK
<1>10. s.pc = "action" /\ s.idx = 3 /\ s.rule = call[t].rule
  BY <1>1, ExecutedInv DEF ServiceInv, ServiceTypeOK
<1>11. Moved(s)
  BY <1>10 DEF Moved
<1>12. PICK n \in Managers : GenerateName(n) = Target(call[t]) /\ Holds(n, t.key)
  BY <1>1 DEF MoveInv, FilesMoveInv
<1>13. n # m /\ Holds(n, t.key)'
  BY <1>2, <1>4, <1>5, <1>12 DEF Target, Holds
<1>14. MoveInv(t, s)'
  BY <1>10, <1>12, <1>13 DEF MoveInv, Target
<1>15. \A l \in Managers : \A key : Holds(l, key) => Holds(l, key)' \/ t.key = key
  BY <1>5, <1>6 DEF Holds
<1>16. FilesMoveInv'
  BY <1>1, <1>7, <1>8, <1>9, <1>11, <1>14, <1>15, CallMoves
<1> QED
  BY <1>13, <1>15, <1>16 DEF Kept

LEMMA PutMoves ==
  ASSUME FilesMoveOnce, ServiceInv, FilesMoveInv, ManagersGoOn, NEW t \in Calls, ExecutePutAction(t)
  PROVE  FilesMoveInv' /\ Kept
<1>1. t.op = "PUT" /\ t.value \in Values
  BY DEF ExecutePutAction, PutAllowed, FilesMoveOnce
<1>2. PICK m \in Managers : ManagerPut(m, t.key, t.value)
  BY ListeningManagers DEF ExecutePutAction
<1>3. \A n \in Managers : store'[n] = IF n = m THEN Bind(store[m], t.key, t.value) ELSE store[n]
  BY <1>2 DEF ManagerPut, Write, FilesMoveOnce, ManagersKeepFiles, ServiceInv, ServiceTypeOK,
              ManagerTypeOK
<1>4. StoredInv'
  BY <1>1, <1>2, <1>3, WrittenStores DEF FilesMoveInv
<1>5. LateInv(t)' /\ UNCHANGED work
  BY CallFields, NothingLate
     DEF LateInv, ExecutePutAction, PutAllowed, AtAction, FilesMoveInv
<1>6. \A n \in Managers : \A key : Holds(n, key) => Holds(n, key)'
  BY <1>3 DEF Holds, Bind
<1> PICK s : s = Executed(t)
  OBVIOUS
<1>7. \A u \in Calls : call'[u] = IF u = t THEN s ELSE call[u]
  BY DEF ExecutePutAction, Goto, ServiceInv, ServiceTypeOK, ClientTypeOK
<1>8. FilesMoveInv'
  BY <1>1, <1>4, <1>5, <1>6, <1>7, CallMoves
<1> QED
  BY <1>6, <1>8 DEF Kept

(* What the manager begins or ends for a client that is gone.              *)
LEMMA BelatedMoves ==
  ASSUME FilesMoveOnce, NamesTellApart, ServiceInv, ThreadsInv, FilesMoveInv, ManagersGoOn,
         NEW t \in Calls, BelatedWork(t)
  PROVE  FilesMoveInv' /\ Kept
<1> PICK w : w = work[t]
  OBVIOUS
<1>1. /\ w.at \in Managers /\ t \in Threads /\ LateInv(t)
      /\ UNCHANGED call /\ \A u \in Threads \ {t} : work'[u] = work[u]
  BY CallFields, WorkFields
     DEF BelatedWork, BeginFetch, BeginCopyFrom, EndRemove, FilesMoveInv, ServiceInv, ServiceTypeOK,
         ManagerTypeOK, clientVars
<1>2. t.op = "GET" /\ w.key = t.key /\ call[t].pc = "returned" /\ Moved(call[t])
  <2>1. w.pc \in {"fetch", "remove"} /\ w # NoWork
    BY DEF BelatedWork, BeginFetch, EndRemove, NoWork
  <2>2. t.op = "GET" /\ w.key = t.key /\ call[t].pc \in {"copying", "returned"}
    BY <1>1, <2>1 DEF LateInv
  <2>3. call[t].pc # "copying"
    BY <2>1, <2>2 DEF FilesMoveInv, MoveInv
  <2> QED
    BY <2>2, <2>3 DEF Moved
<1>3. MoveInv(t, call[t])'
  BY <1>1, <1>2 DEF MoveInv, FilesMoveInv
<1>4. CASE BeginFetch(t)
  <2>1. PICK m \in Managers : manager_state[m] = "serving" /\ Uri(m) = w.from /\ Holds(m, t.key)
    BY <1>1, <1>4 DEF LateInv, BeginFetch
  <2>2. ListeningAt(w.from) = {m}
    BY <2>1 DEF ListeningAt, NamesTellApart, Peers
  <2>3. PICK value : value = Read(m, t.key)
    OBVIOUS
  <2>4. value \in Values
    BY <2>1, <2>3 DEF Read, Holds, StoredInv, FilesMoveInv
  <2>5. UNCHANGED store /\ work' = [work EXCEPT ![t] = WriteWork(w.at, w.key, value)]
    BY <1>2, <1>4, <2>2, <2>3 DEF BeginFetch, BeginCopyFrom, Pulled
  <2>6. work'[t].pc = "write" /\ work'[t].value \in Values
    BY <1>1, <2>4, <2>5 DEF WriteWork, ServiceInv, ServiceTypeOK, ManagerTypeOK
  <2>7. LateInv(t)' /\ StoredInv'
    BY <1>1, <1>2, <2>5, <2>6 DEF LateInv, StoredInv, FilesMoveInv
  <2>8. \A m_1, key : Holds(m_1, key) => Holds(m_1, key)'
    BY <2>5 DEF Holds
  <2>9. FilesMoveInv'
    BY <1>1, <1>2, <1>3, <2>7, <2>8, CallMoves
  <2> QED
    BY <2>8, <2>9 DEF Kept
<1>5. CASE EndRemove(t)
  <2>1. PICK n \in Managers \ {w.at} : Holds(n, t.key)
    BY <1>1, <1>5 DEF LateInv, EndRemove
  <2>2. \A m \in Managers : store'[m] = IF m = w.at THEN Unbind(store[m], t.key) ELSE store[m]
    BY <1>1, <1>2, <1>5 DEF EndRemove, Write, FilesMoveOnce, ManagersKeepFiles, ServiceInv,
                            ServiceTypeOK, ManagerTypeOK
  <2>3. /\ DOMAIN Unbind(store[w.at], t.key) = DOMAIN store[w.at] \ {t.key}
        /\ \A key \in DOMAIN store[w.at] \ {t.key} :
             Unbind(store[w.at], t.key)[key] = store[w.at][key]
    <3>1. store[w.at] \in [DOMAIN store[w.at] -> Contents]
      BY <1>1, FilesAreMaps DEF ServiceInv, ServiceTypeOK, ManagerTypeOK
    <3> QED
      BY <3>1, UnbindMap
  <2>4. StoredInv'
    BY <1>1, <2>2, <2>3 DEF StoredInv, FilesMoveInv
  <2>5. LateInv(t)'
    BY <1>1, <1>5, NothingLate DEF EndRemove, ServiceInv, ServiceTypeOK, ManagerTypeOK
  <2>6. \A m \in Managers : \A key : Holds(m, key) => Holds(m, key)' \/ t.key = key
    BY <2>2, <2>3 DEF Holds
  <2>7. Holds(n, t.key)'
    BY <2>1, <2>2 DEF Holds
  <2>8. FilesMoveInv'
    BY <1>1, <1>2, <1>3, <2>4, <2>5, <2>6, CallMoves
  <2> QED
    BY <2>6, <2>7, <2>8 DEF Kept
<1> QED
  BY <1>4, <1>5 DEF BelatedWork

LEMMA ReportMoves ==
  ASSUME FilesMoveOnce, NamesTellApart, ServiceInv, ThreadsInv, FilesMoveInv, ManagersGoOn,
         NEW t \in Calls, Report(t)
  PROVE  FilesMoveInv'
<1>1. call[t].pc = "action" /\ call[t].idx > Limit(t) /\ call[t].idx \in Nat
  BY RunningFields DEF Report, ServiceInv, ServiceTypeOK
<1>2. CASE Abort(t.client)
  BY <1>2, AbortFails, QuietMoves
<1>3. CASE Goto(t, [call[t] EXCEPT !.pc = "reporting"]) /\ UNCHANGED managerVars
  <2> PICK s : s = [call[t] EXCEPT !.pc = "reporting"]
    OBVIOUS
  <2>1. s.pc = "reporting" /\ s.rule = call[t].rule
    BY <1>1, RunningFields DEF ServiceInv, ServiceTypeOK
  <2>2. Moved(s)
    BY <2>1 DEF Moved
  <2>3. t.op = "GET" => MoveInv(t, s)
    <3>1. t.op = "GET" => call[t].idx >= 2 /\ MoveInv(t, call[t])
      BY <1>1, MoveAction DEF FilesMoveInv
    <3> QED
      BY <1>1, <2>1, <3>1 DEF MoveInv, Target
  <2> QED
    BY <1>1, <1>3, <2>2, <2>3, GotoMoves DEF managerVars
<1> QED
  BY <1>2, <1>3 DEF Report

LEMMA ReportedMoves ==
  ASSUME FilesMoveOnce, NamesTellApart, ServiceInv, ThreadsInv, FilesMoveInv, ManagersGoOn,
         NEW t \in Calls, Reported(t)
  PROVE  FilesMoveInv'
<1>1. call[t].pc = "reporting"
  BY DEF Reported
<1>2. CASE Abort(t.client)
  BY <1>2, AbortFails, QuietMoves
<1>3. CASE t.op = "PUT" /\ Goto(t, Return("OK", "")) /\ UNCHANGED managerVars
  BY <1>1, <1>3, GotoMoves DEF managerVars
<1>4. CASE /\ t.op = "GET" /\ Goto(t, [pc |-> "last", rule |-> call[t].rule])
           /\ UNCHANGED managerVars
  <2> PICK s : s = [pc |-> "last", rule |-> call[t].rule]
    OBVIOUS
  <2>1. s.pc = "last" /\ s.rule = call[t].rule
    OBVIOUS
  <2>2. Moved(s)
    BY <2>1 DEF Moved
  <2>3. MoveInv(t, s)
    <3>1. MoveInv(t, call[t])
      BY <1>4 DEF FilesMoveInv
    <3> QED
      BY <1>1, <2>1, <3>1 DEF MoveInv, Target
  <2> QED
    BY <1>1, <1>4, <2>2, <2>3, GotoMoves DEF managerVars
<1> QED
  BY <1>2, <1>3, <1>4 DEF Reported

(* The file is got where it was copied to.                                 *)
LEMMA GetMoves ==
  ASSUME FilesMoveOnce, NamesTellApart, ServiceInv, ThreadsInv, FilesMoveInv, ManagersGoOn,
         NEW t \in Calls, ExecuteGetAction(t)
  PROVE  FilesMoveInv'
<1> PICK a : a = call[t].rule.rule.action
  OBVIOUS
<1>1. UNCHANGED <<store, work>> /\ call[t].pc = "last" /\ t.op = "GET" /\ HasARule(call[t])
  BY DEF ExecuteGetAction, managerVars, ThreadsInv, Follows, HasARule
<1>2. a[3].mgrs[1] = a[1].mgrs[1] /\ LastUri(t) = call[t].rule.uri[<<3, 1>>]
  BY <1>1, MoveRule DEF LastUri
<1>3. PICK m \in ListeningAt(call[t].rule.uri[<<3, 1>>]) : Goto(t, Return("OK", ManagerGet(m, t.key)))
  BY <1>2 DEF ExecuteGetAction
<1>4. m \in Managers /\ GenerateName(m) = Target(call[t])
  <2>1. m \in Managers /\ GenerateName(m) = a[3].mgrs[1]
    BY <1>1, <1>3, MoveUris DEF ListeningAt, FilesMoveInv
  <2> QED
    BY <1>2, <2>1 DEF Target
<1>5. \E n \in Managers : GenerateName(n) = Target(call[t]) /\ Holds(n, t.key)
  BY <1>1 DEF MoveInv, FilesMoveInv
<1>6. Holds(m, t.key)
  BY <1>4, <1>5 DEF NamesTellApart, Peers
<1>7. ManagerGet(m, t.key) \in Values
  BY <1>4, <1>6 DEF ManagerGet, Read, Holds, FilesMoveOnce, StoredInv, FilesMoveInv
<1> PICK s : s = Return("OK", ManagerGet(m, t.key))
  OBVIOUS
<1>8. s.pc = "returned" /\ s.value \in Values
  BY <1>7 DEF Return
<1>9. Moved(s) /\ MoveInv(t, s)
  BY <1>8 DEF Moved, MoveInv
<1> QED
  BY <1>1, <1>3, <1>9, GotoMoves

LEMMA CallStepMoves ==
  ASSUME FilesMoveOnce, NamesTellApart, ServiceInv, ThreadsInv, FilesMoveInv, ManagersGoOn,
         NEW t \in Calls, BeginCall(t) \/ CallStep(t)
  PROVE  FilesMoveInv' /\ Kept
<1>1. UNCHANGED store => Kept
  BY DEF Kept, Holds
<1>2. CASE MakeCall(t) \/ HasMatchingRule(t) \/ GetMatchingRule(t)
  <2>1. UNCHANGED store
    BY <1>2, AbortFails DEF MakeCall, HasMatchingRule, GetMatchingRule, managerVars
  <2> QED
    BY <1>1, <1>2, <2>1, PrologueMoves
<1>3. CASE ExecuteCopyAction(t)
  BY <1>1, <1>3, CopyMoves DEF ExecuteCopyAction, BeginCopyFrom
<1>4. CASE FinishWrite(t) \/ BelatedWork(t) \/ ExecuteRemoveAction(t) \/ ExecutePutAction(t)
  BY <1>4, FinishMoves, BelatedMoves, RemoveMoves, PutMoves
<1>5. CASE SkipAction(t)
  <2>1. /\ t.op # "GET" /\ UNCHANGED <<store, work>> /\ Goto(t, NextAction(t))
        /\ call[t].pc = "action"
    BY <1>5, MoveAction DEF SkipAction, AtAction, managerVars
  <2> QED
    BY <1>1, <2>1, GotoMoves
<1>6. CASE RejectAction(t)
  BY <1>1, <1>6, AbortFails, QuietMoves DEF RejectAction
<1>7. CASE Report(t)
  <2>1. UNCHANGED store
    BY <1>7, AbortFails DEF Report, managerVars
  <2> QED
    BY <1>1, <1>7, <2>1, ReportMoves
<1>8. CASE Reported(t)
  <2>1. UNCHANGED store
    BY <1>8, AbortFails DEF Reported, managerVars
  <2> QED
    BY <1>1, <1>8, <2>1, ReportedMoves
<1>9. CASE ExecuteGetAction(t)
  BY <1>1, <1>9, GetMoves DEF ExecuteGetAction, managerVars
<1> QED
  BY <1>2, <1>3, <1>4, <1>5, <1>6, <1>7, <1>8, <1>9 DEF BeginCall, CallStep

LEMMA MovesNext ==
  ASSUME FilesMoveOnce, NamesTellApart, ServiceInv, ThreadsInv, FilesMoveInv,
         [ServiceNext]_serviceVars
  PROVE  FilesMoveInv' /\ Kept
<1>1. ManagersGoOn
  BY ServingNext, ManagersStay DEF FilesMoveOnce, FilesMoveInv, ManagersGoOn
<1>2. ASSUME UNCHANGED <<store, work, call>>
      PROVE  FilesMoveInv' /\ Kept
  BY <1>1, <1>2, QuietMoves DEF Kept, Holds
<1>3. CASE UNCHANGED serviceVars
  BY <1>2, <1>3 DEF serviceVars, managerVars, clientVars
<1>4. CASE StartStep
  <2>1. UNCHANGED <<store, work, call>>
    BY <1>4 DEF StartStep, BeginManagerStart, EndManagerStart, BeginClientStart, EndClientStart,
                managerVars, clientVars
  <2> QED
    BY <1>2, <2>1
<1>5. ~\E m \in Managers : CrashManager(m)
  BY DEF CrashManager, Kill, FilesMoveOnce, ManagersKeepFiles
<1>6. ASSUME NEW c \in Clients, CrashClient(c)
      PROVE  FilesMoveInv' /\ Kept
  BY <1>1, <1>6, AbortFails, QuietMoves DEF CrashClient, Kept, Holds
<1>7. CASE (\E o \in Operators : Operate(o)) \/ (\E v \in Viewers : Look(v))
  BY <1>2, <1>7 DEF Operate, Look, managerVars, clientVars
<1>8. ASSUME NEW t \in Threads, MasterStep(t) \/ ForwardRule(t)
      PROVE  FilesMoveInv' /\ Kept
  <2>1. UNCHANGED <<store, work, call>>
    BY <1>8 DEF MasterStep, ForwardRule, ClientRuleHandler, managerVars, clientVars
  <2> QED
    BY <1>2, <2>1
<1>9. CASE (Terminate \/ MasterStart) /\ UNCHANGED <<managerVars, clientVars, crashes>>
  BY <1>2, <1>9 DEF managerVars, clientVars
<1> QED
  BY <1>1, <1>3, <1>4, <1>5, <1>6, <1>7, <1>8, <1>9, CallStepMoves DEF ServiceNext

LEMMA MovesInit == FilesMoveOnce /\ ServiceInit => FilesMoveInv
<1> SUFFICES ASSUME FilesMoveOnce, ServiceInit PROVE FilesMoveInv
  OBVIOUS
<1>1. /\ \A t \in Calls : call[t] = NotMade
      /\ NotMade.pc = "not_made"
  BY DEF ServiceInit, ClientInit, NotMade
<1>2. \A t \in Calls : MoveInv(t, call[t])
  BY <1>1 DEF MoveInv
<1>3. StoredInv /\ OnDiskInv /\ \A t \in Threads : LateInv(t)
  BY DEF ServiceInit, ManagerInit, StoredInv, LateInv, NoWork, OnDiskInv, Holds, FilesMoveOnce
<1>4. ServingInv
  BY ManagersAreNoCalls DEF ServiceInit, MasterInit, ServingInv
<1> QED
  BY <1>2, <1>3, <1>4 DEF FilesMoveInv

-----------------------------------------------------------------------------
(* A Get that is answered with OK returns a content somebody has put, when *)
(* files are moved once, from a manager that had them from the start:      *)
(* whatever Puts, Gets of other files, introductions and rules run at the  *)
(* same time, wherever a client's process ends in the middle of a move,    *)
(* and however often the master does (storage_client.cc: Get;              *)
(* storage_manager.cc: CopyFrom).                                          *)
THEOREM ServiceGetsReturnTheFile ==
  ASSUME FilesMoveOnce, NamesTellApart
  PROVE  ServiceSpec => []GetsReturnTheFile
<1> DEFINE Inv == ServiceInv /\ ThreadsInv /\ FilesMoveInv
<1>1. ServiceInit => Inv
  BY ServiceInitInv, ThreadsInit, MovesInit
<1>2. Inv /\ [ServiceNext]_serviceVars => Inv'
  BY ServiceNextInv, ThreadsNext, MovesNext
<1>3. Inv => GetsReturnTheFile
  BY ManagerAssumption DEF MoveInv, GetsReturnTheFile, FilesMoveInv
<1> QED
  BY <1>1, <1>2, <1>3, PTL DEF ServiceSpec

(* And no file that a manager holds is ever lost: the copy is in place     *)
(* before the original is removed, and nobody removes the copy             *)
(* (storage_client.cc: Get, the actions in their order).                   *)
THEOREM ServiceFilesSurvive ==
  ASSUME FilesMoveOnce, NamesTellApart
  PROVE  ServiceSpec => FilesSurvive
<1> DEFINE Inv == ServiceInv /\ ThreadsInv /\ FilesMoveInv
           Survive == \A key \in Keys :
                        (\E m \in Managers : Holds(m, key) /\ store[m][key] \in Values)
                        => (\E m \in Managers : Holds(m, key) /\ store[m][key] \in Values)'
<1>1. ServiceInit => Inv
  BY ServiceInitInv, ThreadsInit, MovesInit
<1>2. Inv /\ [ServiceNext]_serviceVars => Inv'
  BY ServiceNextInv, ThreadsNext, MovesNext
<1>3. Inv /\ [ServiceNext]_serviceVars => [Survive]_serviceVars
  <2> SUFFICES ASSUME Inv, [ServiceNext]_serviceVars PROVE Survive
    OBVIOUS
  <2>1. FilesMoveInv' /\ Kept
    BY MovesNext
  <2>2. \A m \in Managers, key \in Keys : Holds(m, key)' => store'[m][key] \in Values
    BY <2>1 DEF FilesMoveInv, StoredInv, Holds
  <2> QED
    BY <2>1, <2>2 DEF Kept
<1>4. ServiceSpec => [][Survive]_serviceVars
  BY <1>1, <1>2, <1>3, PTL DEF ServiceSpec
<1> QED
  BY <1>4 DEF FilesSurvive

-----------------------------------------------------------------------------
(* The views, one call at a time.  What a call has done and not reported   *)
(* is pending: the view will show what the managers hold when it has been  *)
(* applied, but for the file that the call is about to remove.             *)
Adds(a, m, key) ==
  a.type \in {"put", "copy_from"} /\ a.key = key /\ a.mgrs[1] = GenerateName(m)

Drops(a, m, key) ==
  /\ a.key = key
  /\ \/ a.type = "remove" /\ a.mgrs[1] = GenerateName(m)
     \/ a.type = "copy_from" /\ a.mgrs[2] = GenerateName(m)

WillShow(change, m, key) ==
  \/ \E i \in DOMAIN change :
       /\ Adds(change[i], m, key)
       /\ \A j \in DOMAIN change : j > i => ~Drops(change[j], m, key)
  \/ Shows(m, key) /\ \A j \in DOMAIN change : ~Drops(change[j], m, key)

Busy(t) == call[t].pc \in {"action", "copying"} \/ handler[t].pc \in Applying

Pending(t) ==
  IF call[t].pc \in {"action", "copying"} THEN call[t].change ELSE handler[t].change

Leaves(t, m, key) == AtAction(t, {"remove"}) /\ Drops(CurrentAction(t), m, key)

Matches(t) ==
  \A m \in Managers, key \in Keys :
    /\ WillShow(Pending(t), m, key) => Holds(m, key)
    /\ Holds(m, key) => WillShow(Pending(t), m, key) \/ Leaves(t, m, key)
    /\ handler[t].pc = "RemoveFromDst" /\ Adds(Head(handler[t].change), m, key) => Shows(m, key)

InPlace(m) == \A key \in Keys : Holds(m, key) <=> Shows(m, key)

Introduced(m) ==
  LET files == DOMAIN store[m]
      view == ViewOf(GenerateName(m)) IN
  /\ handler[m].pc \in {"AddPeer", "AddingPeer", "AddManager"} => handler[m].file = files
  /\ handler[m].pc = "AddFiles" => handler[m].file \cup view = files
  /\ handler[m] = Replied("OK") => view = files

OneCall(t) ==
  /\ call[t].pc # "fallthrough"
  /\ call[t].pc = "copying" => call[t].idx <= Limit(t)
  /\ handler[t].pc \in Applying => call[t].pc = "reporting"
  /\ call[t].pc = "reporting" => handler[t].pc \in Applying \/ handler[t] = Replied("OK")

OneCallInv ==
  /\ master_up
  /\ \A t, u \in Calls : InProgress(t) /\ InProgress(u) => t = u
  /\ \A t \in Calls : OneCall(t)
  /\ \A t \in Threads : work[t] # NoWork =>
       /\ t \in Calls /\ call[t].pc = "copying" /\ work[t].pc = "write"
       /\ Adds(CurrentAction(t), work[t].at, work[t].key)

AgreeInv ==
  /\ \A t \in Calls : Busy(t) => Matches(t)
  /\ (\A t \in Calls : ~Busy(t)) =>
       \A m \in Managers : manager_state[m] = "serving" => InPlace(m)
  /\ \A m \in Managers : Introduced(m)

-----------------------------------------------------------------------------
(* What the view will show. *)

LEMMA WillShowNone ==
  ASSUME NEW m, NEW key
  PROVE  WillShow(<<>>, m, key) <=> Shows(m, key)
BY DEF WillShow

LEMMA WillShowAppend ==
  ASSUME NEW change \in Seq(Actions), NEW a, NEW m, NEW key
  PROVE  WillShow(Append(change, a), m, key)
           <=> Adds(a, m, key) \/ (WillShow(change, m, key) /\ ~Drops(a, m, key))
<1> PICK longer : longer = Append(change, a)
  OBVIOUS
<1> PICK n : n = Len(change) + 1
  OBVIOUS
<1>1. /\ DOMAIN longer = DOMAIN change \cup {n} /\ longer[n] = a
      /\ \A i \in DOMAIN change : longer[i] = change[i] /\ n > i /\ ~(i > n)
      /\ ~(n > n)
  OBVIOUS
<1>2. (\A j \in DOMAIN longer : ~Drops(longer[j], m, key))
        <=> ~Drops(a, m, key) /\ \A j \in DOMAIN change : ~Drops(change[j], m, key)
  BY <1>1
<1>3. ASSUME NEW i \in DOMAIN change
      PROVE  (\A j \in DOMAIN longer : j > i => ~Drops(longer[j], m, key))
               <=> /\ ~Drops(a, m, key)
                   /\ \A j \in DOMAIN change : j > i => ~Drops(change[j], m, key)
  BY <1>1, <1>3
<1>4. \A j \in DOMAIN longer : j > n => ~Drops(longer[j], m, key)
  BY <1>1
<1>5. (\E i \in DOMAIN longer :
         /\ Adds(longer[i], m, key)
         /\ \A j \in DOMAIN longer : j > i => ~Drops(longer[j], m, key))
        <=> \/ Adds(a, m, key)
            \/ /\ ~Drops(a, m, key)
               /\ \E i \in DOMAIN change :
                    /\ Adds(change[i], m, key)
                    /\ \A j \in DOMAIN change : j > i => ~Drops(change[j], m, key)
  BY <1>1, <1>3, <1>4
<1> QED
  BY <1>2, <1>5 DEF WillShow

LEMMA WillShowTail ==
  ASSUME NEW change \in Seq(Actions), change # <<>>, NEW m, NEW key,
         Shows(m, key)' <=>
           Adds(Head(change), m, key) \/ (Shows(m, key) /\ ~Drops(Head(change), m, key))
  PROVE  WillShow(Tail(change), m, key)' <=> WillShow(change, m, key)
<1> PICK head, tail : head = Head(change) /\ tail = Tail(change)
  OBVIOUS
<1>1. /\ 1 \in DOMAIN change /\ head = change[1]
      /\ \A i \in DOMAIN tail : i \in Nat /\ i + 1 \in DOMAIN change /\ tail[i] = change[i + 1]
      /\ \A i \in DOMAIN change :
           i \in Nat /\ (i = 1 \/ (i > 1 /\ i - 1 \in DOMAIN tail /\ tail[i - 1] = change[i]))
  OBVIOUS
<1> DEFINE Clear == \A j \in DOMAIN tail : ~Drops(tail[j], m, key)
           Shown == \E i \in DOMAIN tail :
                      /\ Adds(tail[i], m, key)
                      /\ \A j \in DOMAIN tail : j > i => ~Drops(tail[j], m, key)
           After(i) == \A j \in DOMAIN change : j > i => ~Drops(change[j], m, key)
<1>2. (\A j \in DOMAIN change : ~Drops(change[j], m, key)) <=> ~Drops(head, m, key) /\ Clear
  BY <1>1
<1>3. After(1) <=> Clear
  BY <1>1
<1>4. ASSUME NEW i \in DOMAIN tail
      PROVE  After(i + 1) <=> \A j \in DOMAIN tail : j > i => ~Drops(tail[j], m, key)
  <2>1. ASSUME After(i + 1), NEW j \in DOMAIN tail, j > i
        PROVE  ~Drops(tail[j], m, key)
    <3>1. j + 1 \in DOMAIN change /\ j + 1 > i + 1 /\ tail[j] = change[j + 1]
      BY <1>1, <1>4, <2>1
    <3> QED
      BY <2>1, <3>1
  <2>2. ASSUME \A j \in DOMAIN tail : j > i => ~Drops(tail[j], m, key),
               NEW j \in DOMAIN change, j > i + 1
        PROVE  ~Drops(change[j], m, key)
    <3>1. j - 1 \in DOMAIN tail /\ tail[j - 1] = change[j] /\ j - 1 > i
      BY <1>1, <1>4, <2>2
    <3> QED
      BY <2>2, <3>1
  <2> QED
    BY <2>1, <2>2
<1>5. (\E i \in DOMAIN change : Adds(change[i], m, key) /\ After(i))
        <=> (Adds(head, m, key) /\ Clear) \/ Shown
  <2>1. ASSUME NEW i \in DOMAIN change, Adds(change[i], m, key), After(i)
        PROVE  (Adds(head, m, key) /\ Clear) \/ Shown
    <3>1. CASE i = 1
      BY <1>1, <1>3, <2>1, <3>1
    <3>2. CASE i # 1
      <4> PICK k : k = i - 1
        OBVIOUS
      <4>1. k \in DOMAIN tail /\ tail[k] = change[i] /\ i = k + 1
        BY <1>1, <2>1, <3>2
      <4> QED
        BY <1>4, <2>1, <4>1
    <3> QED
      BY <3>1, <3>2
  <2>2. ASSUME NEW i \in DOMAIN tail, Adds(tail[i], m, key),
               \A j \in DOMAIN tail : j > i => ~Drops(tail[j], m, key)
        PROVE  \E k \in DOMAIN change : Adds(change[k], m, key) /\ After(k)
    <3>1. i + 1 \in DOMAIN change /\ tail[i] = change[i + 1] /\ After(i + 1)
      BY <1>1, <1>4, <2>2
    <3> QED
      BY <2>2, <3>1
  <2> QED
    BY <1>1, <1>3, <2>1, <2>2
<1>6. WillShow(change, m, key) <=>
        \/ (Adds(head, m, key) /\ Clear) \/ Shown
        \/ Shows(m, key) /\ ~Drops(head, m, key) /\ Clear
  BY <1>2, <1>5 DEF WillShow
<1>7. WillShow(tail, m, key)' <=> Shown \/ (Shows(m, key)' /\ Clear)
  BY DEF WillShow
<1> QED
  BY <1>6, <1>7

LEMMA WillShowSame ==
  ASSUME NEW change, NEW m, NEW key, Shows(m, key)' <=> Shows(m, key)
  PROVE  WillShow(change, m, key)' <=> WillShow(change, m, key)
BY DEF WillShow

(* The first half of a copy. *)
LEMMA WillShowAdded ==
  ASSUME NEW change \in Seq(Actions), change # <<>>, NEW m, NEW key,
         Adds(Head(change), m, key) => ~Drops(Head(change), m, key),
         Shows(m, key)' <=> Shows(m, key) \/ Adds(Head(change), m, key)
  PROVE  WillShow(change, m, key)' <=> WillShow(change, m, key)
<1>1. /\ 1 \in DOMAIN change /\ Head(change) = change[1]
      /\ \A j \in DOMAIN change : j = 1 \/ j > 1
  OBVIOUS
<1>2. CASE Adds(change[1], m, key)
  <2>1. (\A j \in DOMAIN change : ~Drops(change[j], m, key))
          => \A j \in DOMAIN change : j > 1 => ~Drops(change[j], m, key)
    OBVIOUS
  <2> QED
    BY <1>1, <1>2, <2>1 DEF WillShow
<1>3. CASE ~Adds(change[1], m, key)
  BY <1>1, <1>3 DEF WillShow
<1> QED
  BY <1>2, <1>3

-----------------------------------------------------------------------------
(* The one call and its rule. *)

LEMMA OtherCalls ==
  ASSUME OneCallInv, NEW t \in Calls, InProgress(t), NEW u \in Calls, u # t
  PROVE  ~InProgress(u) /\ ~Busy(u)
<1>1. ~InProgress(u) /\ OneCall(u)
  BY DEF OneCallInv
<1> QED
  BY <1>1 DEF Busy, InProgress, OneCall

LEMMA AllServe ==
  ASSUME ServiceInv, ServingInv, NEW t \in Calls, HasARule(call[t])
  PROVE  \A m \in Managers : manager_state[m] = "serving"
BY DEF ServiceInv, ClientInv, CallInv, Installed, ServingInv

LEMMA BusyRule ==
  ASSUME OneCallInv, NEW t \in Calls, Busy(t)
  PROVE  HasARule(call[t]) /\ InProgress(t)
BY DEF OneCallInv, OneCall, Busy, HasARule, InProgress

Following(t) == call[t].rule.rule.action[call[t].idx + 1]

TidyLimit(r) == IF r.op_type = "PUT" THEN Len(r.action) ELSE Len(r.action) - 1

TidyAt(r, i) ==
  LET a == r.action IN
  \/ a[i].type = "not_set"
  \/ Rejected(r, i) /\ \A j \in 1..(i - 1) : a[j].type = "not_set"
  \/ a[i].type = "put" /\ ~Rejected(r, i)
  \/ r.op_type = "GET" /\ a[i].type = "remove"
  \/ /\ r.op_type = "GET" /\ a[i].type = "copy_from"
     /\ i < TidyLimit(r) /\ a[i + 1].type = "remove" /\ a[i + 1].key = a[i].key
     /\ a[i + 1].mgrs[1] = a[i].mgrs[2]

LEMMA TidyActions ==
  ASSUME NEW r, Tidy(r), NEW i \in 1..TidyLimit(r)
  PROVE  TidyAt(r, i)
BY DEF Tidy, TidyLimit, TidyAt

LEMMA TidyCopy ==
  ASSUME NEW r, Tidy(r), NEW i \in DOMAIN r.action, r.action[i].type = "copy_from"
  PROVE  r.action[i].mgrs[1] # r.action[i].mgrs[2]
BY DEF Tidy

LEMMA TidyAction ==
  ASSUME OneCallAtATime, ServiceInv, ThreadsInv, OneCallInv, NEW t \in Calls,
         call[t].pc = "copying" \/ AtAction(t, {CurrentAction(t).type})
  PROVE  /\ HasARule(call[t]) /\ call[t].pc \in {"action", "copying"}
         /\ call[t].rule.rule.action \in Seq(Actions) /\ call[t].idx \in DOMAIN call[t].rule.rule.action
         /\ call[t].idx \in Nat /\ call[t].idx <= Limit(t)
         /\ call[t].idx <= Len(call[t].rule.rule.action)
         /\ CurrentAction(t) \in Actions
         /\ call[t].pc = "copying" => CurrentAction(t).type = "copy_from"
         /\ CurrentAction(t).type = "copy_from" =>
              /\ t.op = "GET" /\ call[t].idx + 1 <= Limit(t)
              /\ Following(t).type = "remove" /\ Following(t).key = CurrentAction(t).key
              /\ Following(t).mgrs[1] = CurrentAction(t).mgrs[2]
              /\ CurrentAction(t).mgrs[1] # CurrentAction(t).mgrs[2]
         /\ CurrentAction(t).type = "remove" => t.op = "GET"
         /\ \/ CurrentAction(t).type = "get"
            \/ CurrentAction(t).type = "put" /\ ~(t.op = "PUT" /\ CurrentAction(t).key = t.key)
            => \A j \in 1..(call[t].idx - 1) : call[t].rule.rule.action[j].type = "not_set"
<1> PICK r, a, i, c, limit :
      r = call[t].rule.rule /\ a = call[t].rule.rule.action /\ i = call[t].idx
      /\ c = CurrentAction(t) /\ limit = Limit(t)
  OBVIOUS
<1>1. call[t].pc \in {"action", "copying"} /\ i <= limit /\ HasARule(call[t])
  BY DEF AtAction, OneCallInv, OneCall, HasARule
<1>2. /\ r \in Rules /\ a = r.action /\ a \in Seq(Actions) /\ r.op_type = t.op /\ r.key = t.key
  BY <1>1, CallRule
<1>3. i \in Nat /\ i >= 1
  BY <1>1, RunningFields DEF ServiceInv, ServiceTypeOK
<1>4. limit = TidyLimit(r) /\ limit = IF r.op_type = "PUT" THEN Len(a) ELSE Len(a) - 1
  BY <1>2 DEF Limit, TidyLimit
<1>5. Len(a) \in Nat /\ limit \in Int /\ limit <= Len(a)
  <2> PICK n : n = Len(a)
    OBVIOUS
  <2>1. n \in Nat
    BY <1>2
  <2>2. limit = n \/ limit = n - 1
    BY <1>4
  <2>3. limit \in Int /\ limit <= n
    BY <2>1, <2>2
  <2> QED
    BY <2>1, <2>3
<1>6. i <= Len(a) /\ i \in 1..limit /\ i \in DOMAIN a
  <2>1. i <= Len(a) /\ i \in 1..limit
    BY <1>1, <1>3, <1>5
  <2> QED
    BY <1>2, <1>3, <2>1
<1>7. c = a[i] /\ c \in Actions
  BY <1>2, <1>6, ElementsOf DEF CurrentAction
<1>8. call[t].pc = "copying" => c.type = "copy_from"
  BY <1>7 DEF ThreadsInv, Follows
<1>9. Tidy(r)
  BY <1>2 DEF OneCallAtATime
<1>10. \/ c.type = "not_set"
       \/ Rejected(r, i) /\ \A j \in 1..(i - 1) : a[j].type = "not_set"
       \/ c.type = "put" /\ ~Rejected(r, i)
       \/ t.op = "GET" /\ c.type = "remove"
       \/ /\ t.op = "GET" /\ c.type = "copy_from"
          /\ i < limit /\ a[i + 1].type = "remove" /\ a[i + 1].key = c.key
          /\ a[i + 1].mgrs[1] = c.mgrs[2]
  <2>1. TidyAt(r, i)
    BY <1>4, <1>6, <1>9, TidyActions
  <2> QED
    BY <1>2, <1>4, <1>7, <2>1 DEF TidyAt
<1>11. Rejected(r, i) <=> \/ c.type = "get"
                          \/ c.type = "put" /\ ~(t.op = "PUT" /\ c.key = t.key)
  BY <1>2, <1>7 DEF Rejected
<1>12. c.type = "copy_from" => c.mgrs[1] # c.mgrs[2]
  BY <1>2, <1>6, <1>7, <1>9, TidyCopy
<1>13. i < limit => i + 1 <= limit
  BY <1>3, <1>5
<1>14. c.type = "copy_from" =>
         /\ t.op = "GET" /\ i + 1 <= limit /\ a[i + 1].type = "remove" /\ a[i + 1].key = c.key
         /\ a[i + 1].mgrs[1] = c.mgrs[2] /\ c.mgrs[1] # c.mgrs[2]
  BY <1>10, <1>11, <1>12, <1>13
<1>15. /\ c.type = "remove" => t.op = "GET"
       /\ \/ c.type = "get"
          \/ c.type = "put" /\ ~(t.op = "PUT" /\ c.key = t.key)
          => \A j \in 1..(i - 1) : a[j].type = "not_set"
  BY <1>10, <1>11
<1>16. /\ HasARule(call[t]) /\ call[t].pc \in {"action", "copying"}
       /\ call[t].rule.rule.action \in Seq(Actions) /\ call[t].idx \in DOMAIN call[t].rule.rule.action
       /\ call[t].idx \in Nat /\ call[t].idx <= Limit(t)
       /\ call[t].idx <= Len(call[t].rule.rule.action)
       /\ CurrentAction(t) \in Actions
       /\ call[t].pc = "copying" => CurrentAction(t).type = "copy_from"
  BY <1>1, <1>2, <1>3, <1>6, <1>7, <1>8
<1> QED
  BY <1>14, <1>15, <1>16 DEF Following

(* The call to the manager of an action, and what the call goes on with.   *)
LEMMA TidyExecuted ==
  ASSUME OneCallAtATime, NamesTellApart, ServiceInv, ThreadsInv, OneCallInv, NEW t \in Calls,
         call[t].pc = "copying" \/ AtAction(t, {CurrentAction(t).type}),
         CurrentAction(t).type \in {"copy_from", "remove", "put"}
  PROVE  /\ Executed(t).pc = "action" /\ Executed(t).idx = call[t].idx + 1
         /\ Executed(t).rule = call[t].rule
         /\ Executed(t).change = Append(call[t].change, CurrentAction(t))
         /\ call[t].change \in Seq(Actions)
         /\ \A m \in ListeningAt(UriOf(t, 1)) :
              m \in Managers /\ GenerateName(m) = CurrentAction(t).mgrs[1]
<1> PICK a, i : a = call[t].rule.rule.action /\ i = call[t].idx
  OBVIOUS
<1>1. /\ HasARule(call[t]) /\ call[t].pc \in {"action", "copying"}
      /\ a \in Seq(Actions) /\ i \in DOMAIN a /\ i <= Len(a)
      /\ CurrentAction(t) = a[i] /\ a[i] \in Actions
      /\ a[i].type = "remove" => t.op = "GET"
  BY TidyAction DEF CurrentAction
<1>2. /\ Executed(t).pc = "action" /\ Executed(t).idx = call[t].idx + 1
      /\ Executed(t).rule = call[t].rule
      /\ Executed(t).change = Append(call[t].change, CurrentAction(t))
  <2>1. t.op = "GET" => t.op # "PUT"
    OBVIOUS
  <2> QED
    BY <1>1, <2>1, ExecutedInv, ExecutedFollows DEF ServiceInv, ServiceTypeOK
<1>3. call[t].change \in Seq(Actions)
  BY <1>1, RunningFields DEF ServiceInv, ServiceTypeOK
<1>4. 1 \in DOMAIN a[i].mgrs
  BY <1>1, ManagersOf
<1>5. ASSUME NEW m \in ListeningAt(UriOf(t, 1))
      PROVE  m \in Managers /\ GenerateName(m) = CurrentAction(t).mgrs[1]
  BY <1>1, <1>4, <1>5, UriNamed, ListeningManagers DEF UriOf
<1> QED
  BY <1>2, <1>3, <1>5

-----------------------------------------------------------------------------
(* The steps of the call. *)

LEMMA GotoOnly ==
  ASSUME ServiceInv, NEW t \in Calls, NEW s, Goto(t, s)
  PROVE  call'[t] = s /\ \A u \in Calls \ {t} : call'[u] = call[u]
BY DEF ServiceInv, ServiceTypeOK, ClientTypeOK, Goto

(* A client that ends itself has sent nothing that is still to be done.    *)
LEMMA AbortOnly ==
  ASSUME ServiceInv, OneCallInv, NEW t \in Calls, InProgress(t), Abort(t.client),
         ~AtAction(t, {"copy_from"}), ~AtAction(t, {"remove"}), ~PutAllowed(t)
  PROVE  /\ call'[t].pc = "returned" /\ \A u \in Calls \ {t} : call'[u] = call[u]
         /\ UNCHANGED <<store, work, manager_state>>
<1>1. call'[t] = Return("UNAVAILABLE", "")
  BY DEF Abort
<1>2. \A u \in Calls \ {t} : ~InProgress(u)
  BY OtherCalls
<1>3. call'[t].pc = "returned" /\ \A u \in Calls \ {t} : call'[u] = call[u]
  BY <1>1, <1>2 DEF Abort, Return
<1>4. Sent(t) = {}
  BY DEF Sent
<1>5. \A u \in Threads : work'[u] = work[u]
  BY <1>2, <1>4, AbortWork
<1>6. UNCHANGED work
  BY <1>5, AbortWork DEF ServiceInv, ServiceTypeOK, ManagerTypeOK
<1> QED
  BY <1>3, <1>6, AbortWork

(* What is left to show of a step of call t.                               *)
LEMMA CallAgrees ==
  ASSUME ServiceInv, ThreadsInv, ServingInv, OneCallInv, AgreeInv, NEW t \in Calls, InProgress(t),
         UNCHANGED <<manager_state, master_up>>,
         UNCHANGED <<store, manager_views>> \/ HasARule(call[t]),
         \A u \in Calls \ {t} : call'[u] = call[u] /\ handler'[u] = handler[u],
         \A m \in Managers : handler'[m] = handler[m],
         \A u \in Threads \ {t} : work'[u] = work[u],
         OneCall(t)',
         work'[t] # NoWork =>
           /\ call'[t].pc = "copying" /\ work'[t].pc = "write"
           /\ Adds(CurrentAction(t)', work'[t].at, work'[t].key),
         Busy(t)' => Matches(t)',
         ~Busy(t)' => \A m \in Managers : manager_state[m] = "serving" => InPlace(m)'
  PROVE  OneCallInv' /\ AgreeInv'
<1>1. \A u \in Calls \ {t} : ~InProgress(u) /\ ~Busy(u)
  BY OtherCalls
<1>2. \A u \in Calls \ {t} : ~InProgress(u)' /\ ~Busy(u)'
  BY <1>1 DEF InProgress, Busy
<1>3. \A u, v \in Calls : InProgress(u)' /\ InProgress(v)' => u = v
  BY <1>2
<1>4. \A u \in Calls : OneCall(u)'
  BY DEF OneCallInv, OneCall, Limit
<1>5. ASSUME NEW u \in Threads, work'[u] # NoWork
      PROVE  /\ u \in Calls /\ call'[u].pc = "copying" /\ work'[u].pc = "write"
             /\ Adds(CurrentAction(u)', work'[u].at, work'[u].key)
  <2>1. CASE u # t
    <3>1. work[u] # NoWork
      BY <1>5, <2>1
    <3>2. u \in Calls /\ call[u].pc = "copying"
      BY <3>1 DEF OneCallInv
    <3> QED
      BY <1>1, <2>1, <3>2 DEF InProgress
  <2>2. CASE u = t
    BY <1>5, <2>2
  <2> QED
    BY <2>1, <2>2
<1>6. OneCallInv'
  BY <1>3, <1>4, <1>5 DEF OneCallInv
<1>7. ASSUME NEW m \in Managers
      PROVE  Introduced(m)'
  <2>1. CASE UNCHANGED <<store, manager_views>>
    BY <2>1, ViewUnchanged DEF AgreeInv, Introduced
  <2>2. CASE HasARule(call[t])
    <3>1. manager_state[m] = "serving"
      BY <2>2, AllServe
    <3>2. handler[m] = Idle
      BY <3>1 DEF ThreadsInv, PeersIntroduce
    <3>3. handler'[m].pc = "idle" /\ handler'[m] # Replied("OK")
      BY <3>2 DEF Idle, Replied
    <3> QED
      BY <3>3 DEF Introduced
  <2> QED
    BY <2>1, <2>2
<1>8. AgreeInv'
  BY <1>2, <1>7 DEF AgreeInv
<1> QED
  BY <1>6, <1>8

LEMMA InPlaceNow ==
  ASSUME OneCallInv, AgreeInv, NEW t \in Calls, InProgress(t), ~Busy(t), NEW m \in Managers,
         manager_state[m] = "serving"
  PROVE  InPlace(m)
BY OtherCalls DEF AgreeInv

LEMMA InPlaceStays ==
  ASSUME UNCHANGED <<store, manager_views>>, NEW m
  PROVE  InPlace(m)' <=> InPlace(m)
BY ViewUnchanged DEF InPlace, Holds, Shows

LEMMA MatchesNext ==
  ASSUME NEW t, NEW change, change = Pending(t)',
         \A m \in Managers, key \in Keys :
           /\ WillShow(change, m, key)' => Holds(m, key)'
           /\ Holds(m, key)' => WillShow(change, m, key)' \/ Leaves(t, m, key)'
           /\ handler'[t].pc = "RemoveFromDst" /\ Adds(Head(handler'[t].change), m, key)
                => Shows(m, key)'
  PROVE  Matches(t)'
BY DEF Matches, WillShow

LEMMA PrologueAgrees ==
  ASSUME ServiceInv, ThreadsInv, ServingInv, OneCallInv, AgreeInv, NEW t \in Calls,
         HasMatchingRule(t) \/ GetMatchingRule(t)
  PROVE  OneCallInv' /\ AgreeInv'
<1>1. /\ call[t].pc \in {"has_rule", "get_rule"} /\ InProgress(t)
      /\ UNCHANGED <<manager_views, manager_state, master_up, store, work, handler>>
  <2>1. /\ call[t].pc \in {"has_rule", "get_rule"} /\ InProgress(t) /\ UNCHANGED masterVars
        /\ UNCHANGED managerVars \/ Abort(t.client)
    BY DEF HasMatchingRule, GetMatchingRule, InProgress
  <2> QED
    BY <2>1, AbortOnly DEF AtAction, PutAllowed, masterVars, managerVars, processVars
<1>2. handler[t].pc \notin Applying /\ ~Busy(t) /\ work[t] = NoWork
  BY <1>1, ServiceAssumption DEF OneCallInv, OneCall, Busy
<1>3. \A m \in Managers : manager_state[m] = "serving" => InPlace(m) /\ InPlace(m)'
  BY <1>1, <1>2, InPlaceNow, InPlaceStays
<1>4. /\ \A u \in Calls \ {t} : call'[u] = call[u]
      /\ \/ call'[t].pc \in {"get_rule", "returned"}
         \/ HasRule(t) /\ call'[t].pc = "action" /\ call'[t].change = <<>>
  <2>1. CASE Abort(t.client)
    BY <1>1, <2>1, AbortOnly DEF AtAction, PutAllowed
  <2>2. CASE Goto(t, [pc |-> "get_rule"])
    BY <2>2, GotoOnly
  <2>3. CASE Goto(t, Return("UNKNOWN", ""))
    <3>1. Return("UNKNOWN", "").pc = "returned"
      BY DEF Return
    <3> QED
      BY <2>3, <3>1, GotoOnly
  <2>4. CASE HasRule(t) /\ Goto(t, [pc |-> "action", rule |-> rule_db[t.client][<<t.op, t.key>>],
                                    idx |-> 1, change |-> <<>>])
    BY <2>4, GotoOnly
  <2>5. \/ Abort(t.client)
        \/ Goto(t, [pc |-> "get_rule"])
        \/ Goto(t, Return("UNKNOWN", ""))
        \/ HasRule(t) /\ Goto(t, [pc |-> "action", rule |-> rule_db[t.client][<<t.op, t.key>>],
                                  idx |-> 1, change |-> <<>>])
    BY DEF HasMatchingRule, GetMatchingRule
  <2> QED
    BY <2>1, <2>2, <2>3, <2>4, <2>5
<1>5. OneCall(t)'
  BY <1>1, <1>2, <1>4 DEF OneCall
<1>6. ASSUME Busy(t)'
      PROVE  Matches(t)'
  <2>1. HasRule(t) /\ call'[t].pc = "action" /\ call'[t].change = <<>>
    BY <1>1, <1>2, <1>4, <1>6 DEF Busy
  <2>2. \A m \in Managers : manager_state[m] = "serving"
    BY <2>1, ClientAssumption DEF HasRule, ServiceInv, ClientInv, Installed, ServingInv
  <2>3. ASSUME NEW m \in Managers, NEW key \in Keys
        PROVE  WillShow(<<>>, m, key)' <=> Holds(m, key)'
    BY <1>3, <2>2, <2>3 DEF WillShow, InPlace
  <2>4. <<>> = Pending(t)'
    BY <2>1 DEF Pending
  <2>5. handler'[t].pc # "RemoveFromDst"
    BY <1>1, <1>2 DEF Applying
  <2> QED
    BY <2>3, <2>4, <2>5, MatchesNext
<1> QED
  BY <1>1, <1>2, <1>3, <1>4, <1>5, <1>6, CallAgrees

(* The current action has been carried out, with this effect on the files. *)
Effect(a) ==
  \A m \in Managers, key \in Keys :
    Holds(m, key)' <=>
      Adds(a, m, key) \/ (Holds(m, key) /\ ~(a.type = "remove" /\ Drops(a, m, key)))

LEMMA DoneAgrees ==
  ASSUME OneCallAtATime, NamesTellApart, ServiceInv, ThreadsInv, ServingInv, OneCallInv, AgreeInv,
         NEW t \in Calls, call[t].pc = "copying" \/ AtAction(t, {CurrentAction(t).type}),
         CurrentAction(t).type \in {"copy_from", "remove", "put"},
         AtAction(t, {CurrentAction(t).type}) => CurrentAction(t).type # "copy_from",
         Goto(t, Executed(t)), UNCHANGED masterVars, UNCHANGED manager_state, Effect(CurrentAction(t)),
         work'[t] = NoWork, \A u \in Threads \ {t} : work'[u] = work[u]
  PROVE  OneCallInv' /\ AgreeInv'
<1> PICK a : a = CurrentAction(t)
  OBVIOUS
<1>1. /\ HasARule(call[t]) /\ call[t].pc \in {"action", "copying"} /\ InProgress(t)
      /\ call[t].pc = "copying" => a.type = "copy_from"
      /\ call[t].idx \in Nat
  BY TidyAction DEF InProgress
<1>2. /\ call'[t] = Executed(t) /\ \A u \in Calls \ {t} : call'[u] = call[u]
      /\ UNCHANGED <<manager_views, master_up, handler>>
  BY GotoOnly DEF masterVars, processVars
<1>3. /\ call'[t].pc = "action" /\ call'[t].idx = call[t].idx + 1 /\ call'[t].rule = call[t].rule
      /\ call'[t].change = Append(call[t].change, a) /\ call[t].change \in Seq(Actions)
  BY <1>2, TidyExecuted
<1>4. handler[t].pc \notin Applying
  BY <1>1 DEF OneCallInv, OneCall
<1>5. OneCall(t)'
  BY <1>2, <1>3, <1>4 DEF OneCall
<1>6. Busy(t) /\ Busy(t)' /\ Pending(t) = call[t].change /\ Pending(t)' = Append(call[t].change, a)
  BY <1>1, <1>3 DEF Busy, Pending
<1>7. ASSUME NEW m \in Managers, NEW key \in Keys
      PROVE  Leaves(t, m, key) => a.type = "remove" /\ Drops(a, m, key)
  BY DEF Leaves, AtAction
<1>8. ASSUME NEW m \in Managers, NEW key \in Keys, a.type = "copy_from", Drops(a, m, key)
      PROVE  Leaves(t, m, key)'
  <2>1. /\ t.op = "GET" /\ call[t].idx + 1 <= Limit(t)
        /\ Following(t).type = "remove" /\ Following(t).key = a.key
        /\ Following(t).mgrs[1] = a.mgrs[2]
    BY <1>8, TidyAction
  <2>2. Limit(t)' = Limit(t) /\ CurrentAction(t)' = Following(t)
    BY <1>3 DEF Limit, CurrentAction, Following
  <2>3. AtAction(t, {"remove"})'
    BY <1>3, <2>1, <2>2 DEF AtAction
  <2>4. Drops(Following(t), m, key)
    BY <1>8, <2>1 DEF Drops
  <2> QED
    BY <2>2, <2>3, <2>4 DEF Leaves, Drops
<1> PICK old, new : old = call[t].change /\ new = Append(call[t].change, a)
  OBVIOUS
<1>9. ASSUME NEW m \in Managers, NEW key \in Keys
      PROVE  /\ WillShow(new, m, key)' => Holds(m, key)'
             /\ Holds(m, key)' => WillShow(new, m, key)' \/ Leaves(t, m, key)'
  <2>1. /\ WillShow(old, m, key) => Holds(m, key)
        /\ Holds(m, key) => WillShow(old, m, key) \/ Leaves(t, m, key)
    BY <1>6 DEF AgreeInv, Matches
  <2>2. WillShow(new, m, key) <=> Adds(a, m, key) \/ (WillShow(old, m, key) /\ ~Drops(a, m, key))
    BY <1>3, WillShowAppend
  <2>3. WillShow(new, m, key)' <=> WillShow(new, m, key)
    BY <1>2, ViewUnchanged, WillShowSame DEF Shows
  <2>4. Holds(m, key)' <=>
          Adds(a, m, key) \/ (Holds(m, key) /\ ~(a.type = "remove" /\ Drops(a, m, key)))
    BY DEF Effect
  <2>5. Drops(a, m, key) => a.type \in {"remove", "copy_from"}
    BY DEF Drops
  <2> QED
    BY <1>7, <1>8, <2>1, <2>2, <2>3, <2>4, <2>5
<1>10. Matches(t)'
  <2>1. handler'[t].pc # "RemoveFromDst"
    BY <1>2, <1>4 DEF Applying
  <2>2. new = Pending(t)'
    BY <1>6
  <2> QED
    BY <1>9, <2>1, <2>2, MatchesNext
<1> QED
  BY <1>1, <1>2, <1>5, <1>6, <1>10, CallAgrees

LEMMA CopyAgrees ==
  ASSUME OneCallAtATime, NamesTellApart, ServiceInv, ThreadsInv, ServingInv, OneCallInv, AgreeInv,
         NEW t \in Calls, ExecuteCopyAction(t)
  PROVE  OneCallInv' /\ AgreeInv'
<1> PICK a : a = CurrentAction(t)
  OBVIOUS
<1> PICK c, s : c = call[t] /\ s = [c EXCEPT !.pc = "copying"]
  OBVIOUS
<1>1. /\ AtAction(t, {a.type}) /\ a.type = "copy_from" /\ c.pc = "action" /\ Goto(t, s)
      /\ UNCHANGED <<store, manager_state, manager_views, master_up, handler>>
  BY DEF ExecuteCopyAction, AtAction, BeginCopyFrom, masterVars, processVars
<1>2. /\ HasARule(c) /\ c.idx <= Limit(t) /\ InProgress(t)
  BY <1>1, TidyAction DEF InProgress
<1>3. s.pc = "copying" /\ s.idx = c.idx /\ s.rule = c.rule /\ s.change = c.change
  BY <1>1, RunningFields DEF ServiceInv, ServiceTypeOK
<1>4. call'[t] = s /\ \A u \in Calls \ {t} : call'[u] = call[u]
  BY <1>1, GotoOnly
<1>5. handler[t].pc \notin Applying
  BY <1>1 DEF OneCallInv, OneCall
<1>6. Limit(t)' = Limit(t) /\ CurrentAction(t)' = a
  BY <1>3, <1>4 DEF Limit, CurrentAction
<1>7. OneCall(t)'
  BY <1>1, <1>2, <1>3, <1>4, <1>5, <1>6 DEF OneCall
<1>8. /\ Adds(a, work'[t].at, work'[t].key) /\ work'[t].pc = "write"
      /\ \A u \in Threads \ {t} : work'[u] = work[u]
  <2>1. PICK m \in ListeningAt(UriOf(t, 1)) : BeginCopyFrom(t, m, a.key, UriOf(t, 2))
    BY DEF ExecuteCopyAction
  <2>2. m \in Managers /\ GenerateName(m) = a.mgrs[1]
    BY <1>1, <2>1, TidyExecuted
  <2>3. PICK value : work' = [work EXCEPT ![t] = WriteWork(m, a.key, value)]
    BY <2>1 DEF BeginCopyFrom
  <2>4. /\ work'[t] = WriteWork(m, a.key, value)
        /\ \A u \in Threads \ {t} : work'[u] = work[u]
    BY <2>3, ServiceAssumption DEF ServiceInv, ServiceTypeOK, ManagerTypeOK
  <2> QED
    BY <1>1, <2>2, <2>4 DEF Adds, WriteWork
<1>9. Matches(t)'
  <2>1. Busy(t) /\ Pending(t) = c.change /\ c.change = Pending(t)'
    BY <1>1, <1>3, <1>4 DEF Busy, Pending
  <2>2. \A m, key : ~Leaves(t, m, key)
    BY <1>1 DEF Leaves, AtAction
  <2>3. ASSUME NEW m \in Managers, NEW key \in Keys
        PROVE  WillShow(c.change, m, key)' <=> Holds(m, key)'
    <3>1. WillShow(c.change, m, key) <=> Holds(m, key)
      BY <2>1, <2>2 DEF AgreeInv, Matches
    <3>2. WillShow(c.change, m, key)' <=> WillShow(c.change, m, key)
      BY <1>1, ViewUnchanged, WillShowSame DEF Shows
    <3> QED
      BY <1>1, <3>1, <3>2 DEF Holds
  <2>4. handler'[t].pc # "RemoveFromDst"
    BY <1>1, <1>5 DEF Applying
  <2> QED
    BY <2>1, <2>3, <2>4, MatchesNext
<1> QED
  BY <1>1, <1>2, <1>3, <1>4, <1>6, <1>7, <1>8, <1>9, CallAgrees DEF Busy

LEMMA FinishCopyAgrees ==
  ASSUME OneCallAtATime, NamesTellApart, ServiceInv, ThreadsInv, ServingInv, OneCallInv, AgreeInv,
         NEW t \in Calls, FinishWrite(t)
  PROVE  OneCallInv' /\ AgreeInv'
<1> PICK a : a = CurrentAction(t)
  OBVIOUS
<1> PICK x : x = work[t]
  OBVIOUS
<1>1. /\ x # NoWork /\ x.pc = "write" /\ UNCHANGED masterVars /\ UNCHANGED manager_state
      /\ Write(x.at, Bind(store[x.at], x.key, x.value))
      /\ work' = [work EXCEPT ![t] = NoWork]
  BY DEF FinishWrite, EndWrite, NoWork
<1>2. call[t].pc = "copying" /\ Adds(a, x.at, x.key)
  BY <1>1, ServiceAssumption DEF OneCallInv
<1>3. Goto(t, Executed(t)) /\ a.type = "copy_from"
  BY <1>2, TidyAction DEF FinishWrite
<1>4. /\ work'[t] = NoWork /\ \A u \in Threads \ {t} : work'[u] = work[u]
      /\ x.at \in Managers
  BY <1>1, WorkFields, ServiceAssumption DEF ServiceInv, ServiceTypeOK, ManagerTypeOK
<1>5. store' = [store EXCEPT ![x.at] = Bind(store[x.at], x.key, x.value)]
  BY <1>1 DEF Write, OneCallAtATime
<1>6. Effect(a)
  <2>1. ASSUME NEW m \in Managers, NEW key \in Keys
        PROVE  Holds(m, key)' <=> Adds(a, m, key) \/ Holds(m, key)
    <3>1. Adds(a, m, key) <=> m = x.at /\ key = x.key
      BY <1>2, <1>4, ManagersAreNoCalls DEF Adds, NamesTellApart
    <3>2. CASE m = x.at
      <4>1. store'[m] = Bind(store[m], x.key, x.value)
        BY <1>5, <3>2 DEF ServiceInv, ServiceTypeOK, ManagerTypeOK
      <4>2. DOMAIN store'[m] = DOMAIN store[m] \cup {x.key}
        BY <4>1 DEF Bind
      <4> QED
        BY <3>1, <3>2, <4>2 DEF Holds
    <3>3. CASE m # x.at
      BY <1>5, <3>1, <3>3 DEF Holds, ServiceInv, ServiceTypeOK, ManagerTypeOK
    <3> QED
      BY <3>2, <3>3
  <2> QED
    BY <1>3, <2>1 DEF Effect
<1> QED
  BY <1>1, <1>2, <1>3, <1>4, <1>6, DoneAgrees DEF AtAction

LEMMA RemoveAgrees ==
  ASSUME OneCallAtATime, NamesTellApart, ServiceInv, ThreadsInv, ServingInv, OneCallInv, AgreeInv,
         NEW t \in Calls, ExecuteRemoveAction(t)
  PROVE  OneCallInv' /\ AgreeInv'
<1> PICK a : a = CurrentAction(t)
  OBVIOUS
<1>1. /\ AtAction(t, {a.type}) /\ a.type = "remove" /\ call[t].pc = "action"
      /\ Goto(t, Executed(t)) /\ UNCHANGED masterVars /\ UNCHANGED <<manager_state, work>>
  BY DEF ExecuteRemoveAction, AtAction
<1>2. PICK n \in ListeningAt(UriOf(t, 1)) : ManagerRemove(n, a.key)
  BY DEF ExecuteRemoveAction
<1>3. n \in Managers /\ GenerateName(n) = a.mgrs[1]
  BY <1>1, <1>2, TidyExecuted
<1>4. store' = [store EXCEPT ![n] = Unbind(store[n], a.key)]
  BY <1>2 DEF ManagerRemove, Write, OneCallAtATime
<1>5. work'[t] = NoWork /\ \A u \in Threads \ {t} : work'[u] = work[u]
  BY <1>1, ServiceAssumption DEF OneCallInv
<1>6. Effect(a)
  <2>1. ASSUME NEW m \in Managers, NEW key \in Keys
        PROVE  Holds(m, key)' <=> Holds(m, key) /\ ~Drops(a, m, key)
    <3>1. Drops(a, m, key) <=> m = n /\ key = a.key
      BY <1>1, <1>3, ManagersAreNoCalls DEF Drops, NamesTellApart
    <3>2. CASE m = n
      <4>1. store'[m] = Unbind(store[m], a.key)
        BY <1>4, <3>2 DEF ServiceInv, ServiceTypeOK, ManagerTypeOK
      <4>2. DOMAIN store'[m] = DOMAIN store[m] \ {a.key}
        BY <4>1 DEF Unbind, Restrict
      <4> QED
        BY <3>1, <3>2, <4>2 DEF Holds
    <3>3. CASE m # n
      BY <1>4, <3>1, <3>3 DEF Holds, ServiceInv, ServiceTypeOK, ManagerTypeOK
    <3> QED
      BY <3>2, <3>3
  <2>2. \A m, key : ~Adds(a, m, key)
    BY <1>1 DEF Adds
  <2> QED
    BY <1>1, <2>1, <2>2 DEF Effect
<1> QED
  BY <1>1, <1>5, <1>6, DoneAgrees

LEMMA PutAgrees ==
  ASSUME OneCallAtATime, NamesTellApart, ServiceInv, ThreadsInv, ServingInv, OneCallInv, AgreeInv,
         NEW t \in Calls, ExecutePutAction(t)
  PROVE  OneCallInv' /\ AgreeInv'
<1> PICK a : a = CurrentAction(t)
  OBVIOUS
<1>1. /\ AtAction(t, {a.type}) /\ a.type = "put" /\ a.key = t.key /\ call[t].pc = "action"
      /\ Goto(t, Executed(t)) /\ UNCHANGED masterVars /\ UNCHANGED <<manager_state, work>>
  BY DEF ExecutePutAction, PutAllowed, AtAction
<1>2. PICK n \in ListeningAt(UriOf(t, 1)) : ManagerPut(n, t.key, t.value)
  BY DEF ExecutePutAction
<1>3. n \in Managers /\ GenerateName(n) = a.mgrs[1]
  BY <1>1, <1>2, TidyExecuted
<1>4. store' = [store EXCEPT ![n] = Bind(store[n], t.key, t.value)]
  BY <1>2 DEF ManagerPut, Write, OneCallAtATime
<1>5. work'[t] = NoWork /\ \A u \in Threads \ {t} : work'[u] = work[u]
  BY <1>1, ServiceAssumption DEF OneCallInv
<1>6. Effect(a)
  <2>1. ASSUME NEW m \in Managers, NEW key \in Keys
        PROVE  Holds(m, key)' <=> Adds(a, m, key) \/ Holds(m, key)
    <3>1. Adds(a, m, key) <=> m = n /\ key = t.key
      BY <1>1, <1>3, ManagersAreNoCalls DEF Adds, NamesTellApart
    <3>2. CASE m = n
      <4>1. store'[m] = Bind(store[m], t.key, t.value)
        BY <1>4, <3>2 DEF ServiceInv, ServiceTypeOK, ManagerTypeOK
      <4>2. DOMAIN store'[m] = DOMAIN store[m] \cup {t.key}
        BY <4>1 DEF Bind
      <4> QED
        BY <3>1, <3>2, <4>2 DEF Holds
    <3>3. CASE m # n
      BY <1>4, <3>1, <3>3 DEF Holds, ServiceInv, ServiceTypeOK, ManagerTypeOK
    <3> QED
      BY <3>2, <3>3
  <2> QED
    BY <1>1, <2>1 DEF Effect
<1> QED
  BY <1>1, <1>5, <1>6, DoneAgrees

LEMMA SkipAgrees ==
  ASSUME OneCallAtATime, ServiceInv, ThreadsInv, ServingInv, OneCallInv, AgreeInv,
         NEW t \in Calls, SkipAction(t)
  PROVE  OneCallInv' /\ AgreeInv'
<1> PICK c, s : c = call[t] /\ s = NextAction(t)
  OBVIOUS
<1>1. /\ AtAction(t, {"not_set"}) /\ CurrentAction(t).type = "not_set" /\ c.pc = "action" /\ Goto(t, s)
      /\ UNCHANGED <<store, work, manager_state, manager_views, master_up, handler>>
  BY DEF SkipAction, AtAction, masterVars, processVars, managerVars
<1>2. HasARule(c) /\ InProgress(t)
  BY <1>1, TidyAction DEF InProgress
<1>3. s.pc = "action" /\ s.change = c.change
  BY <1>1, NextActionInv DEF ServiceInv, ServiceTypeOK
<1>4. call'[t] = s /\ \A u \in Calls \ {t} : call'[u] = call[u]
  BY <1>1, GotoOnly
<1>5. handler[t].pc \notin Applying /\ work[t] = NoWork
  BY <1>1, ServiceAssumption DEF OneCallInv, OneCall
<1>6. OneCall(t)'
  BY <1>1, <1>3, <1>4, <1>5 DEF OneCall
<1>7. Matches(t)'
  <2>1. Busy(t) /\ Pending(t) = c.change /\ c.change = Pending(t)'
    BY <1>1, <1>3, <1>4 DEF Busy, Pending
  <2>2. \A m, key : ~Leaves(t, m, key)
    BY <1>1 DEF Leaves, AtAction
  <2>3. ASSUME NEW m \in Managers, NEW key \in Keys
        PROVE  WillShow(c.change, m, key)' <=> Holds(m, key)'
    <3>1. WillShow(c.change, m, key) <=> Holds(m, key)
      BY <2>1, <2>2 DEF AgreeInv, Matches
    <3>2. WillShow(c.change, m, key)' <=> WillShow(c.change, m, key)
      BY <1>1, ViewUnchanged, WillShowSame DEF Shows
    <3> QED
      BY <1>1, <3>1, <3>2 DEF Holds
  <2>4. handler'[t].pc # "RemoveFromDst"
    BY <1>1, <1>5 DEF Applying
  <2> QED
    BY <2>1, <2>3, <2>4, MatchesNext
<1> QED
  BY <1>1, <1>2, <1>3, <1>4, <1>5, <1>6, <1>7, CallAgrees DEF Busy

(* What is rejected is rejected before anything was done. *)
LEMMA NothingSelected ==
  ASSUME NEW action, NEW k \in Nat, NEW change \in Selections(action, k),
         \A j \in 1..k : action[j].type = "not_set"
  PROVE  change = <<>>
<1>1. PICK n \in 0..k : \E pos \in Positions(action, k, n) : change = [j \in 1..n |-> action[pos[j]]]
  BY DEF Selections
<1>2. PICK pos \in Positions(action, k, n) : change = [j \in 1..n |-> action[pos[j]]]
  BY <1>1
<1>3. n = 0
  <2>1. SUFFICES ASSUME n # 0
                 PROVE  FALSE
    OBVIOUS
  <2>2. 1 \in 1..n
    BY <2>1
  <2>3. pos[1] \in 1..k
    BY <1>2, <2>2 DEF Positions
  <2> QED
    BY <1>2, <2>2, <2>3 DEF Positions
<1> QED
  BY <1>2, <1>3

LEMMA RejectAgrees ==
  ASSUME OneCallAtATime, ServiceInv, ThreadsInv, ServingInv, OneCallInv, AgreeInv,
         NEW t \in Calls, RejectAction(t)
  PROVE  OneCallInv' /\ AgreeInv'
<1> PICK a, c, i : a = c.rule.rule.action /\ c = call[t] /\ i = c.idx
  OBVIOUS
<1>1. Abort(t.client) /\ UNCHANGED <<manager_views, master_up, handler>>
  BY DEF RejectAction, masterVars, processVars
<1>2. /\ AtAction(t, {CurrentAction(t).type}) /\ c.pc = "action"
      /\ \/ CurrentAction(t).type = "get"
         \/ CurrentAction(t).type = "put" /\ ~(t.op = "PUT" /\ CurrentAction(t).key = t.key)
  BY DEF RejectAction, AtAction, PutAllowed, OneCallInv, OneCall
<1>3. /\ HasARule(c) /\ i \in Nat /\ \A j \in 1..(i - 1) : a[j].type = "not_set"
  BY <1>2, TidyAction
<1>4. i >= 1 /\ c.change \in Selections(a, i - 1)
  BY <1>2, RunningFields DEF ServiceInv, ServiceTypeOK, ThreadsInv, Follows
<1>5. c.change = <<>>
  BY <1>3, <1>4, NothingSelected
<1>6. /\ InProgress(t) /\ call'[t].pc = "returned" /\ \A u \in Calls \ {t} : call'[u] = call[u]
      /\ UNCHANGED <<store, work, manager_state>>
  <2>1. ~AtAction(t, {"copy_from"}) /\ ~AtAction(t, {"remove"}) /\ ~PutAllowed(t)
    BY <1>2 DEF AtAction, PutAllowed
  <2> QED
    BY <1>1, <1>2, <2>1, AbortOnly DEF InProgress
<1>7. handler[t].pc \notin Applying /\ work[t] = NoWork
  BY <1>2, ServiceAssumption DEF OneCallInv, OneCall
<1>8. OneCall(t)' /\ ~Busy(t)'
  BY <1>1, <1>6, <1>7 DEF OneCall, Busy
<1>9. ASSUME NEW m \in Managers
      PROVE  InPlace(m)'
  <2>1. Matches(t) /\ Pending(t) = <<>>
    BY <1>2, <1>5 DEF AgreeInv, Busy, Pending
  <2>2. \A key : ~Leaves(t, m, key)
    BY <1>2 DEF Leaves, AtAction
  <2>3. \A key \in Keys : Holds(m, key) <=> Shows(m, key)
    BY <2>1, <2>2, WillShowNone DEF Matches
  <2> QED
    BY <1>1, <1>6, <2>3, InPlaceStays DEF InPlace
<1> QED
  BY <1>1, <1>6, <1>7, <1>8, <1>9, CallAgrees

LEMMA LimitInt ==
  ASSUME ServiceInv, ThreadsInv, NEW t \in Calls, HasARule(call[t])
  PROVE  Limit(t) \in Int
<1> PICK n : n = Len(call[t].rule.rule.action)
  OBVIOUS
<1>1. n \in Nat
  BY CallRule
<1>2. Limit(t) = n \/ Limit(t) = n - 1
  BY DEF Limit
<1> QED
  BY <1>1, <1>2

LEMMA ReportAgrees ==
  ASSUME OneCallAtATime, ServiceInv, ThreadsInv, ServingInv, OneCallInv, AgreeInv,
         NEW t \in Calls, Report(t)
  PROVE  OneCallInv' /\ AgreeInv'
<1> PICK c, s : c = call[t] /\ s = [c EXCEPT !.pc = "reporting"]
  OBVIOUS
<1>1. /\ c.pc = "action" /\ c.idx > Limit(t) /\ ReceiveStorageChange(t, c.change) /\ Goto(t, s)
      /\ UNCHANGED <<store, work, manager_state>>
  BY DEF Report, OneCallInv, managerVars
<1>2. HasARule(c) /\ InProgress(t) /\ c.idx \in Nat /\ s.pc = "reporting" /\ s.change = c.change
  <2>1. /\ c = [pc |-> c.pc, rule |-> c.rule, idx |-> c.idx, change |-> c.change]
        /\ c.idx \in Nat
    BY <1>1, RunningFields DEF ServiceInv, ServiceTypeOK
  <2>2. HasARule(c) /\ InProgress(t)
    BY <1>1 DEF InProgress, HasARule
  <2> QED
    BY <2>1, <2>2
<1>3. call'[t] = s /\ \A u \in Calls \ {t} : call'[u] = call[u]
  BY <1>1, GotoOnly
<1>4. /\ UNCHANGED <<manager_views, master_up>>
      /\ handler'[t] = ChangeHandler(c.change) /\ \A u \in Threads \ {t} : handler'[u] = handler[u]
  BY <1>1, ServiceAssumption
     DEF ReceiveStorageChange, Receive, Become, processVars, ServiceInv, MasterInv, MasterTypeOK
<1>5. handler'[t].pc = "StorageChange" /\ handler'[t].change = c.change
  BY <1>4 DEF ChangeHandler
<1>6. work[t] = NoWork
  BY <1>1, ServiceAssumption DEF OneCallInv
<1>7. OneCall(t)' /\ Busy(t)'
  BY <1>2, <1>3, <1>5 DEF OneCall, Busy, Applying
<1>8. Matches(t)'
  <2>1. Busy(t) /\ Pending(t) = c.change /\ c.change = Pending(t)'
    BY <1>1, <1>2, <1>3, <1>5 DEF Busy, Pending
  <2>2. \A m, key : ~Leaves(t, m, key)
    BY <1>1, <1>2, LimitInt DEF Leaves, AtAction
  <2>3. ASSUME NEW m \in Managers, NEW key \in Keys
        PROVE  WillShow(c.change, m, key)' <=> Holds(m, key)'
    <3>1. WillShow(c.change, m, key) <=> Holds(m, key)
      BY <2>1, <2>2 DEF AgreeInv, Matches
    <3>2. WillShow(c.change, m, key)' <=> WillShow(c.change, m, key)
      BY <1>4, ViewUnchanged, WillShowSame DEF Shows
    <3> QED
      BY <1>1, <3>1, <3>2 DEF Holds
  <2> QED
    BY <1>5, <2>1, <2>3, MatchesNext
<1>9. \A m \in Managers : handler'[m] = handler[m]
  BY <1>4, ManagersAreNoCalls
<1>10. \A u \in Calls \ {t} : handler'[u] = handler[u]
  BY <1>4, ServiceAssumption
<1> QED
  BY <1>1, <1>2, <1>3, <1>4, <1>6, <1>7, <1>8, <1>9, <1>10, CallAgrees

LEMMA ReportedAgrees ==
  ASSUME OneCallAtATime, ServiceInv, ThreadsInv, ServingInv, OneCallInv, AgreeInv,
         NEW t \in Calls, Reported(t)
  PROVE  OneCallInv' /\ AgreeInv'
<1>1. /\ call[t].pc = "reporting" /\ InProgress(t) /\ Answered(t) /\ Become(t, Idle)
      /\ UNCHANGED <<store, work, manager_state, manager_views, master_up>>
  <2>1. /\ call[t].pc = "reporting" /\ InProgress(t) /\ Answered(t) /\ Become(t, Idle)
        /\ UNCHANGED <<manager_views, master_up>>
        /\ UNCHANGED managerVars \/ Abort(t.client)
    BY DEF Reported, Consume, InProgress, processVars
  <2> QED
    BY <2>1, AbortOnly DEF AtAction, PutAllowed, managerVars
<1>2. handler[t].pc \notin Applying /\ ~Busy(t) /\ work[t] = NoWork
  BY <1>1, ServiceAssumption DEF Answered, Busy, Applying, OneCallInv
<1>3. /\ handler'[t].pc = "idle" /\ \A u \in Threads \ {t} : handler'[u] = handler[u]
  BY <1>1, ServiceAssumption DEF Become, Idle, ServiceInv, MasterInv, MasterTypeOK
<1>4. /\ call'[t].pc \in {"last", "returned"} /\ \A u \in Calls \ {t} : call'[u] = call[u]
  <2>1. CASE Abort(t.client)
    BY <1>1, <2>1, AbortOnly DEF AtAction, PutAllowed
  <2>2. CASE Goto(t, Return("OK", ""))
    <3>1. Return("OK", "").pc = "returned"
      BY DEF Return
    <3> QED
      BY <2>2, <3>1, GotoOnly
  <2>3. CASE Goto(t, [pc |-> "last", rule |-> call[t].rule])
    BY <2>3, GotoOnly
  <2> QED
    BY <2>1, <2>2, <2>3 DEF Reported
<1>5. OneCall(t)' /\ ~Busy(t)'
  BY <1>3, <1>4 DEF OneCall, Busy, Applying
<1>6. \A m \in Managers : manager_state[m] = "serving" => InPlace(m)'
  BY <1>1, <1>2, InPlaceNow, InPlaceStays
<1>7. /\ \A m \in Managers : handler'[m] = handler[m]
      /\ \A u \in Calls \ {t} : handler'[u] = handler[u]
  BY <1>3, ServiceAssumption, ManagersAreNoCalls
<1> QED
  BY <1>1, <1>2, <1>4, <1>5, <1>6, <1>7, CallAgrees

LEMMA GetAgrees ==
  ASSUME OneCallAtATime, ServiceInv, ThreadsInv, ServingInv, OneCallInv, AgreeInv,
         NEW t \in Calls, ExecuteGetAction(t)
  PROVE  OneCallInv' /\ AgreeInv'
<1>1. /\ call[t].pc = "last" /\ InProgress(t)
      /\ UNCHANGED <<store, work, manager_state, manager_views, master_up, handler>>
  BY DEF ExecuteGetAction, InProgress, masterVars, managerVars, processVars
<1>2. PICK value : Goto(t, Return("OK", value))
  BY DEF ExecuteGetAction
<1>3. handler[t].pc \notin Applying /\ ~Busy(t) /\ work[t] = NoWork
  BY <1>1, ServiceAssumption DEF OneCallInv, OneCall, Busy
<1>4. call'[t].pc = "returned" /\ \A u \in Calls \ {t} : call'[u] = call[u]
  <2>1. Return("OK", value).pc = "returned"
    BY DEF Return
  <2> QED
    BY <1>2, <2>1, GotoOnly
<1>5. OneCall(t)' /\ ~Busy(t)'
  BY <1>1, <1>3, <1>4 DEF OneCall, Busy
<1>6. \A m \in Managers : manager_state[m] = "serving" => InPlace(m)'
  BY <1>1, <1>3, InPlaceNow, InPlaceStays
<1> QED
  BY <1>1, <1>3, <1>4, <1>5, <1>6, CallAgrees

LEMMA CallStepAgrees ==
  ASSUME OneCallAtATime, NamesTellApart, ServiceInv, ThreadsInv, ServingInv, OneCallInv, AgreeInv,
         NEW t \in Calls, CallStep(t)
  PROVE  OneCallInv' /\ AgreeInv'
<1>1. ~BelatedWork(t)
  <2>1. work[t] # NoWork => work[t].pc = "write"
    BY CallFields DEF OneCallInv
  <2> QED
    BY <2>1 DEF BelatedWork, BeginFetch, EndRemove, NoWork
<1> QED
  BY <1>1, PrologueAgrees, CopyAgrees, FinishCopyAgrees, RemoveAgrees, PutAgrees, SkipAgrees,
     RejectAgrees, ReportAgrees, ReportedAgrees, GetAgrees DEF CallStep

-----------------------------------------------------------------------------
(* The handlers of the master. *)

LEMMA ReportFacts ==
  ASSUME OneCallAtATime, ServiceInv, ThreadsInv, OneCallInv, NEW t \in Calls, AppliesReport(t)
  PROVE  /\ call[t].pc = "reporting" /\ HasARule(call[t]) /\ InProgress(t)
         /\ Busy(t) /\ Pending(t) = handler[t].change /\ handler[t].change \in Seq(Actions)
         /\ \A m, key : ~Leaves(t, m, key)
         /\ handler[t].pc = "RemoveFromDst" =>
              handler[t].change # <<>> /\ Head(handler[t].change).type = "copy_from"
         /\ handler[t].change # <<>> /\ Head(handler[t].change).type = "copy_from" =>
              Head(handler[t].change).mgrs[1] # Head(handler[t].change).mgrs[2]
<1> PICK c : c = handler[t].change
  OBVIOUS
<1>1. handler[t].pc \in Applying /\ c \in Seq(Actions) /\ t \in Threads
  BY ServiceAssumption DEF AppliesReport
<1>2. call[t].pc = "reporting"
  BY <1>1 DEF OneCallInv, OneCall
<1>3. HasARule(call[t]) /\ InProgress(t) /\ Busy(t) /\ Pending(t) = c
  BY <1>1, <1>2 DEF HasARule, InProgress, Busy, Pending
<1>4. \A m, key : ~Leaves(t, m, key)
  BY <1>2 DEF Leaves, AtAction
<1>5. handler[t].pc = "RemoveFromDst" => c # <<>> /\ Head(c).type = "copy_from"
  BY <1>1 DEF ServiceInv, MasterInv, HandlerInv
<1>6. ASSUME c # <<>>, Head(c).type = "copy_from"
      PROVE  Head(c).mgrs[1] # Head(c).mgrs[2]
  <2>1. PICK r \in Rules : MadeOf(c, r.action)
    BY <1>1 DEF ThreadsInv, Serves, Applying
  <2>2. 1 \in DOMAIN c /\ Head(c) = c[1]
    BY <1>1, <1>6
  <2>3. PICK j \in DOMAIN r.action : Head(c) = r.action[j]
    BY <2>1, <2>2 DEF MadeOf
  <2>4. Tidy(r)
    BY DEF OneCallAtATime
  <2> QED
    BY <1>6, <2>3, <2>4, TidyCopy
<1> QED
  BY <1>1, <1>2, <1>3, <1>4, <1>5, <1>6

LEMMA ReportAdvances ==
  ASSUME OneCallAtATime, ServiceInv, ThreadsInv, ServingInv, OneCallInv, AgreeInv,
         NEW t \in Calls, AppliesReport(t), UNCHANGED <<managerVars, clientVars, master_up>>,
         NEW h, Become(t, h),
         \/ h.pc \in Applying /\ \A m \in Managers, key \in Keys :
              /\ WillShow(h.change, m, key)' <=> WillShow(handler[t].change, m, key)
              /\ h.pc = "RemoveFromDst" /\ Adds(Head(h.change), m, key) => Shows(m, key)'
         \/ /\ h = Replied("OK")
            /\ handler[t].change = <<>> /\ UNCHANGED manager_views
  PROVE  OneCallInv' /\ AgreeInv'
<1>1. /\ call[t].pc = "reporting" /\ HasARule(call[t]) /\ InProgress(t)
      /\ Busy(t) /\ Pending(t) = handler[t].change /\ \A m, key : ~Leaves(t, m, key)
  BY ReportFacts
<1>2. /\ UNCHANGED <<store, manager_state, work, call>> /\ call' = call
      /\ handler'[t] = h /\ \A u \in Threads \ {t} : handler'[u] = handler[u]
  BY ServiceAssumption DEF managerVars, clientVars, Become, ServiceInv, MasterInv, MasterTypeOK
<1>3. work[t] = NoWork
  BY <1>1, ServiceAssumption DEF OneCallInv
<1>4. /\ \A m \in Managers : handler'[m] = handler[m]
      /\ \A u \in Calls \ {t} : handler'[u] = handler[u]
  BY <1>2, ServiceAssumption, ManagersAreNoCalls
<1>5. Matches(t)
  BY <1>1 DEF AgreeInv
<1>6. CASE h.pc \in Applying /\ \A m \in Managers, key \in Keys :
             /\ WillShow(h.change, m, key)' <=> WillShow(handler[t].change, m, key)
             /\ h.pc = "RemoveFromDst" /\ Adds(Head(h.change), m, key) => Shows(m, key)'
  <2>1. OneCall(t)' /\ Busy(t)'
    BY <1>1, <1>2, <1>6 DEF OneCall, Busy
  <2>2. h.change = Pending(t)'
    BY <1>1, <1>2 DEF Pending
  <2>3. ASSUME NEW m \in Managers, NEW key \in Keys
        PROVE  /\ WillShow(h.change, m, key)' => Holds(m, key)'
               /\ Holds(m, key)' => WillShow(h.change, m, key)' \/ Leaves(t, m, key)'
               /\ handler'[t].pc = "RemoveFromDst" /\ Adds(Head(handler'[t].change), m, key)
                    => Shows(m, key)'
    <3>1. WillShow(handler[t].change, m, key) <=> Holds(m, key)
      BY <1>1, <1>5 DEF Matches
    <3>2. Holds(m, key)' <=> Holds(m, key)
      BY <1>2 DEF Holds
    <3> QED
      BY <1>2, <1>6, <3>1, <3>2
  <2>4. Matches(t)'
    BY <2>2, <2>3, MatchesNext
  <2> QED
    BY <1>1, <1>2, <1>3, <1>4, <2>1, <2>4, CallAgrees
<1>7. CASE /\ h = Replied("OK")
           /\ handler[t].change = <<>> /\ UNCHANGED manager_views
  <2>1. OneCall(t)' /\ ~Busy(t)'
    BY <1>1, <1>2, <1>7 DEF OneCall, Busy, Applying, Replied
  <2>2. \A m \in Managers : InPlace(m)'
    <3>1. \A m \in Managers, key \in Keys : Holds(m, key) <=> Shows(m, key)
      BY <1>1, <1>5, <1>7, WillShowNone DEF Matches
    <3> QED
      BY <1>2, <1>7, <3>1, InPlaceStays DEF InPlace
  <2> QED
    BY <1>1, <1>2, <1>3, <1>4, <2>1, <2>2, CallAgrees
<1> QED
  BY <1>6, <1>7

LEMMA AppliesAgrees ==
  ASSUME OneCallAtATime, ServiceInv, ThreadsInv, ServingInv, OneCallInv, AgreeInv,
         NEW t \in Calls, AppliesReport(t), UNCHANGED <<managerVars, clientVars>>
  PROVE  OneCallInv' /\ AgreeInv'
<1> PICK g, c, a : g = handler[t] /\ c = g.change /\ a = Head(c)
  OBVIOUS
<1>1. /\ g.pc \in Applying /\ c \in Seq(Actions) /\ t \in Threads /\ Pending(t) = c /\ Matches(t)
      /\ g.pc = "RemoveFromDst" => c # <<>> /\ a.type = "copy_from"
      /\ c # <<>> /\ a.type = "copy_from" => a.mgrs[1] # a.mgrs[2]
  BY ReportFacts, ServiceAssumption DEF AppliesReport, AgreeInv
<1>2. UNCHANGED master_up
  BY DEF AppliesReport, ApplyChange, RemoveFromDst, FinishStorageChange, processVars
<1>3. CASE FinishStorageChange(t)
  BY <1>2, <1>3, ReportAdvances DEF FinishStorageChange
<1>4. ASSUME Become(t, ChangeHandler(Tail(c))), c # <<>>,
             \A m \in Managers, key \in Keys :
               Shows(m, key)' <=> Adds(a, m, key) \/ (Shows(m, key) /\ ~Drops(a, m, key))
      PROVE  OneCallInv' /\ AgreeInv'
  <2> PICK h : h = ChangeHandler(Tail(c))
    OBVIOUS
  <2>1. h.pc = "StorageChange" /\ h.change = Tail(c)
    BY DEF ChangeHandler
  <2>2. \A m \in Managers, key \in Keys : WillShow(h.change, m, key)' <=> WillShow(c, m, key)
    BY <1>1, <1>4, <2>1, WillShowTail
  <2> QED
    BY <1>2, <1>4, <2>1, <2>2, ReportAdvances DEF Applying
<1>5. CASE RemoveFromDst(t)
  <2>1. g.pc = "RemoveFromDst" /\ c # <<>> /\ a.type = "copy_from" /\ a.mgrs[1] # a.mgrs[2]
    BY <1>1, <1>5 DEF RemoveFromDst
  <2>2. manager_views' = Bind(manager_views, a.mgrs[2], ViewOf(a.mgrs[2]) \ {a.key})
    BY <1>5 DEF RemoveFromDst, RemoveFileFromManager
  <2>3. ASSUME NEW m \in Managers, NEW key \in Keys
        PROVE  Shows(m, key)' <=> Adds(a, m, key) \/ (Shows(m, key) /\ ~Drops(a, m, key))
    <3>1. ViewOf(GenerateName(m))' = IF GenerateName(m) = a.mgrs[2] THEN ViewOf(a.mgrs[2]) \ {a.key}
                                     ELSE ViewOf(GenerateName(m))
      BY <2>2, ViewAfterBind
    <3>2. Adds(a, m, key) => Shows(m, key) /\ ~Drops(a, m, key)
      BY <1>1, <2>1 DEF Matches, Adds, Drops
    <3>3. Drops(a, m, key) <=> key = a.key /\ GenerateName(m) = a.mgrs[2]
      BY <2>1 DEF Drops
    <3> QED
      BY <3>1, <3>2, <3>3 DEF Shows
  <2> QED
    BY <1>4, <1>5, <2>1, <2>3 DEF RemoveFromDst
<1>6. CASE ApplyChange(t)
  <2>1. c # <<>>
    BY <1>6 DEF ApplyChange
  <2>2. CASE a.type = "copy_from"
    <3> PICK h : h = [g EXCEPT !.pc = "RemoveFromDst"]
      OBVIOUS
    <3>1. manager_views' = Bind(manager_views, a.mgrs[1], ViewOf(a.mgrs[1]) \cup {a.key}) /\ Become(t, h)
      BY <1>6, <2>2 DEF ApplyChange, AddFileToManager
    <3>2. h.pc = "RemoveFromDst" /\ h.change = c
      <4>1. g \in HandlerStates
        BY <1>1 DEF ServiceInv, MasterInv, MasterTypeOK
      <4>2. g = [pc |-> g.pc, change |-> c]
        BY <1>1, <4>1, HandlerFields DEF Applying
      <4> QED
        BY <4>2
    <3>3. ASSUME NEW m \in Managers, NEW key \in Keys
          PROVE  Shows(m, key)' <=> Shows(m, key) \/ Adds(a, m, key)
      <4>1. ViewOf(GenerateName(m))' =
              IF GenerateName(m) = a.mgrs[1] THEN ViewOf(a.mgrs[1]) \cup {a.key}
              ELSE ViewOf(GenerateName(m))
        BY <3>1, ViewAfterBind
      <4> QED
        BY <2>2, <4>1 DEF Shows, Adds
    <3>4. \A m, key : Adds(a, m, key) => ~Drops(a, m, key)
      BY <1>1, <2>1, <2>2 DEF Adds, Drops
    <3>5. \A m \in Managers, key \in Keys : WillShow(c, m, key)' <=> WillShow(c, m, key)
      BY <1>1, <2>1, <3>3, <3>4, WillShowAdded
    <3> QED
      BY <1>2, <3>1, <3>2, <3>3, <3>5, ReportAdvances DEF Applying
  <2>3. CASE a.type = "remove"
    <3>1. /\ manager_views' = Bind(manager_views, a.mgrs[1], ViewOf(a.mgrs[1]) \ {a.key})
          /\ Become(t, ChangeHandler(Tail(c)))
      BY <1>6, <2>3 DEF ApplyChange, RemoveFileFromManager
    <3>2. ASSUME NEW m \in Managers, NEW key \in Keys
          PROVE  Shows(m, key)' <=> Adds(a, m, key) \/ (Shows(m, key) /\ ~Drops(a, m, key))
      <4>1. ViewOf(GenerateName(m))' =
              IF GenerateName(m) = a.mgrs[1] THEN ViewOf(a.mgrs[1]) \ {a.key}
              ELSE ViewOf(GenerateName(m))
        BY <3>1, ViewAfterBind
      <4> QED
        BY <2>3, <4>1 DEF Shows, Adds, Drops
    <3> QED
      BY <1>4, <2>1, <3>1, <3>2
  <2>4. CASE a.type = "put"
    <3>1. /\ manager_views' = Bind(manager_views, a.mgrs[1], ViewOf(a.mgrs[1]) \cup {a.key})
          /\ Become(t, ChangeHandler(Tail(c)))
      BY <1>6, <2>4 DEF ApplyChange, AddFileToManager
    <3>2. ASSUME NEW m \in Managers, NEW key \in Keys
          PROVE  Shows(m, key)' <=> Adds(a, m, key) \/ (Shows(m, key) /\ ~Drops(a, m, key))
      <4>1. ViewOf(GenerateName(m))' =
              IF GenerateName(m) = a.mgrs[1] THEN ViewOf(a.mgrs[1]) \cup {a.key}
              ELSE ViewOf(GenerateName(m))
        BY <3>1, ViewAfterBind
      <4> QED
        BY <2>4, <4>1 DEF Shows, Adds, Drops
    <3> QED
      BY <1>4, <2>1, <3>1, <3>2
  <2>5. CASE a.type \in {"get", "not_set"}
    <3>1. UNCHANGED manager_views /\ Become(t, ChangeHandler(Tail(c)))
      BY <1>6, <2>5 DEF ApplyChange
    <3>2. \A m \in Managers, key \in Keys :
            Shows(m, key)' <=> Adds(a, m, key) \/ (Shows(m, key) /\ ~Drops(a, m, key))
      BY <2>5, <3>1, ViewUnchanged DEF Shows, Adds, Drops
    <3> QED
      BY <1>4, <2>1, <3>1, <3>2
  <2> QED
    BY <1>6, <2>2, <2>3, <2>4, <2>5 DEF ApplyChange
<1> QED
  BY <1>3, <1>5, <1>6 DEF AppliesReport

-----------------------------------------------------------------------------
(* The other steps. *)

(* A step at which no call changes anything of a file.                     *)
LEMMA QuietAgrees ==
  ASSUME OneCallInv, AgreeInv, UNCHANGED <<store, work, master_up>>,
         \A m \in Managers : Introduced(m)',
         \A u \in Calls : \/ call'[u] = call[u] /\ handler'[u] = handler[u]
                          \/ /\ call'[u] = call[u] /\ call[u].pc # "reporting"
                             /\ handler[u].pc \notin Applying /\ handler'[u].pc \notin Applying
                          \/ ~Busy(u) /\ ~Busy(u)' /\ OneCall(u)' /\ work[u] = NoWork,
         \A t, u \in Calls : InProgress(t)' /\ InProgress(u)' => t = u,
         \/ UNCHANGED manager_views
         \/ \A u \in Calls : ~Busy(u),
         \A m \in Managers : manager_state'[m] = "serving" =>
           \/ InPlace(m)'
           \/ manager_state[m] = "serving" /\ (InPlace(m) => InPlace(m)')
  PROVE  OneCallInv' /\ AgreeInv'
<1>1. ASSUME NEW u \in Calls
      PROVE  OneCall(u)'
  <2>1. CASE call'[u] = call[u] /\ handler'[u] = handler[u]
    BY <2>1 DEF OneCallInv, OneCall, Limit
  <2>2. CASE /\ call'[u] = call[u] /\ call[u].pc # "reporting"
             /\ handler[u].pc \notin Applying /\ handler'[u].pc \notin Applying
    BY <2>2 DEF OneCallInv, OneCall, Limit
  <2> QED
    BY <2>1, <2>2
<1>2. ASSUME NEW u \in Threads, work'[u] # NoWork
      PROVE  /\ u \in Calls /\ call'[u].pc = "copying" /\ work'[u].pc = "write"
             /\ Adds(CurrentAction(u)', work'[u].at, work'[u].key)
  <2>1. /\ u \in Calls /\ call[u].pc = "copying" /\ work'[u] = work[u] /\ work[u].pc = "write"
        /\ Adds(CurrentAction(u), work[u].at, work[u].key)
    BY <1>2 DEF OneCallInv
  <2>2. call'[u] = call[u]
    BY <1>2, <2>1
  <2> QED
    BY <2>1, <2>2 DEF CurrentAction, Adds
<1>3. OneCallInv'
  BY <1>1, <1>2 DEF OneCallInv
<1>4. \A u \in Calls : Busy(u) <=> Busy(u)'
  BY DEF Busy
<1>5. ASSUME NEW u \in Calls, Busy(u)'
      PROVE  Matches(u)'
  <2>1. /\ call'[u] = call[u] /\ UNCHANGED manager_views /\ Matches(u)
        /\ \/ handler'[u] = handler[u]
           \/ /\ call[u].pc # "reporting"
              /\ handler[u].pc \notin Applying /\ handler'[u].pc \notin Applying
    BY <1>4, <1>5 DEF AgreeInv
  <2>2. \A m, key : (Shows(m, key)' <=> Shows(m, key)) /\ (Holds(m, key)' <=> Holds(m, key))
    BY <2>1, ViewUnchanged DEF Shows, Holds
  <2>3. \A m, key : Leaves(u, m, key)' <=> Leaves(u, m, key)
    BY <2>1 DEF Leaves, AtAction, Limit, CurrentAction, Drops
  <2> PICK change : change = Pending(u)
    OBVIOUS
  <2>4. /\ change = Pending(u)'
        /\ handler'[u].pc = "RemoveFromDst" => handler'[u] = handler[u]
    BY <1>5, <2>1 DEF Pending, Busy, Applying
  <2>5. ASSUME NEW m \in Managers, NEW key \in Keys
        PROVE  /\ WillShow(change, m, key)' => Holds(m, key)'
               /\ Holds(m, key)' => WillShow(change, m, key)' \/ Leaves(u, m, key)'
               /\ handler'[u].pc = "RemoveFromDst" /\ Adds(Head(handler'[u].change), m, key)
                    => Shows(m, key)'
    <3>1. WillShow(change, m, key)' <=> WillShow(change, m, key)
      BY <2>2, WillShowSame
    <3> QED
      BY <2>1, <2>2, <2>3, <2>4, <3>1 DEF Matches
  <2> QED
    BY <2>4, <2>5, MatchesNext
<1>6. AgreeInv'
  BY <1>4, <1>5 DEF AgreeInv
<1> QED
  BY <1>3, <1>6

LEMMA SameInPlace ==
  ASSUME NEW m \in Managers, UNCHANGED store, ViewOf(GenerateName(m))' = ViewOf(GenerateName(m))
  PROVE  /\ InPlace(m)' <=> InPlace(m)
         /\ Introduced(m) /\ handler'[m] = handler[m] => Introduced(m)'
<1>1. InPlace(m)' <=> InPlace(m)
  BY DEF InPlace, Holds, Shows
<1>2. ASSUME Introduced(m), handler'[m] = handler[m]
      PROVE  Introduced(m)'
  BY <1>2 DEF Introduced
<1> QED
  BY <1>1, <1>2

(* A step of the handler of another thread than a call.                    *)
LEMMA NoCallAgrees ==
  ASSUME ServiceInv, OneCallInv, AgreeInv,
         UNCHANGED <<manager_views, store, work, call, master_up>>,
         NEW p \in Threads \ Calls, NEW h, Become(p, h),
         p \in Managers => Introduced(p)',
         \A m \in Managers : manager_state'[m] = "serving" =>
           manager_state[m] = "serving" \/ (m = p /\ handler[m] = Replied("OK"))
  PROVE  OneCallInv' /\ AgreeInv'
<1>1. \A u \in Threads : handler'[u] = IF u = p THEN h ELSE handler[u]
  BY DEF Become, ServiceInv, MasterInv, MasterTypeOK
<1>2. \A u \in Calls : call'[u] = call[u] /\ handler'[u] = handler[u]
  BY <1>1, CallFields
<1>3. ASSUME NEW m \in Managers
      PROVE  Introduced(m)'
  <2>1. CASE m = p
    BY <2>1
  <2>2. CASE m # p
    <3>1. handler'[m] = handler[m]
      BY <1>1, <2>2, ManagersAreNoCalls
    <3> QED
      BY <3>1, SameInPlace, ViewUnchanged DEF AgreeInv
  <2> QED
    BY <2>1, <2>2
<1>4. \A t, u \in Calls : InProgress(t)' /\ InProgress(u)' => t = u
  BY <1>2 DEF OneCallInv, InProgress
<1>5. ASSUME NEW m \in Managers, manager_state'[m] = "serving"
      PROVE  \/ InPlace(m)'
             \/ manager_state[m] = "serving" /\ (InPlace(m) => InPlace(m)')
  <2>1. InPlace(m)' <=> InPlace(m)
    BY InPlaceStays
  <2>2. CASE m = p /\ handler[m] = Replied("OK")
    <3>1. ViewOf(GenerateName(m)) = DOMAIN store[m]
      BY <2>2 DEF AgreeInv, Introduced
    <3> QED
      BY <2>1, <3>1 DEF InPlace, Holds, Shows
  <2> QED
    BY <1>5, <2>1, <2>2
<1> QED
  BY <1>2, <1>3, <1>4, <1>5, QuietAgrees

LEMMA StartAgrees ==
  ASSUME ServiceInv, ThreadsInv, OneCallInv, AgreeInv, StartStep
  PROVE  OneCallInv' /\ AgreeInv'
<1>1. ASSUME NEW m \in Managers, BeginManagerStart(m)
      PROVE  OneCallInv' /\ AgreeInv'
  <2> PICK h : h = [pc |-> "AddPeer", peer |-> m, file |-> DOMAIN store[m]]
    OBVIOUS
  <2>1. Become(m, h) /\ UNCHANGED <<manager_views, store, work, call, master_up>>
    BY <1>1, ManagersAreNoCalls
       DEF BeginManagerStart, ReceiveIntroduce, Receive, clientVars, processVars
  <2>2. \A n \in Managers : manager_state'[n] = "serving" => manager_state[n] = "serving"
    BY <1>1 DEF BeginManagerStart, ServiceInv, ServiceTypeOK, ManagerTypeOK
  <2>3. handler'[m] = h
    BY <2>1, ManagersAreNoCalls DEF Become, ServiceInv, MasterInv, MasterTypeOK
  <2>4. Introduced(m)'
    BY <2>1, <2>3 DEF Introduced, Replied
  <2> QED
    BY <2>1, <2>2, <2>4, NoCallAgrees, ManagersAreNoCalls
<1>2. ASSUME NEW m \in Managers, EndManagerStart(m)
      PROVE  OneCallInv' /\ AgreeInv'
  <2>1. Become(m, Idle) /\ UNCHANGED <<manager_views, store, work, call, master_up>>
    BY <1>2 DEF EndManagerStart, Consume, clientVars, processVars
  <2>2. \A n \in Managers : manager_state'[n] = "serving" =>
          manager_state[n] = "serving" \/ (n = m /\ handler[n] = Replied("OK"))
    BY <1>2 DEF EndManagerStart, ServiceInv, ServiceTypeOK, ManagerTypeOK
  <2>3. handler'[m] = Idle
    BY <2>1, ManagersAreNoCalls DEF Become, ServiceInv, MasterInv, MasterTypeOK
  <2>4. Introduced(m)'
    BY <2>3 DEF Introduced, Replied, Idle
  <2> QED
    BY <2>1, <2>2, <2>4, NoCallAgrees, ManagersAreNoCalls
<1>3. ASSUME NEW c \in Clients, BeginClientStart(c) \/ EndClientStart(c)
      PROVE  OneCallInv' /\ AgreeInv'
  <2>1. /\ \E h : Become(c, h)
        /\ UNCHANGED <<manager_views, store, work, call, manager_state, master_up>>
    BY <1>3 DEF BeginClientStart, EndClientStart, ReceiveIntroduce, Receive, Consume, managerVars,
                processVars, OneCallInv
  <2> QED
    BY <2>1, NoCallAgrees, ManagersAreNoCalls
<1> QED
  BY <1>1, <1>2, <1>3 DEF StartStep

LEMMA OperatorAgrees ==
  ASSUME ServiceInv, ThreadsInv, OneCallInv, AgreeInv, NEW o \in Threads,
         ForwardRule(o) \/ (o \in Operators /\ Operate(o)) \/ (o \in Viewers /\ Look(o))
  PROVE  OneCallInv' /\ AgreeInv'
<1>1. o \in Operators \cup Viewers
  BY DEF ForwardRule, Forward, ThreadsInv, Serves
<1>2. /\ \E h : Become(o, h)
      /\ UNCHANGED <<manager_views, store, work, call, manager_state, master_up>>
  BY DEF ForwardRule, Forward, Operate, ReceiveRule, Look, ReceiveGetView, Receive,
         ClientRuleHandler, managerVars, clientVars, processVars
<1> QED
  BY <1>1, <1>2, NoCallAgrees, ManagersAreNoCalls

LEMMA BeginCallAgrees ==
  ASSUME OneCallAtATime, ServiceInv, OneCallInv, AgreeInv, NEW t \in Calls, BeginCall(t)
  PROVE  OneCallInv' /\ AgreeInv'
<1>1. /\ call[t] = NotMade
      /\ UNCHANGED <<handler, manager_views, store, work, manager_state, master_up>>
      /\ Goto(t, [pc |-> "has_rule"])
  BY DEF BeginCall, MakeCall, masterVars, managerVars, processVars
<1>2. call'[t].pc = "has_rule" /\ \A u \in Calls \ {t} : call'[u] = call[u]
  BY <1>1, GotoOnly
<1>3. ~InProgress(t)
  BY <1>1 DEF NotMade, InProgress
<1>4. \A u \in Calls : ~InProgress(u)
  <2> DEFINE Made == {u \in Calls : InProgress(u)}
  <2> SUFFICES ASSUME NEW u \in Calls, InProgress(u) PROVE FALSE
    OBVIOUS
  <2>1. Made = {u}
    BY DEF OneCallInv
  <2>2. Cardinality(Made) = 1
    BY <2>1, FS_Singleton
  <2>3. Cardinality(Made) < 1
    BY DEF BeginCall, OneCallAtATime
  <2> HIDE DEF Made
  <2> QED
    BY <2>2, <2>3
<1>5. \A u, v \in Calls : InProgress(u)' /\ InProgress(v)' => u = v
  BY <1>2, <1>4 DEF InProgress
<1>6. /\ handler[t].pc \notin Applying /\ work[t] = NoWork
      /\ ~Busy(t) /\ ~Busy(t)' /\ OneCall(t)'
  <2>1. handler[t].pc \notin Applying /\ work[t] = NoWork
    BY <1>3, ServiceAssumption DEF OneCallInv, OneCall, InProgress
  <2>2. call[t].pc \notin {"action", "copying"}
    BY <1>3 DEF InProgress
  <2> QED
    BY <1>1, <1>2, <2>1, <2>2 DEF Busy, OneCall
<1>7. \A m \in Managers : Introduced(m)' /\ (InPlace(m)' <=> InPlace(m))
  BY <1>1, SameInPlace, ViewUnchanged DEF AgreeInv
<1> QED
  BY <1>1, <1>2, <1>5, <1>6, <1>7, QuietAgrees

-----------------------------------------------------------------------------
(* The handler that introduces manager m: the view becomes what the        *)
(* manager has said that it holds.                                         *)
LEMMA IntroduceStep ==
  ASSUME ServiceInv, NEW m \in Managers, IntroducesManager(m), Introduced(m), UNCHANGED store
  PROVE  Introduced(m)'
<1> PICK g, n : g = handler[m] /\ n = GenerateName(m)
  OBVIOUS
<1>1. /\ g \in IntroduceHandlers /\ g.peer = m
      /\ \A h : Become(m, h) => handler'[m] = h
  BY ManagersAreNoCalls DEF IntroducesManager, Become, ServiceInv, MasterInv, MasterTypeOK
<1>2. \A status : Replied(status).pc = "replied"
  BY DEF Replied
<1>3. ASSUME NEW h, handler'[m] = h,
             h.pc \in {"AddPeer", "AddingPeer", "AddManager"} => h.file = DOMAIN store[m],
             h.pc = "AddFiles" => h.file \cup ViewOf(n)' = DOMAIN store[m],
             h.pc = "replied" => ViewOf(n)' = DOMAIN store[m]
      PROVE  Introduced(m)'
  BY <1>2, <1>3 DEF Introduced
<1>4. CASE LockTracker(m)
  <2>1. PICK h : h = [g EXCEPT !.pc = "AddingPeer"] /\ handler'[m] = h /\ g.pc = "AddPeer"
    BY <1>1, <1>4 DEF LockTracker
  <2>2. h.pc = "AddingPeer" /\ h.file = g.file
    BY <1>1, <2>1 DEF IntroduceHandlers
  <2> QED
    BY <1>3, <2>1, <2>2 DEF Introduced
<1>5. CASE AddPeer(m)
  <2>1. PICK h : h = [g EXCEPT !.pc = "AddManager"] /\ handler'[m] = h /\ g.pc = "AddingPeer"
    BY <1>1, <1>5 DEF AddPeer
  <2>2. h.pc = "AddManager" /\ h.file = g.file
    BY <1>1, <2>1 DEF IntroduceHandlers
  <2> QED
    BY <1>3, <2>1, <2>2 DEF Introduced
<1>6. CASE AddManager(m)
  <2>1. PICK h : /\ h = [g EXCEPT !.pc = "AddFiles"] /\ handler'[m] = h /\ g.pc = "AddManager"
                 /\ manager_views' = Bind(manager_views, n, {})
    BY <1>1, <1>6 DEF AddManager
  <2>2. h.pc = "AddFiles" /\ h.file = g.file
    BY <1>1, <2>1 DEF IntroduceHandlers
  <2>3. ViewOf(n)' = {}
    BY <2>1, ViewAfterBind
  <2> QED
    BY <1>3, <2>1, <2>2, <2>3 DEF Introduced
<1>7. CASE AddFile(m)
  <2>1. PICK key \in g.file :
          /\ manager_views' = Bind(manager_views, n, ViewOf(n) \cup {key})
          /\ handler'[m] = [g EXCEPT !.file = @ \ {key}] /\ g.pc = "AddFiles"
    BY <1>1, <1>7 DEF AddFile, AddFileToManager
  <2>2. PICK h : h = [g EXCEPT !.file = @ \ {key}]
    OBVIOUS
  <2>3. h.pc = "AddFiles" /\ h.file = g.file \ {key}
    BY <1>1, <2>1, <2>2 DEF IntroduceHandlers
  <2>4. ViewOf(n)' = ViewOf(n) \cup {key}
    BY <2>1, ViewAfterBind
  <2>5. g.file \cup ViewOf(n) = DOMAIN store[m]
    BY <2>1 DEF Introduced
  <2>6. h.file \cup ViewOf(n)' = DOMAIN store[m]
    BY <2>1, <2>3, <2>4, <2>5
  <2> QED
    BY <1>3, <2>1, <2>2, <2>3, <2>6
<1>8. CASE FinishIntroduce(m)
  <2>1. /\ g.pc = "AddFiles" /\ g.file = {} /\ handler'[m] = Replied("OK")
        /\ UNCHANGED manager_views
    BY <1>1, <1>8 DEF FinishIntroduce
  <2>2. {} \cup ViewOf(n) = DOMAIN store[m]
    BY <2>1 DEF Introduced
  <2>3. ViewOf(n)' = DOMAIN store[m]
    BY <2>1, <2>2, ViewUnchanged
  <2> QED
    BY <1>2, <1>3, <2>1, <2>3
<1> QED
  BY <1>4, <1>5, <1>6, <1>7, <1>8 DEF IntroducesManager

LEMMA IntroduceAgrees ==
  ASSUME OneCallAtATime, NamesTellApart, ServiceInv, ThreadsInv, ServingInv, OneCallInv, AgreeInv,
         NEW t, IntroducesManager(t), UNCHANGED <<managerVars, clientVars>>
  PROVE  OneCallInv' /\ AgreeInv'
<1>1. t \in Managers /\ t \in Threads /\ handler[t].peer = t /\ handler[t] # Idle
  BY ManagersAreNoCalls DEF IntroducesManager, IntroduceHandlers, Idle, Abandoned, OneCallAtATime
<1>2. manager_state[t] # "serving"
  BY <1>1 DEF ThreadsInv, PeersIntroduce
<1>3. \A u \in Calls : ~Busy(u)
  BY <1>1, <1>2, AllServe, BusyRule
<1>4. UNCHANGED <<store, work, call, manager_state, master_up>>
  BY DEF IntroducesManager, LockTracker, AddPeer, AddManager, AddFile, FinishIntroduce, managerVars,
         clientVars, processVars
<1>5. \A u \in Threads \ {t} : handler'[u] = handler[u]
  BY <1>1 DEF IntroducesManager, LockTracker, AddPeer, AddManager, AddFile, FinishIntroduce, Become,
              ServiceInv, MasterInv, MasterTypeOK
<1>6. \A u \in Calls : call'[u] = call[u] /\ handler'[u] = handler[u]
  BY <1>1, <1>4, <1>5, CallFields, ManagersAreNoCalls
<1>7. ASSUME NEW m \in Managers
      PROVE  Introduced(m)'
  <2>1. CASE m = t
    BY <1>1, <1>4, <2>1, IntroduceStep DEF AgreeInv
  <2>2. CASE m # t
    <3>1. handler'[m] = handler[m] /\ ViewOf(GenerateName(m))' = ViewOf(GenerateName(m))
      BY <1>1, <1>5, <2>2, IntroducesOther, ManagersAreNoCalls
    <3> QED
      BY <1>4, <3>1, SameInPlace DEF AgreeInv
  <2> QED
    BY <2>1, <2>2
<1>8. ASSUME NEW m \in Managers, manager_state'[m] = "serving"
      PROVE  manager_state[m] = "serving" /\ (InPlace(m) => InPlace(m)')
  <2>1. manager_state[m] = "serving" /\ m # t
    BY <1>2, <1>4, <1>8
  <2>2. ViewOf(GenerateName(m))' = ViewOf(GenerateName(m))
    BY <1>1, <2>1, IntroducesOther
  <2> QED
    BY <1>4, <2>1, <2>2, SameInPlace
<1>9. \A u, v \in Calls : InProgress(u)' /\ InProgress(v)' => u = v
  BY <1>6 DEF OneCallInv, InProgress
<1> QED
  BY <1>3, <1>4, <1>6, <1>7, <1>8, <1>9, QuietAgrees

(* Any other step of a handler but those for reports.                      *)
LEMMA LeavesAgrees ==
  ASSUME ServiceInv, ThreadsInv, OneCallInv, AgreeInv, NEW t \in Threads, HandlerStep(t),
         LeavesViews(t), handler[t].pc \notin Applying, handler'[t].pc \notin Applying,
         UNCHANGED <<managerVars, clientVars, master_up>>
  PROVE  OneCallInv' /\ AgreeInv'
<1>1. UNCHANGED <<manager_views, store, work, call, manager_state>>
  BY DEF LeavesViews, managerVars, clientVars
<1>2. PICK h : Become(t, h) /\ (t \in Managers => h.pc \notin Introducing /\ h # Replied("OK"))
  BY DEF LeavesViews
<1>3. \A u \in Threads : handler'[u] = IF u = t THEN h ELSE handler[u]
  BY <1>2 DEF Become, ServiceInv, MasterInv, MasterTypeOK
<1>4. ASSUME NEW m \in Managers
      PROVE  Introduced(m)' /\ (InPlace(m)' <=> InPlace(m))
  <2>1. CASE m = t
    BY <1>1, <1>2, <1>3, <2>1, InPlaceStays DEF Introduced, Introducing
  <2>2. CASE m # t
    <3>1. handler'[m] = handler[m]
      BY <1>3, <2>2, ManagersAreNoCalls
    <3> QED
      BY <1>1, <3>1, SameInPlace, ViewUnchanged DEF AgreeInv
  <2> QED
    BY <2>1, <2>2
<1>5. ASSUME NEW u \in Calls
      PROVE  \/ call'[u] = call[u] /\ handler'[u] = handler[u]
             \/ /\ call'[u] = call[u] /\ call[u].pc # "reporting"
                /\ handler[u].pc \notin Applying /\ handler'[u].pc \notin Applying
  <2>1. CASE u # t
    BY <1>1, <1>3, <2>1, CallFields
  <2>2. CASE u = t
    <3>1. ~Answered(u)
      BY <2>2 DEF HandlerStep, LockTracker, AddPeer, AddManager, AddFile, FinishIntroduce,
                  ApplyChange, RemoveFromDst, FinishStorageChange, FindClient, FillInRule,
                  PopulateFiles, PopulateUris, Answered
    <3>2. call[u].pc # "reporting"
      BY <2>2, <3>1 DEF OneCallInv, OneCall, Answered, Replied
    <3> QED
      BY <1>1, <2>2, <3>2
  <2> QED
    BY <2>1, <2>2
<1> QED
  BY <1>1, <1>4, <1>5, QuietAgrees DEF OneCallInv, InProgress

LEMMA MasterStepAgrees ==
  ASSUME OneCallAtATime, NamesTellApart, ServiceInv, ThreadsInv, ServingInv, OneCallInv, AgreeInv,
         NEW t \in Threads, MasterStep(t)
  PROVE  OneCallInv' /\ AgreeInv'
<1>1. ~Terminate
  <2>1. epoch \in 0..0
    BY DEF ServiceInv, ServiceTypeOK, MasterTypeOK, OneCallAtATime
  <2> QED
    BY <2>1 DEF Terminate, OneCallAtATime
<1>2. HandlerStep(t) /\ UNCHANGED <<managerVars, clientVars>>
  BY DEF MasterStep
<1>3. UNCHANGED master_up
  BY <1>1, <1>2 DEF HandlerStep, LockTracker, AddPeer, AddManager, AddFile, FinishIntroduce,
              ApplyChange, RemoveFromDst, FinishStorageChange, FindClient, FillInRule,
              PopulateFiles, PopulateUris, Throw, processVars
<1>4. CASE IntroducesManager(t)
  BY <1>2, <1>4, IntroduceAgrees
<1>5. CASE AppliesReport(t)
  BY <1>2, <1>5, AppliesAgrees DEF AppliesReport
<1>6. CASE LeavesViews(t) /\ handler[t].pc \notin Applying /\ handler'[t].pc \notin Applying
  BY <1>2, <1>3, <1>6, LeavesAgrees
<1> QED
  BY <1>1, <1>2, <1>4, <1>5, <1>6, HandlerKinds

LEMMA AgreeNext ==
  ASSUME OneCallAtATime, NamesTellApart, ServiceInv, ThreadsInv, ServingInv, OneCallInv, AgreeInv,
         [ServiceNext]_serviceVars
  PROVE  OneCallInv' /\ AgreeInv'
<1>1. CASE UNCHANGED serviceVars
  <2>1. UNCHANGED <<handler, manager_views, store, work, call, manager_state, master_up>>
    BY <1>1 DEF serviceVars, masterVars, managerVars, clientVars, processVars
  <2>2. \A m \in Managers : Introduced(m)' /\ (InPlace(m)' <=> InPlace(m))
    BY <2>1, SameInPlace, ViewUnchanged DEF AgreeInv
  <2> QED
    BY <2>1, <2>2, QuietAgrees DEF OneCallInv, InProgress
<1>2. /\ ~\E m \in Managers : CrashManager(m)
      /\ ~\E c \in Clients : CrashClient(c)
  BY DEF CrashManager, CrashClient, Kill, OneCallAtATime
<1>3. ~Terminate /\ ~MasterStart
  <2>1. epoch \in 0..0
    BY DEF ServiceInv, ServiceTypeOK, MasterTypeOK, OneCallAtATime
  <2> QED
    BY <2>1 DEF Terminate, OneCallAtATime, MasterStart, OneCallInv
<1>4. CASE \E t \in Calls : BeginCall(t) \/ CallStep(t)
  BY <1>4, BeginCallAgrees, CallStepAgrees
<1>5. CASE \E t \in Threads : MasterStep(t) \/ ForwardRule(t)
  BY <1>5, MasterStepAgrees, OperatorAgrees
<1>6. CASE StartStep \/ (\E o \in Operators : Operate(o)) \/ (\E v \in Viewers : Look(v))
  BY <1>6, StartAgrees, OperatorAgrees, ManagersAreNoCalls
<1> QED
  BY <1>1, <1>2, <1>3, <1>4, <1>5, <1>6 DEF ServiceNext

LEMMA AgreeInit == ServiceInit => ServingInv /\ OneCallInv /\ AgreeInv
<1> SUFFICES ASSUME ServiceInit PROVE ServingInv /\ OneCallInv /\ AgreeInv
  OBVIOUS
<1>1. /\ \A t \in Calls : call[t].pc = "not_made" /\ handler[t].pc = "idle"
      /\ \A t \in Threads : handler[t] = Idle /\ work[t] = NoWork
      /\ \A m \in Managers : handler[m].pc = "idle" /\ manager_state[m] = "stopped"
      /\ master_up /\ forwarded = {}
  BY CallFields, ManagersAreNoCalls
     DEF ServiceInit, MasterInit, ManagerInit, ClientInit, NotMade, Idle
<1>2. \A s : Replied(s).pc = "replied"
  BY DEF Replied
<1>3. ServingInv
  BY <1>1, ManagersAreNoCalls DEF ServingInv
<1>4. OneCallInv
  BY <1>1 DEF OneCallInv, OneCall, InProgress, Applying
<1>5. AgreeInv
  <2>1. \A m \in Managers : Introduced(m)
    BY <1>1, <1>2 DEF Introduced
  <2> QED
    BY <1>1, <2>1 DEF AgreeInv, Busy, Applying
<1> QED
  BY <1>3, <1>4, <1>5

(* A file that a call has done or is about to do something with is one     *)
(* that the call is changing.                                              *)
LEMMA ActionChanging ==
  ASSUME NEW t, NEW m, NEW key,
         call[t].pc \in {"action", "copying", "reporting"},
         call[t].rule.rule.action \in Seq(Actions),
         NEW i \in DOMAIN call[t].rule.rule.action,
         \/ Adds(call[t].rule.rule.action[i], m, key)
         \/ Drops(call[t].rule.rule.action[i], m, key)
  PROVE  Changing(t, m, key)
<1> PICK action, a : action = call[t].rule.rule.action /\ a = action[i]
  OBVIOUS
<1>1. i \in 1..Len(action) /\ a \in Actions
  BY ElementsOf
<1>2. /\ a.type \in {"copy_from", "remove", "put"} /\ a.key = key
      /\ \E j \in DOMAIN a.mgrs : a.mgrs[j] = GenerateName(m)
  BY <1>1, ManagersOf DEF Adds, Drops
<1> QED
  BY <1>1, <1>2 DEF Changing

LEMMA NotAsShown ==
  ASSUME NEW change, NEW m, NEW key, ~(WillShow(change, m, key) <=> Shows(m, key))
  PROVE  \E i \in DOMAIN change : Adds(change[i], m, key) \/ Drops(change[i], m, key)
BY DEF WillShow, Shows

(* What the invariant says of the views.                                   *)
LEMMA AgreeViews ==
  ASSUME OneCallAtATime, ServiceInv, ThreadsInv, ServingInv, OneCallInv, AgreeInv,
         NEW m \in Managers, NEW key \in Keys, manager_state[m] = "serving"
  PROVE  (Holds(m, key) <=> Shows(m, key)) \/ \E t \in Calls : Changing(t, m, key)
<1>1. CASE \A t \in Calls : ~Busy(t)
  BY <1>1 DEF AgreeInv, InPlace
<1>2. CASE \E t \in Calls : Busy(t)
  <2> PICK t \in Calls : Busy(t)
    BY <1>2
  <2> PICK change, action : change = Pending(t) /\ action = call[t].rule.rule.action
    OBVIOUS
  <2>1. call[t].pc \in {"action", "copying", "reporting"} /\ HasARule(call[t])
    BY DEF Busy, OneCallInv, OneCall, HasARule
  <2>2. action \in Seq(Actions)
    BY <2>1, CallRule
  <2>3. MadeOf(change, action)
    BY <2>1, ReportMadeOf DEF Pending, Busy, ThreadsInv, Applying
  <2>4. WillShow(change, m, key) => Holds(m, key)
    BY DEF AgreeInv, Matches
  <2>5. Holds(m, key) => WillShow(change, m, key) \/ Leaves(t, m, key)
    BY DEF AgreeInv, Matches
  <2>6. CASE Leaves(t, m, key)
    <3>1. /\ call[t].idx \in DOMAIN action /\ CurrentAction(t) = action[call[t].idx]
      BY <2>6, TidyAction DEF Leaves, AtAction, CurrentAction
    <3> QED
      BY <2>1, <2>2, <2>6, <3>1, ActionChanging DEF Leaves
  <2>7. CASE ~(WillShow(change, m, key) <=> Shows(m, key))
    <3>1. PICK i \in DOMAIN change : Adds(change[i], m, key) \/ Drops(change[i], m, key)
      BY <2>7, NotAsShown
    <3>2. PICK j \in DOMAIN action : change[i] = action[j]
      BY <2>3 DEF MadeOf
    <3> QED
      BY <2>1, <2>2, <3>1, <3>2, ActionChanging
  <2> QED
    BY <2>4, <2>5, <2>6, <2>7 DEF WillShow, Holds, Shows
<1> QED
  BY <1>1, <1>2

-----------------------------------------------------------------------------
(* With rules that move files, the view shows every file that a running    *)
(* manager holds, but for what the call in progress is changing: what the  *)
(* call has done it reports, in the order in which it was done, and the    *)
(* master applies all of it before the call returns and the next one       *)
(* begins (storage_client.cc: Get and Put; storage_master.cc:              *)
(* StorageChange).                                                         *)
THEOREM ServiceViewsMissNothingInTurn ==
  ASSUME OneCallAtATime, NamesTellApart
  PROVE  ServiceSpec => []ViewsMissNothing
<1> DEFINE Inv == ServiceInv /\ ThreadsInv /\ ServingInv /\ OneCallInv /\ AgreeInv
<1>1. ServiceInit => Inv
  BY ServiceInitInv, ThreadsInit, AgreeInit
<1>2. Inv /\ [ServiceNext]_serviceVars => Inv'
  BY ServiceNextInv, ThreadsNext, ServingNext, AgreeNext DEF OneCallAtATime, ManagersKeepFiles
<1>3. Inv => ViewsMissNothing
  BY AgreeViews DEF ViewsMissNothing
<1> QED
  BY <1>1, <1>2, <1>3, PTL DEF ServiceSpec

(* And it shows no file that the manager does not hold, with the same      *)
(* exception: the copy that was reported is removed from the view of the   *)
(* manager it was copied from, and that manager removes the file before    *)
(* the report (storage_master.cc: StorageChange, the case of a copy).      *)
THEOREM ServiceViewsShowOnlyFilesInTurn ==
  ASSUME OneCallAtATime, NamesTellApart
  PROVE  ServiceSpec => []ViewsShowOnlyFiles
<1> DEFINE Inv == ServiceInv /\ ThreadsInv /\ ServingInv /\ OneCallInv /\ AgreeInv
<1>1. ServiceInit => Inv
  BY ServiceInitInv, ThreadsInit, AgreeInit
<1>2. Inv /\ [ServiceNext]_serviceVars => Inv'
  BY ServiceNextInv, ThreadsNext, ServingNext, AgreeNext DEF OneCallAtATime, ManagersKeepFiles
<1>3. Inv => ViewsShowOnlyFiles
  BY AgreeViews DEF ViewsShowOnlyFiles
<1> QED
  BY <1>1, <1>2, <1>3, PTL DEF ServiceSpec

=============================================================================
