--------------------------- MODULE StorageService ---------------------------
(***************************************************************************)
(* The storage service: one master, the managers and clients that          *)
(* introduce themselves to it, operators that install and remove rules     *)
(* (the scheduler's part), and the applications' calls.                    *)
(*                                                                         *)
(* A thread is a manager or client inside its Start, a call, an operator,  *)
(* which makes one request [rpc, client, rule], or a viewer, which asks    *)
(* for the view once.  The master goes on with the introduction of a       *)
(* process that has died; it is then a thread of its own, in Abandoned.    *)
(***************************************************************************)
EXTENDS StorageClient

CONSTANTS
  Operators,    \* requests to install or remove a rule
  Viewers,      \* requests for the view
  Crashing,     \* the managers and clients whose processes may be killed
  MaxCrashes,   \* bound: how often that happens
  MaxAtOnce,    \* bound: how many calls are in progress at a time
  Home          \* the manager that the rules read from, in ActsAsFileStore, or none

VARIABLE crashes  \* how many managers' and clients' processes have been killed

serviceVars == <<masterVars, managerVars, clientVars, crashes>>

(* A process that is killed is the crashes-th one.                         *)
Abandoned == [killed: Crashing, as: 1..MaxCrashes]

ASSUME ServiceAssumption ==
  /\ Operators \subseteq [rpc: RuleRpcs, client: Addressees, rule: Rules]
  /\ Threads = Peers \cup Calls \cup Operators \cup Viewers \cup Abandoned
  /\ Peers \cap (Calls \cup Operators \cup Viewers \cup Abandoned) = {}
  /\ Calls \cap (Operators \cup Viewers \cup Abandoned) = {}
  /\ Operators \cap (Viewers \cup Abandoned) = {} /\ Viewers \cap Abandoned = {}
  /\ IsFiniteSet(Operators) /\ Cardinality(Operators) <= MaxForwards
  /\ Crashing \subseteq Peers /\ MaxCrashes \in Nat /\ MaxAtOnce \in Nat

(* The positions of rule r's actions at Home. *)
AtHome(r) ==
  {i \in DOMAIN r.action :
     1 \in DOMAIN r.action[i].mgrs /\ r.action[i].mgrs[1] = GenerateName(Home)}

(* If there is a Home, then its process and its medium do not fail, nobody *)
(* else has its name or address, every rule for Put puts the file there    *)
(* once and does nothing else there, and rules for Get get it from there.  *)
ASSUME HomeAssumption ==
  Home \in Managers =>
    /\ Home \notin Faulty \cup Crashing
    /\ \A p \in Peers \ {Home} : GenerateName(p) # GenerateName(Home) /\ Uri(p) # Uri(Home)
    /\ \A r \in Rules :
         /\ r.op_type = "PUT" => \E i \in DOMAIN r.action : AtHome(r) = {i} /\ r.action[i].type = "put"
         /\ r.op_type = "GET" =>
              /\ \A i \in AtHome(r) : r.action[i].type = "get"
              /\ r.action # <<>> /\ r.action[Len(r.action)].type = "get" => Len(r.action) \in AtHome(r)

ServiceInit == MasterInit /\ ManagerInit /\ ClientInit /\ crashes = 0

-----------------------------------------------------------------------------
(* Start: the server introduces itself, and serves when it has its answer. *)
(* A manager insists on an OK, a client does not look at the status.       *)

(* Mutant: a manager that starts again does not say which files it has. *)
BeginManagerStartEmpty(m) ==
  /\ manager_state[m] = "stopped"
  /\ ReceiveIntroduce(m, m, {})
  /\ manager_state' = [manager_state EXCEPT ![m] = "introducing"]
  /\ UNCHANGED <<store, work, clientVars, crashes>>

BeginManagerStart(m) ==
  /\ manager_state[m] = "stopped"
  /\ ReceiveIntroduce(m, m, DOMAIN store[m])
  /\ manager_state' = [manager_state EXCEPT ![m] = "introducing"]
  /\ UNCHANGED <<store, work, clientVars, crashes>>

EndManagerStart(m) ==
  /\ manager_state[m] = "introducing"
  /\ Consume(m)
  /\ manager_state' = [manager_state EXCEPT ![m] =
                         IF handler[m] = Replied("OK") THEN "serving" ELSE "stopped"]
  /\ UNCHANGED <<store, work, clientVars, crashes>>

BeginClientStart(c) ==
  /\ client_state[c] = "stopped"
  /\ \/ /\ ReceiveIntroduce(c, c, {})
        /\ client_state' = [client_state EXCEPT ![c] = "introducing"]
     \/ /\ ~master_up
        /\ client_state' = [client_state EXCEPT ![c] = "serving"]
        /\ UNCHANGED masterVars
  /\ UNCHANGED <<managerVars, rule_db, call, crashes>>

EndClientStart(c) ==
  /\ client_state[c] = "introducing"
  /\ Consume(c)
  /\ client_state' = [client_state EXCEPT ![c] = "serving"]
  /\ UNCHANGED <<managerVars, rule_db, call, crashes>>

-----------------------------------------------------------------------------
Kill(p) == p \in Crashing /\ crashes < MaxCrashes /\ crashes' = crashes + 1

(* A process in state s dies.  Inside its Start it leaves an introduction  *)
(* to the master, which goes on with it unless it has answered.            *)
LeaveIntroduction(p, s) ==
  IF s # "introducing" THEN UNCHANGED masterVars
  ELSE IF Answered(p) THEN Consume(p)
  ELSE Abandon(p, [killed |-> p, as |-> crashes + 1])

(* A manager's process ends, inside Start or after it.  Its calls fail,    *)
(* those that it was serving and any of those that were on their way.      *)
CrashManager(m) ==
  LET waiting == {t \in Calls : /\ manager_state[m] = "serving" /\ InProgress(t)
                                /\ Uri(m) \in CalledUris(t)}
      served == {t \in waiting : call[t].pc = "copying"} IN
  /\ Kill(m)
  /\ ManagerCrash(m)
  /\ LeaveIntroduction(m, manager_state[m])
  /\ \E failed \in SUBSET waiting :
       /\ served \subseteq failed
       /\ call' = [t \in Calls |-> IF t \in failed THEN AfterFailure(t) ELSE call[t]]
  /\ UNCHANGED <<rule_db, client_state>>

(* A client's process ends, inside Start or between any two steps of its   *)
(* calls, as it does when an assert fails: its rules are gone, and what    *)
(* its calls have done is not reported.                                    *)
CrashClient(c) ==
  /\ Kill(c)
  /\ client_state[c] # "stopped"
  /\ Abort(c)
  /\ LeaveIntroduction(c, client_state[c])

-----------------------------------------------------------------------------
(* Rules are made of the names that the view gives, when all servers run.  *)
Operate(o) ==
  /\ \A m \in Managers : manager_state[m] = "serving"
  /\ \A c \in Clients : client_state[c] = "serving"
  /\ ReceiveRule(o, o.rpc, o.client, o.rule)
  /\ UNCHANGED <<managerVars, clientVars, crashes>>

Look(v) == ReceiveGetView(v) /\ UNCHANGED <<managerVars, clientVars, crashes>>

(* The master hands a rule to its client, if that is there. *)
ForwardRule(t) ==
  LET h == handler[t] IN
  /\ IF h.pc = "FillInRule" /\ h.to \in Clients /\ client_state[h.to] = "serving"
     THEN Forward(t, "OK") /\ ClientRuleHandler(h)
     ELSE Forward(t, "UNAVAILABLE") /\ UNCHANGED clientVars
  /\ UNCHANGED <<managerVars, crashes>>

BeginCall(t) ==
  /\ Cardinality({u \in Calls : InProgress(u)}) < MaxAtOnce
  /\ MakeCall(t)
  /\ UNCHANGED crashes

-----------------------------------------------------------------------------
CallStep(t) ==
  /\ \/ HasMatchingRule(t)
     \/ GetMatchingRule(t)
     \/ ExecuteCopyAction(t)
     \/ FinishWrite(t)
     \/ BelatedWork(t)
     \/ ExecuteRemoveAction(t)
     \/ ExecutePutAction(t)
     \/ SkipAction(t)
     \/ RejectAction(t)
     \/ Report(t)
     \/ Reported(t)
     \/ ExecuteGetAction(t)
  /\ UNCHANGED crashes

MasterStep(t) == HandlerStep(t) /\ UNCHANGED <<managerVars, clientVars, crashes>>

StartStep ==
  \/ \E m \in Managers : BeginManagerStart(m) \/ EndManagerStart(m)
  \/ \E c \in Clients : BeginClientStart(c) \/ EndClientStart(c)

ServiceNext ==
  \/ StartStep
  \/ \E m \in Managers : CrashManager(m)
  \/ \E c \in Clients : CrashClient(c)
  \/ \E o \in Operators : Operate(o)
  \/ \E v \in Viewers : Look(v)
  \/ \E t \in Calls : BeginCall(t) \/ CallStep(t)
  \/ \E t \in Threads : MasterStep(t) \/ ForwardRule(t)
  \/ (Terminate \/ MasterStart) /\ UNCHANGED <<managerVars, clientVars, crashes>>

ServiceSpec == ServiceInit /\ [][ServiceNext]_serviceVars

(* The code runs: servers that were started get up, handlers and calls go  *)
(* on.  Nobody has to call, install a rule, crash or restart the master.   *)
ServiceFairness ==
  /\ WF_serviceVars(StartStep)
  /\ \A t \in Threads : WF_serviceVars(MasterStep(t) \/ ForwardRule(t))
  /\ \A t \in Calls : WF_serviceVars(CallStep(t))

LiveServiceSpec == ServiceSpec /\ ServiceFairness

-----------------------------------------------------------------------------
(* Every variable has its type.                                            *)
ServiceTypeOK ==
  /\ MasterTypeOK
  /\ ManagerTypeOK
  /\ ClientTypeOK
  /\ crashes \in 0..MaxCrashes

(* Call t is somewhere between fetching a rule that changes whether manager *)
(* m holds the file and the master's answer to its report.                 *)
Changing(t, m, key) ==
  /\ call[t].pc \in {"action", "copying", "fallthrough", "reporting"}
  /\ \E i \in 1..Len(call[t].rule.rule.action) :
       LET a == call[t].rule.rule.action[i] IN
       /\ a.type \in {"copy_from", "remove", "put"}
       /\ a.key = key
       /\ \E j \in DOMAIN a.mgrs : a.mgrs[j] = GenerateName(m)

Holds(m, key) == key \in DOMAIN store[m]

Shows(m, key) == key \in ViewOf(GenerateName(m))

(* An introduction that a killed process of manager m left behind has       *)
(* cleared the view of m, and gone on to add the files that m had then.    *)
LeftIntroduction(m) ==
  \E o \in Abandoned : o.killed = m /\ (handler[o].pc = "AddFiles" \/ Answered(o))

(* "Keys at the manager" (storage_service.proto): the view shows every     *)
(* file that a running manager holds, unless a call is still changing it,  *)
(* or an introduction that a killed process left behind has cleared the    *)
(* view since (storage_master.cc: Introduce, AddManager).                  *)
ViewsMissNothing ==
  \A m \in Managers, key \in Keys :
    manager_state[m] = "serving" /\ Holds(m, key) =>
      Shows(m, key) \/ LeftIntroduction(m) \/ \E t \in Calls : Changing(t, m, key)

(* And it shows no file that the manager does not hold, with the same      *)
(* exception.                                                              *)
ViewsShowOnlyFiles ==
  \A m \in Managers, key \in Keys :
    manager_state[m] = "serving" /\ Shows(m, key) =>
      Holds(m, key) \/ \E t \in Calls : Changing(t, m, key)

(* A Get of a file that has been there from the start is answered with a   *)
(* content of the file, wherever rules and concurrent Puts have moved it   *)
(* (storage_service_test.cc: the value read after the move).               *)
GetsReturnTheFile ==
  \A t \in Calls : t.op = "GET" /\ call[t].pc = "returned" /\ call[t].status = "OK" =>
    call[t].value # ""

(* A file that some manager holds is never lost: whatever steps calls      *)
(* take, a manager holds it with a content somebody put.                   *)
FilesSurvive ==
  [][\A key \in Keys :
       (\E m \in Managers : Holds(m, key) /\ store[m][key] \in Values)
       => (\E m \in Managers : Holds(m, key) /\ store[m][key] \in Values)']_serviceVars

(* No assert of a client fails: its process goes on, whichever rules are   *)
(* installed while it serves calls (storage_client.cc: Get and Put).       *)
ClientsKeepRunning ==
  [][\A c \in Clients : client_state[c] = "serving" => client_state'[c] = "serving"]_serviceVars

(* Every call that is made returns to its application.                     *)
CallsReturn == \A t \in Calls : InProgress(t) ~> ~InProgress(t)

(* Rules that put a file at Home, and possibly at other managers, and get  *)
(* it from Home only, make the service a FileStore: whatever calls run at  *)
(* the same time, each has taken effect at once when it is answered with   *)
(* OK, and at most once, possibly later, when its client has died          *)
(* (storage_client.cc: Put and Get, the RPC to a manager before the answer). *)
PutAtHome(c) ==
  \E i \in AtHome(c.rule.rule) : i < c.idx /\ c.rule.rule.action[i].type = "put"

(* What a call in state c has done. *)
Progress(c) ==
  CASE c.pc = "not_made" -> [state |-> "not_made"]
    [] c.pc = "returned" -> [state |-> "answered", status |-> c.status, value |-> c.value]
    [] c.pc \in {"action", "copying", "fallthrough", "reporting"} /\ PutAtHome(c) ->
         [state |-> "written"]
    [] OTHER -> [state |-> "pending"]

HomeFile == [key \in Keys |-> Read(Home, key)]

(* A Put that has failed is unresolved while Home still has to do it. *)
HomeProgress ==
  [t \in Calls |-> IF work[t].at = Home
                   THEN [state |-> "unresolved", status |-> call[t].status, value |-> call[t].value]
                   ELSE Progress(call[t])]

FS == INSTANCE FileStore WITH file <- HomeFile, progress <- HomeProgress

ActsAsFileStore == FS!FileStoreSpec

(* The actions of a rule run at the managers it names: every uri that a    *)
(* client has for a manager's name, in its rules and in the rules that its *)
(* calls are carrying out, is one at which a peer of that name introduced  *)
(* itself (storage_master.cc: FillInRule; storage_client.cc: Execute...).  *)
Routed(r) ==
  /\ DOMAIN r.uri = Slots(r.rule)
  /\ \A s \in Slots(r.rule) : RouteOf(NameAt(r.rule, s), r.uri[s])

HasARule(c) == c.pc \in {"action", "copying", "fallthrough", "reporting", "last"}

ClientsRouteTrue ==
  /\ \A c \in Clients : \A k \in DOMAIN rule_db[c] : Routed(rule_db[c][k])
  /\ \A t \in Calls : HasARule(call[t]) => Routed(call[t].rule)

(* The invariant behind it.  A rule at a client is one that some master    *)
(* filled in, and what a call is going to report mentions no other names   *)
(* than its rule: so the reports are vouched for at the master (MasterInv). *)
Installed(r) == Routed(r) /\ \E f \in forwarded : f.rpc = "InstallRule" /\ f.rule = r.rule

CallInv(c) ==
  /\ HasARule(c) => Installed(c.rule)
  /\ HasARule(c) /\ c.pc # "last" =>
       c.idx >= 1 /\ NamesIn(c.change) \subseteq NamesOf(c.rule.rule)
  /\ c.pc = "copying" => c.idx <= Len(c.rule.rule.action)

ClientInv ==
  /\ \A c \in Clients : \A k \in DOMAIN rule_db[c] : Installed(rule_db[c][k])
  /\ \A t \in Calls : CallInv(call[t])

ServiceInv == ServiceTypeOK /\ MasterInv /\ ClientInv

-----------------------------------------------------------------------------
(* What rules, calls and failures the properties above hold for, with any  *)
(* number of servers, rules and calls.                                     *)

(* Every name and every address is that of one server. *)
NamesTellApart ==
  \A p, q \in Peers : GenerateName(p) = GenerateName(q) \/ Uri(p) = Uri(q) => p = q

(* ClientsKeepRunning: the switches and asserts of Get and Put let every   *)
(* rule through, no rule is removed, and only managers end.                *)
Accepted(r) ==
  LET a == r.action IN
  /\ r.op_type = "PUT" =>
       \A i \in DOMAIN a :
         a[i].type \in {"copy_from", "not_set"} \/ (a[i].type = "put" /\ a[i].key = r.key)
  /\ r.op_type = "GET" =>
       /\ a # <<>> /\ a[Len(a)].type = "get" /\ a[Len(a)].key = r.key
       /\ \A i \in 1..(Len(a) - 1) : a[i].type \in {"copy_from", "remove", "not_set"}

RulesAccepted ==
  /\ \A r \in Rules : Accepted(r)
  /\ \A o \in Operators : o.rpc = "InstallRule"
  /\ Crashing \cap Clients = {} /\ MaxRestarts = 0

(* ViewsMissNothing, with RulesAccepted, and ViewsShowOnlyFiles, if the    *)
(* managers neither end nor refuse a write: the rules put files in place,  *)
(* and copy and remove none.                                               *)
RulesPlace ==
  \A r \in Rules : \A i \in DOMAIN r.action : r.action[i].type \notin {"copy_from", "remove"}

ManagersKeepFiles == Managers \cap Crashing = {} /\ Faulty = {}

(* Both views, for calls that are made one at a time: what a rule copies    *)
(* it removes next from where it was, and an action that is rejected comes *)
(* before anything is changed.                                             *)
Rejected(r, i) ==
  \/ r.action[i].type = "get"
  \/ r.action[i].type = "put" /\ ~(r.op_type = "PUT" /\ r.action[i].key = r.key)

Tidy(r) ==
  LET a == r.action
      limit == IF r.op_type = "PUT" THEN Len(a) ELSE Len(a) - 1 IN
  /\ \A i \in DOMAIN a : a[i].type = "copy_from" => a[i].mgrs[1] # a[i].mgrs[2]
  /\ \A i \in 1..limit :
       \/ a[i].type = "not_set"
       \/ Rejected(r, i) /\ \A j \in 1..(i - 1) : a[j].type = "not_set"
       \/ a[i].type = "put" /\ ~Rejected(r, i)
       \/ r.op_type = "GET" /\ a[i].type = "remove"
       \/ /\ r.op_type = "GET" /\ a[i].type = "copy_from"
          /\ i < limit /\ a[i + 1].type = "remove" /\ a[i + 1].key = a[i].key
          /\ a[i + 1].mgrs[1] = a[i].mgrs[2]

OneCallAtATime ==
  /\ \A r \in Rules : Tidy(r)
  /\ MaxAtOnce = 1 /\ MaxRestarts = 0 /\ Crashing = {} /\ Faulty = {}

(* FilesSurvive and GetsReturnTheFile: a file is got by moving it once,    *)
(* from a manager that has had it from the start, and the managers keep    *)
(* what they have.                                                         *)
Moves(r) ==
  LET a == r.action IN
  /\ r.op_type = "PUT" => \A i \in DOMAIN a : a[i].type \notin {"copy_from", "remove"}
  /\ r.op_type = "GET" =>
       /\ Len(a) = 3 /\ \A i \in 1..3 : a[i].key = r.key
       /\ a[1].type = "copy_from" /\ a[2].type = "remove" /\ a[3].type = "get"
       /\ a[3].mgrs[1] = a[1].mgrs[1] /\ a[2].mgrs[1] = a[1].mgrs[2] /\ a[1].mgrs[1] # a[1].mgrs[2]
       /\ \E m \in Managers : GenerateName(m) = a[1].mgrs[2] /\ r.key \in DOMAIN OnDisk[m]

FilesMoveOnce ==
  /\ \A r \in Rules : Moves(r)
  /\ \A t, u \in Calls : t.op = "GET" /\ u.op = "GET" /\ t.key = u.key => t = u
  /\ \A t \in Calls : t.op = "PUT" => t.value \in Values
  /\ \A m \in Managers : \A key \in DOMAIN OnDisk[m] : OnDisk[m][key] \in Values
  /\ ManagersKeepFiles

=============================================================================
