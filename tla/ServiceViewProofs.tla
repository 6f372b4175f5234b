------------------------- MODULE ServiceViewProofs -------------------------
(***************************************************************************)
(* Proofs about StorageService: what the view shows and what the clients   *)
(* survive, with rules, calls and failures of the kinds that RulesAccepted *)
(* and RulesPlace describe, any number of each.                            *)
(***************************************************************************)
EXTENDS ServiceThreadProofs

-----------------------------------------------------------------------------
(* No step ends a client: a call has its rule until it has returned. *)
RunningInv ==
  /\ master_up
  /\ \A t \in Calls :
       /\ call[t].pc \in {"has_rule", "get_rule"} => HasRule(t)
       /\ call[t].pc # "fallthrough"
       /\ call[t].pc = "reporting" =>
            handler[t].pc \in {"StorageChange", "RemoveFromDst"} \/ handler[t] = Replied("OK")

(* A file that the view lacks is in the report of a call that put it. *)
PutsAt(change, m, key) ==
  \E i \in DOMAIN change :
    change[i].type = "put" /\ change[i].key = key /\ change[i].mgrs[1] = GenerateName(m)

NoWorkLeft == \A t \in Threads : work[t] = NoWork

(* All that dead clients have left to do are Puts. *)
PlacedWork == \A t \in Threads : work[t].pc \in {"none", "write"}

Unreported(t, m, key) ==
  \/ call[t].pc = "action" /\ PutsAt(call[t].change, m, key)
  \/ /\ call[t].pc = "reporting" /\ handler[t].pc = "StorageChange"
     /\ PutsAt(handler[t].change, m, key)

FilesShownInv ==
  /\ NoWorkLeft
  /\ \A m \in Managers :
       LET files == DOMAIN store[m]
           view == ViewOf(GenerateName(m)) IN
       \/ LeftIntroduction(m)
       \/ /\ handler[m].pc \in {"AddPeer", "AddingPeer", "AddManager"} => files \subseteq handler[m].file
          /\ handler[m].pc = "AddFiles" => files \subseteq handler[m].file \cup view
          /\ handler[m] = Replied("OK") => files \subseteq view
          /\ manager_state[m] = "serving" =>
               \A key \in files : key \in view \/ \E t \in Calls : Unreported(t, m, key)

(* What is shown, added or reported is there. *)
ShownFilesInv ==
  /\ PlacedWork
  /\ \A m \in Managers :
       /\ ViewOf(GenerateName(m)) \subseteq DOMAIN store[m]
       /\ handler[m].pc \in {"AddPeer", "AddingPeer", "AddManager", "AddFiles"} =>
            handler[m].file \subseteq DOMAIN store[m]
       /\ \A key \in Keys, t \in Calls :
            \/ call[t].pc \in {"action", "reporting"} /\ PutsAt(call[t].change, m, key)
            \/ handler[t].pc = "StorageChange" /\ PutsAt(handler[t].change, m, key)
            => Holds(m, key)

-----------------------------------------------------------------------------
(* ClientsKeepRunning: no step of the service ends a client's process. *)

LEMMA NeverDown ==
  ASSUME ServiceInv, RulesAccepted
  PROVE  ~Terminate
<1>1. epoch \in 0..0
  BY DEF ServiceInv, ServiceTypeOK, MasterTypeOK, RulesAccepted
<1> QED
  BY <1>1 DEF Terminate, RulesAccepted

(* The rule of a call is one of the rules, and one for the call.           *)
LEMMA CallRule ==
  ASSUME ServiceInv, ThreadsInv, NEW t \in Calls, HasARule(call[t])
  PROVE  /\ call[t].rule \in FilledRules
         /\ call[t].rule.rule \in Rules /\ call[t].rule.rule.action \in Seq(Actions)
         /\ call[t].rule.rule.op_type = t.op /\ call[t].rule.rule.key = t.key
<1>1. call[t] \in CallStates
  BY DEF ServiceInv, ServiceTypeOK, ClientTypeOK
<1>2. call[t].rule \in FilledRules
  BY <1>1 DEF CallStates, NotMade, Running, Returned, HasARule
<1> QED
  BY <1>2, FilledFields DEF ThreadsInv, Follows

LEMMA AcceptedAction ==
  ASSUME RulesAccepted, ServiceInv, ThreadsInv, NEW t \in Calls, call[t].pc = "action",
         call[t].idx <= Limit(t)
  PROVE  /\ t.op = "PUT" =>
              \/ CurrentAction(t).type \in {"copy_from", "not_set"}
              \/ CurrentAction(t).type = "put" /\ CurrentAction(t).key = t.key
         /\ t.op = "GET" => CurrentAction(t).type \in {"copy_from", "remove", "not_set"}
         /\ t.op \in {"PUT", "GET"}
<1> PICK r : r = call[t].rule.rule
  OBVIOUS
<1>1. r.action \in Seq(Actions) /\ r.op_type = t.op /\ r.key = t.key /\ Accepted(r)
  BY CallRule DEF HasARule, RulesAccepted
<1>2. call[t].idx \in Nat /\ call[t].idx >= 1 /\ Len(r.action) \in Nat
  <2>1. call[t].idx \in Nat /\ call[t].idx >= 1
    BY RunningFields DEF ServiceInv, ServiceTypeOK
  <2>2. Len(r.action) \in Nat
    BY <1>1
  <2> QED
    BY <2>1, <2>2
<1>3. t.op = "PUT" => call[t].idx \in DOMAIN r.action
  BY <1>1, <1>2 DEF Limit
<1>4. t.op = "GET" => call[t].idx \in 1..(Len(r.action) - 1)
  BY <1>1, <1>2 DEF Limit
<1> QED
  BY <1>1, <1>3, <1>4, ClientAssumption DEF Accepted, CurrentAction

LEMMA NoneRejected ==
  ASSUME RulesAccepted, ServiceInv, ThreadsInv, RunningInv, NEW t \in Calls
  PROVE  ~RejectAction(t)
<1>1. call[t].pc # "fallthrough"
  BY DEF RunningInv
<1>2. ~AtAction(t, {"get"}) /\ (AtAction(t, {"put"}) => PutAllowed(t))
  BY AcceptedAction DEF AtAction, PutAllowed
<1> QED
  BY <1>1, <1>2 DEF RejectAction

LEMMA ExecutedRuns ==
  ASSUME RulesAccepted, ServiceInv, ThreadsInv, NEW t \in Calls,
         call[t].pc = "copying" \/ (call[t].pc = "action" /\ call[t].idx <= Limit(t))
  PROVE  Executed(t).pc = "action"
<1>1. /\ call[t].pc \in {"action", "copying"}
      /\ call[t].idx <= Len(call[t].rule.rule.action)
  <2>1. CASE call[t].pc = "copying"
    BY <2>1 DEF ServiceInv, ClientInv, CallInv
  <2>2. CASE call[t].pc = "action" /\ call[t].idx <= Limit(t)
    <3>1. AtAction(t, {CurrentAction(t).type})
      BY <2>2 DEF AtAction
    <3> QED
      BY <2>2, <3>1, AtActionFields DEF ServiceInv, ServiceTypeOK
  <2> QED
    BY <2>1, <2>2
<1>2. ~(CurrentAction(t).type = "remove" /\ t.op = "PUT")
  <2>1. CASE call[t].pc = "copying"
    BY <2>1 DEF ThreadsInv, Follows, CurrentAction
  <2>2. CASE call[t].pc = "action" /\ call[t].idx <= Limit(t)
    BY <2>2, AcceptedAction
  <2> QED
    BY <2>1, <2>2
<1> QED
  BY <1>1, <1>2, ExecutedInv DEF ServiceInv, ServiceTypeOK

(* Call t is on its way; a report of it is going to be answered with OK.   *)
Runs(t) ==
  /\ call[t].pc \in {"has_rule", "get_rule"} => HasRule(t)
  /\ call[t].pc # "fallthrough"
  /\ call[t].pc = "reporting" => handler[t].pc \in Applying \/ handler[t] = Replied("OK")

LEMMA RunningParts == RunningInv <=> master_up /\ \A t \in Calls : Runs(t)
BY DEF RunningInv, Runs, Applying

LEMMA GotoRuns ==
  ASSUME ServiceInv, RunningInv, NEW t \in Calls, NEW s, Goto(t, s),
         s.pc \in {"has_rule", "get_rule"} => HasRule(t), s.pc # "fallthrough",
         s.pc = "reporting" => handler'[t].pc \in Applying,
         \A u \in Calls \ {t} : handler'[u] = handler[u]
  PROVE  /\ (\A u \in Calls : Runs(u)') /\ UNCHANGED <<rule_db, client_state>>
         /\ \A u \in Calls \ {t} : call'[u] = call[u]
<1>1. /\ \A u \in Calls : call'[u] = IF u = t THEN s ELSE call[u]
      /\ UNCHANGED <<rule_db, client_state>>
  BY DEF ServiceInv, ServiceTypeOK, ClientTypeOK, Goto
<1> QED
  BY <1>1, RunningParts DEF Runs, HasRule, Applying

LEMMA CallsStayRunning ==
  ASSUME RunningInv, UNCHANGED call, \A c \in Clients : DOMAIN rule_db[c] \subseteq DOMAIN rule_db'[c],
         \A u \in Calls : handler'[u] = handler[u]
  PROVE  \A u \in Calls : Runs(u)'
<1>1. \A u \in Calls : u.client \in Clients
  BY CallFields
<1> QED
  BY <1>1, RunningParts DEF Runs, HasRule, Applying

LEMMA NoneAborted ==
  ASSUME ServiceInv, ThreadsInv, NEW t \in Calls, InProgress(t), UNCHANGED client_state
  PROVE  ~Abort(t.client)
BY CallFields DEF ThreadsInv, CallersServe, Abort, ServiceInv, ServiceTypeOK, ClientTypeOK

LEMMA CallStepRuns ==
  ASSUME RulesAccepted, ServiceInv, ThreadsInv, RunningInv, NEW t \in Calls,
         BeginCall(t) \/ CallStep(t)
  PROVE  /\ \A u \in Calls : Runs(u)'
         /\ UNCHANGED <<rule_db, client_state, master_up>>
         /\ \A u \in Calls \ {t} : call'[u] = call[u]
<1>1. UNCHANGED master_up /\ \A u \in Calls \ {t} : handler'[u] = handler[u]
  <2>1. UNCHANGED masterVars \/ Report(t) \/ Reported(t)
    BY CallStepMaster
  <2> QED
    BY <2>1, CallFields
       DEF masterVars, processVars, Report, Reported, ReceiveStorageChange, Receive, Consume, Become,
           ServiceInv, MasterInv, MasterTypeOK
<1> DEFINE Goal ==
             /\ (\A u \in Calls : Runs(u)') /\ UNCHANGED <<rule_db, client_state, master_up>>
             /\ \A u \in Calls \ {t} : call'[u] = call[u]
<1>2. ASSUME NEW s, Goto(t, s), s.pc \in {"has_rule", "get_rule"} => HasRule(t), s.pc # "fallthrough",
             s.pc = "reporting" => handler'[t].pc \in Applying
      PROVE  Goal
  BY <1>1, <1>2, GotoRuns
<1>3. CASE MakeCall(t) \/ HasMatchingRule(t)
  <2>1. Runs(t)
    BY RunningParts
  <2>2. \E pc \in {"has_rule", "get_rule"} : Goto(t, [pc |-> pc]) /\ HasRule(t)
    BY <1>3, <2>1 DEF MakeCall, HasMatchingRule, Runs
  <2> QED
    BY <1>2, <2>2
<1>4. CASE GetMatchingRule(t)
  <2>1. Runs(t)
    BY RunningParts
  <2> QED
    BY <1>2, <1>4, <2>1 DEF GetMatchingRule, Runs
<1>5. CASE ExecuteCopyAction(t)
  <2>1. PICK s : s = [call[t] EXCEPT !.pc = "copying"] /\ Goto(t, s) /\ call[t].pc = "action"
    BY <1>5 DEF ExecuteCopyAction, AtAction
  <2>2. s.pc = "copying"
    BY <2>1, RunningFields DEF ServiceInv, ServiceTypeOK
  <2> QED
    BY <1>2, <2>1, <2>2
<1>6. CASE ExecuteRemoveAction(t) \/ ExecutePutAction(t)
  <2>1. Goto(t, Executed(t)) /\ Executed(t).pc = "action"
    BY <1>6, ExecutedRuns DEF ExecuteRemoveAction, ExecutePutAction, PutAllowed, AtAction
  <2> QED
    BY <1>2, <2>1
<1>7. CASE FinishWrite(t)
  <2>1. CASE call[t].pc = "copying" /\ Goto(t, Executed(t))
    BY <1>2, <2>1, ExecutedRuns
  <2>2. CASE UNCHANGED clientVars
    <3>1. \A u \in Calls : handler'[u] = handler[u]
      BY <1>7 DEF FinishWrite, masterVars
    <3> QED
      BY <1>1, <2>2, <3>1, CallsStayRunning DEF clientVars
  <2> QED
    BY <1>7, <2>1, <2>2 DEF FinishWrite
<1>8. CASE SkipAction(t)
  BY <1>2, <1>8, SkippedFollows DEF SkipAction
<1>9. CASE Report(t)
  <2>1. /\ ReceiveStorageChange(t, call[t].change) /\ call[t].pc = "action"
        /\ Goto(t, [call[t] EXCEPT !.pc = "reporting"])
    BY <1>9 DEF Report, RunningInv
  <2>2. PICK s : s = [call[t] EXCEPT !.pc = "reporting"]
    OBVIOUS
  <2>3. s.pc = "reporting"
    BY <2>1, <2>2, RunningFields DEF ServiceInv, ServiceTypeOK
  <2>4. handler'[t] = ChangeHandler(call[t].change)
    BY <2>1, CallFields DEF ReceiveStorageChange, Receive, Become, ServiceInv, MasterInv, MasterTypeOK
  <2>5. handler'[t].pc \in Applying
    BY <2>4 DEF ChangeHandler, Applying
  <2> QED
    BY <1>2, <2>1, <2>2, <2>3, <2>5
<1>10. CASE Reported(t)
  <2>1. Runs(t) /\ call[t].pc = "reporting" /\ Answered(t)
    BY <1>10, RunningParts DEF Reported, Consume
  <2>2. handler[t] = Replied("OK")
    BY <2>1 DEF Runs, Answered, Applying
  <2>3. t.op = "GET" => LastIsGet(t)
    BY <2>1, CallRule DEF HasARule, RulesAccepted, Accepted, LastIsGet, LastAction
  <2>4. \/ Goto(t, Return("OK", ""))
        \/ Goto(t, [pc |-> "last", rule |-> call[t].rule])
    BY <1>10, <2>2, <2>3 DEF Reported
  <2>5. CASE Goto(t, Return("OK", ""))
    BY <1>2, <2>5 DEF Return
  <2>6. CASE Goto(t, [pc |-> "last", rule |-> call[t].rule])
    BY <1>2, <2>6
  <2> QED
    BY <2>4, <2>5, <2>6
<1>11. CASE ExecuteGetAction(t)
  <2>1. PICK m : Goto(t, Return("OK", ManagerGet(m, t.key)))
    BY <1>11 DEF ExecuteGetAction
  <2> QED
    BY <1>2, <2>1 DEF Return
<1>12. CASE BelatedWork(t)
  <2>1. \A u \in Calls : handler'[u] = handler[u]
    BY <1>12 DEF BelatedWork, masterVars
  <2> QED
    BY <1>1, <1>12, <2>1, CallsStayRunning DEF BelatedWork, clientVars
<1>13. Goal
  BY <1>3, <1>4, <1>5, <1>6, <1>7, <1>8, <1>9, <1>10, <1>11, <1>12, NoneRejected DEF BeginCall, CallStep
<1> QED
  BY <1>1, <1>13

LEMMA MasterStepRuns ==
  ASSUME RulesAccepted, ServiceInv, ThreadsInv, RunningInv, NEW t \in Threads,
         HandlerStep(t), UNCHANGED clientVars
  PROVE  RunningInv'
<1>1. Serves(t, handler[t]) /\ MasterInv
  BY DEF ThreadsInv, ServiceInv
<1>2. PICK h : Advances(t, handler[t], h) /\ Become(t, h)
  BY <1>1, HandlerAdvances, NeverDown
<1>3. \A u \in Threads : handler'[u] = IF u = t THEN h ELSE handler[u]
  BY <1>1, <1>2 DEF Become, MasterInv, MasterTypeOK
<1>4. ~Answered(t) /\ UNCHANGED master_up
  BY NeverDown
     DEF HandlerStep, LockTracker, AddPeer, AddManager, AddFile, FinishIntroduce, ApplyChange,
         RemoveFromDst, FinishStorageChange, FindClient, FillInRule, PopulateFiles, PopulateUris,
         Answered, Throw, processVars
<1>5. handler[t] # Replied("OK")
  BY <1>4 DEF Answered, Replied
<1>6. \A u \in Calls : Runs(u)'
  <2> TAKE u \in Calls
  <2>1. Runs(u) /\ u \in Threads
    BY RunningParts, CallFields
  <2>2. UNCHANGED <<call, rule_db>>
    BY DEF clientVars
  <2>3. CASE u # t
    BY <1>3, <2>1, <2>2, <2>3 DEF Runs, HasRule, Applying
  <2>4. CASE u = t /\ call[t].pc = "reporting"
    <3>1. h.pc \in Applying \/ h = Replied("OK")
      BY <1>2, <1>5, <2>1, <2>4 DEF Runs, Advances
    <3> QED
      BY <1>3, <2>1, <2>2, <2>4, <3>1 DEF Runs, HasRule, Applying
  <2>5. CASE u = t /\ call[t].pc # "reporting"
    BY <2>1, <2>2, <2>5 DEF Runs, HasRule
  <2> QED
    BY <2>3, <2>4, <2>5
<1> QED
  BY <1>4, <1>6, RunningParts DEF RunningInv, Runs, Applying

LEMMA ForwardRuleRuns ==
  ASSUME RulesAccepted, ServiceInv, ThreadsInv, RunningInv, NEW t \in Threads, ForwardRule(t)
  PROVE  /\ \A u \in Calls : Runs(u)'
         /\ UNCHANGED <<client_state, master_up>>
<1> PICK h : h = handler[t]
  OBVIOUS
<1>1. PICK status : Forward(t, status)
  BY DEF ForwardRule
<1>2. t \in Operators /\ h.rpc = "InstallRule"
  BY <1>1 DEF Forward, ThreadsInv, Serves, RulesAccepted
<1>3. (\A u \in Calls : handler'[u] = handler[u]) /\ UNCHANGED master_up
  BY <1>1, <1>2, ServiceAssumption
     DEF Forward, Become, processVars, ServiceInv, MasterInv, MasterTypeOK
<1>4. UNCHANGED <<call, client_state>>
  BY DEF ForwardRule, ClientRuleHandler, clientVars
<1>5. \A c \in Clients : DOMAIN rule_db[c] \subseteq DOMAIN rule_db'[c]
  <2>1. CASE UNCHANGED clientVars
    BY <2>1 DEF clientVars
  <2>2. CASE ClientRuleHandler(h)
    <3>1. \E r : AddRule(h.to, r)
      BY <1>2, <2>2 DEF ClientRuleHandler
    <3>2. PICK k, r : rule_db' = [rule_db EXCEPT ![h.to] = Bind(@, k, r)]
      BY <3>1 DEF AddRule
    <3>3. DOMAIN rule_db[h.to] \subseteq DOMAIN Bind(rule_db[h.to], k, r)
      BY DEF Bind
    <3> QED
      BY <3>2, <3>3 DEF ServiceInv, ServiceTypeOK, ClientTypeOK
  <2> QED
    BY <2>1, <2>2 DEF ForwardRule
<1> QED
  BY <1>3, <1>4, <1>5, CallsStayRunning

LEMMA CrashManagerRuns ==
  ASSUME RulesAccepted, ServiceInv, ThreadsInv, RunningInv, NEW m \in Managers, CrashManager(m)
  PROVE  \A u \in Calls : Runs(u)'
<1>1. PICK failed \in SUBSET {t \in Calls : InProgress(t) /\ CalledUris(t) # {}} :
        call' = [t \in Calls |-> IF t \in failed THEN AfterFailure(t) ELSE call[t]]
  BY DEF CrashManager
<1>2. UNCHANGED rule_db /\ \A u \in Calls : handler'[u] = handler[u]
  BY LeaveFrame, ServiceAssumption DEF CrashManager, Peers
<1>3. ASSUME NEW t \in failed
      PROVE  AfterFailure(t).pc \in {"action", "returned"}
  <2>1. \/ call[t].pc = "last" \/ call[t].pc = "copying"
        \/ call[t].pc = "action" /\ call[t].idx <= Limit(t)
    BY <1>3 DEF CalledUris, AtAction, PutAllowed
  <2> QED
    BY <2>1, ExecutedRuns DEF AfterFailure, Return
<1> QED
  BY <1>1, <1>2, <1>3, RunningParts DEF Runs, HasRule, Applying

LEMMA RunningNext ==
  ASSUME RulesAccepted, ServiceInv, ThreadsInv, RunningInv, [ServiceNext]_serviceVars
  PROVE  /\ RunningInv'
         /\ \A c \in Clients : client_state[c] = "serving" => client_state'[c] = "serving"
<1> DEFINE Serving == \A c \in Clients : client_state[c] = "serving" => client_state'[c] = "serving"
<1>1. RunningInv' <=> master_up' /\ \A t \in Calls : Runs(t)'
  BY DEF RunningInv, Runs, Applying
<1>2. ASSUME UNCHANGED <<call, rule_db, master_up>>, \A u \in Calls : handler'[u] = handler[u]
      PROVE  RunningInv'
  BY <1>1, <1>2, CallsStayRunning DEF RunningInv
<1>3. CASE UNCHANGED serviceVars
  BY <1>2, <1>3 DEF serviceVars, masterVars, processVars, clientVars
<1>4. CASE StartStep
  <2>1. \A p \in Peers : p \in Threads /\ p \notin Calls
    BY ServiceAssumption
  <2>2. UNCHANGED masterVars \/ \E p \in Peers : (\E s : Receive(p, s)) \/ Consume(p)
    BY <1>4, StartStepMaster DEF Peers, ReceiveIntroduce, ServiceInv, ServiceTypeOK
  <2>3. UNCHANGED master_up /\ \A u \in Calls : handler'[u] = handler[u]
    BY <2>1, <2>2, CallFields
       DEF masterVars, processVars, Receive, Consume, Become, ServiceInv, MasterInv, MasterTypeOK
  <2>4. UNCHANGED <<call, rule_db>> /\ Serving
    BY <1>4 DEF StartStep, BeginManagerStart, EndManagerStart, BeginClientStart, EndClientStart,
                clientVars, ServiceInv, ServiceTypeOK, ClientTypeOK
  <2> QED
    BY <1>2, <2>3, <2>4
<1>5. CASE \E m \in Managers : CrashManager(m)
  <2>1. PICK m \in Managers : CrashManager(m)
    BY <1>5
  <2>2. UNCHANGED <<master_up, client_state>>
    BY <2>1, LeaveFrame DEF CrashManager, Peers
  <2> QED
    BY <1>1, <2>1, <2>2, CrashManagerRuns DEF RunningInv
<1>6. ~\E c \in Clients : CrashClient(c)
  BY DEF CrashClient, Kill, RulesAccepted
<1>7. ASSUME NEW o \in Operators, Operate(o)
      PROVE  RunningInv' /\ Serving
  <2>1. o \notin Calls /\ o \in Threads
    BY ServiceAssumption
  <2>2. UNCHANGED master_up /\ \A u \in Calls : handler'[u] = handler[u]
    BY <1>7, <2>1, CallFields
       DEF Operate, ReceiveRule, Receive, Become, processVars, ServiceInv, MasterInv, MasterTypeOK
  <2> QED
    BY <1>2, <1>7, <2>2 DEF Operate, clientVars
<1>8. ASSUME NEW t \in Calls, BeginCall(t) \/ CallStep(t)
      PROVE  RunningInv' /\ Serving
  BY <1>1, <1>8, CallStepRuns DEF RunningInv
<1>11. ASSUME NEW v \in Viewers, Look(v)
       PROVE  RunningInv' /\ Serving
  <2>1. v \notin Calls /\ v \in Threads
    BY ServiceAssumption
  <2>2. UNCHANGED master_up /\ \A u \in Calls : handler'[u] = handler[u]
    BY <1>11, <2>1, CallFields
       DEF Look, ReceiveGetView, Receive, Become, processVars, ServiceInv, MasterInv, MasterTypeOK
  <2> QED
    BY <1>2, <1>11, <2>2 DEF Look, clientVars
<1>9. ASSUME NEW t \in Threads, MasterStep(t) \/ ForwardRule(t)
      PROVE  RunningInv' /\ Serving
  BY <1>1, <1>9, MasterStepRuns, ForwardRuleRuns DEF RunningInv, MasterStep, clientVars
<1>10. ~Terminate /\ ~MasterStart
  BY NeverDown DEF RunningInv, MasterStart
<1> QED
  BY <1>3, <1>4, <1>5, <1>6, <1>7, <1>8, <1>9, <1>10, <1>11 DEF ServiceNext, serviceVars, clientVars

LEMMA RunningInit == ServiceInit => RunningInv
BY DEF ServiceInit, MasterInit, ClientInit, RunningInv, NotMade

(* No assert of a client fails, as long as every rule is accepted by the   *)
(* switches of Get and Put, no rule is removed and the master stays up:    *)
(* whatever is installed while calls run, and whichever managers end       *)
(* (storage_client.cc: Get and Put).                                       *)
THEOREM ServiceClientsKeepRunning ==
  ASSUME RulesAccepted
  PROVE  ServiceSpec => ClientsKeepRunning
<1> DEFINE Inv == ServiceInv /\ ThreadsInv /\ RunningInv
           Serving == \A c \in Clients : client_state[c] = "serving" => client_state'[c] = "serving"
<1>1. ServiceInit => Inv
  BY ServiceInitInv, ThreadsInit, RunningInit
<1>2. Inv /\ [ServiceNext]_serviceVars => Inv'
  BY ServiceNextInv, ThreadsNext, RunningNext
<1>3. Inv /\ [ServiceNext]_serviceVars => [Serving]_serviceVars
  BY RunningNext
<1>4. ServiceSpec => [][Serving]_serviceVars
  BY <1>1, <1>2, <1>3, PTL DEF ServiceSpec
<1> QED
  BY <1>4 DEF ClientsKeepRunning

-----------------------------------------------------------------------------
(* Where files are put, and what is reported of it. *)

(* A manager that listens at the uri of a rule's manager is that manager.  *)
LEMMA UriNamed ==
  ASSUME NamesTellApart, ServiceInv, NEW t \in Calls, HasARule(call[t]),
         NEW i \in DOMAIN call[t].rule.rule.action,
         NEW j \in DOMAIN call[t].rule.rule.action[i].mgrs,
         call[t].rule.rule.action \in Seq(Actions),
         NEW m \in ListeningAt(call[t].rule.uri[<<i, j>>])
  PROVE  GenerateName(m) = call[t].rule.rule.action[i].mgrs[j]
<1> PICK s : s = <<i, j>>
  OBVIOUS
<1> PICK r : r = call[t].rule
  OBVIOUS
<1>1. s \in Slots(r.rule) /\ NameAt(r.rule, s) = r.rule.action[i].mgrs[j]
  <2>1. j \in 1..2
    <3>1. r.rule.action[i] \in Actions
      OBVIOUS
    <3> QED
      BY <3>1 DEF Actions
  <2> QED
    BY <2>1 DEF Slots, NameAt
<1>2. RouteOf(NameAt(r.rule, s), r.uri[s])
  BY <1>1 DEF ServiceInv, ClientInv, CallInv, Installed, Routed
<1>3. m \in Peers /\ Uri(m) = r.uri[s]
  BY DEF ListeningAt, Peers
<1> QED
  BY <1>1, <1>2, <1>3 DEF RouteOf, NamesTellApart

Puts(a, m, key) == a.type = "put" /\ a.key = key /\ a.mgrs[1] = GenerateName(m)

LEMMA PutsAtAppend ==
  ASSUME NEW change \in Seq(Actions), NEW a, NEW m, NEW key
  PROVE  PutsAt(Append(change, a), m, key) <=> PutsAt(change, m, key) \/ Puts(a, m, key)
<1> PICK longer : longer = Append(change, a)
  OBVIOUS
<1> PICK n : n = Len(change) + 1
  OBVIOUS
<1>1. /\ DOMAIN longer = DOMAIN change \cup {n} /\ longer[n] = a
      /\ \A i \in DOMAIN change : longer[i] = change[i]
  OBVIOUS
<1>2. PutsAt(longer, m, key) <=> PutsAt(change, m, key) \/ Puts(a, m, key)
  BY <1>1 DEF PutsAt, Puts
<1> QED
  BY <1>2

LEMMA PutsAtTail ==
  ASSUME NEW change \in Seq(Actions), change # <<>>, NEW m, NEW key
  PROVE  PutsAt(change, m, key) <=> Puts(Head(change), m, key) \/ PutsAt(Tail(change), m, key)
<1> PICK head, tail : head = Head(change) /\ tail = Tail(change)
  OBVIOUS
<1>1. /\ 1 \in DOMAIN change /\ head = change[1]
      /\ \A i \in DOMAIN tail : i + 1 \in DOMAIN change /\ tail[i] = change[i + 1]
      /\ \A i \in DOMAIN change : i = 1 \/ (i - 1 \in DOMAIN tail /\ tail[i - 1] = change[i])
  OBVIOUS
<1>2. PutsAt(change, m, key) => Puts(head, m, key) \/ PutsAt(tail, m, key)
  <2> SUFFICES ASSUME NEW i \in DOMAIN change, Puts(change[i], m, key)
               PROVE  Puts(head, m, key) \/ PutsAt(tail, m, key)
    BY DEF PutsAt, Puts
  <2> QED
    BY <1>1 DEF PutsAt, Puts
<1>3. Puts(head, m, key) \/ PutsAt(tail, m, key) => PutsAt(change, m, key)
  BY <1>1 DEF PutsAt, Puts
<1> QED
  BY <1>2, <1>3

LEMMA NothingPut ==
  ASSUME NEW m, NEW key
  PROVE  ~PutsAt(<<>>, m, key)
BY DEF PutsAt

LEMMA ViewAfterBind ==
  ASSUME NEW n, NEW files, manager_views' = Bind(manager_views, n, files)
  PROVE  \A p : ViewOf(p)' = IF p = n THEN files ELSE ViewOf(p)
BY DEF ViewOf, Bind

LEMMA ViewUnchanged ==
  ASSUME UNCHANGED manager_views
  PROVE  \A p : ViewOf(p)' = ViewOf(p)
BY DEF ViewOf

(* The actions that calls carry out and handlers apply copy and remove     *)
(* nothing.                                                                *)
LEMMA PlacedAction ==
  ASSUME RulesPlace, ServiceInv, ThreadsInv, NEW t \in Calls, call[t].pc \in {"action", "copying"},
         call[t].idx <= Len(call[t].rule.rule.action)
  PROVE  CurrentAction(t).type \notin {"copy_from", "remove"}
<1>1. call[t].rule.rule \in Rules
  BY CallRule DEF HasARule
<1>2. call[t].idx \in DOMAIN call[t].rule.rule.action
  BY CurrentActionType DEF ServiceInv, ServiceTypeOK
<1> QED
  BY <1>1, <1>2 DEF RulesPlace, CurrentAction

LEMMA PlacedChange ==
  ASSUME RulesPlace, ThreadsInv, NEW t \in Threads, handler[t].pc \in Applying
  PROVE  /\ t \in Calls
         /\ \A i \in DOMAIN handler[t].change :
              handler[t].change[i].type \notin {"copy_from", "remove"}
BY DEF ThreadsInv, Serves, Applying, MadeOf, RulesPlace

(* No call copies anything, and Executed only goes on.                     *)
LEMMA PlacedExecuted ==
  ASSUME RulesPlace, ServiceInv, ThreadsInv, NEW t \in Calls, call[t].pc \in {"action", "copying"},
         call[t].idx <= Len(call[t].rule.rule.action), CurrentAction(t).type # "not_set"
  PROVE  /\ Executed(t).pc = "action"
         /\ Executed(t).change = Append(call[t].change, CurrentAction(t))
         /\ call[t].change \in Seq(Actions)
<1>1. CurrentAction(t).type # "remove"
  BY PlacedAction
<1>2. Executed(t).pc = "action"
  BY <1>1, ExecutedInv DEF ServiceInv, ServiceTypeOK
<1> QED
  BY <1>2, ExecutedFollows, RunningFields DEF ServiceInv, ServiceTypeOK

-----------------------------------------------------------------------------
(* What the steps of calls and handlers do, when rules only put files in   *)
(* place.                                                                  *)

HasPut(t) ==
  \E m \in Managers :
    /\ call[t].pc = "action" /\ manager_state[m] = "serving"
    /\ Puts(CurrentAction(t), m, t.key)
    /\ ManagerPut(m, t.key, t.value)
    /\ Executed(t).pc = "action"
    /\ \A n, key : PutsAt(Executed(t).change, n, key) <=>
                     PutsAt(call[t].change, n, key) \/ Puts(CurrentAction(t), n, key)
    /\ Goto(t, Executed(t)) /\ UNCHANGED handler

SentReport(t) ==
  /\ call[t].pc = "action" /\ Become(t, ChangeHandler(call[t].change))
  /\ \E s : Goto(t, s) /\ s.pc = "reporting" /\ s.change = call[t].change
  /\ UNCHANGED store

TookAnswer(t) ==
  /\ call[t].pc = "reporting" /\ Answered(t) /\ Become(t, Idle)
  /\ Abort(t.client) \/ \E s : Goto(t, s) /\ s.pc \in {"last", "returned"}
  /\ UNCHANGED store

WentOn(t) ==
  /\ \/ Abort(t.client) /\ (call[t].pc \in {"has_rule", "get_rule"} \/ RejectAction(t) \/ ~master_up)
     \/ /\ call[t].pc # "reporting"
        /\ \E s : /\ Goto(t, s) /\ s.pc # "reporting"
                  /\ \A m, key : (s.pc = "action" /\ PutsAt(s.change, m, key)) <=>
                                   (call[t].pc = "action" /\ PutsAt(call[t].change, m, key))
  /\ UNCHANGED <<store, handler>>

LEMMA PutEffect ==
  ASSUME RulesPlace, NamesTellApart, ServiceInv, ThreadsInv, NEW t \in Calls, ExecutePutAction(t)
  PROVE  HasPut(t)
<1> PICK a : a = CurrentAction(t)
  OBVIOUS
<1>1. /\ call[t].pc = "action" /\ call[t].idx <= Len(call[t].rule.rule.action)
      /\ a.type = "put" /\ a.key = t.key
  BY AtActionFields DEF ExecutePutAction, PutAllowed, AtAction, ServiceInv, ServiceTypeOK
<1>2. PICK m \in ListeningAt(UriOf(t, 1)) : ManagerPut(m, t.key, t.value)
  BY DEF ExecutePutAction
<1>3. /\ call[t].idx \in DOMAIN call[t].rule.rule.action
      /\ a = call[t].rule.rule.action[call[t].idx] /\ a \in Actions
  BY <1>1, CurrentActionType DEF ServiceInv, ServiceTypeOK, CurrentAction
<1>4. 1 \in DOMAIN a.mgrs
  BY <1>1, <1>3 DEF Actions
<1>5. GenerateName(m) = a.mgrs[1]
  BY <1>1, <1>2, <1>3, <1>4, UriNamed, CallRule DEF HasARule, UriOf
<1>6. /\ Executed(t).pc = "action"
      /\ \A n, key : PutsAt(Executed(t).change, n, key) <=>
                       PutsAt(call[t].change, n, key) \/ Puts(a, n, key)
  BY <1>1, PlacedExecuted, PutsAtAppend
<1> QED
  BY <1>1, <1>2, <1>5, <1>6 DEF HasPut, Puts, ExecutePutAction, ListeningAt, masterVars

LEMMA GoesOn ==
  ASSUME NEW t, NEW s, Goto(t, s), call[t].pc # "reporting", s.pc # "reporting",
         \A m, key : (s.pc = "action" /\ PutsAt(s.change, m, key)) <=>
                      (call[t].pc = "action" /\ PutsAt(call[t].change, m, key)),
         UNCHANGED <<store, handler>>
  PROVE  WentOn(t)
BY DEF WentOn

(* A client that ends leaves its work undone; a call that goes on has none. *)
LeavesWork(t) == (InProgress(t) /\ Abort(t.client)) \/ UNCHANGED work

LEMMA CallEffect ==
  ASSUME RulesPlace, NamesTellApart, PlacedWork, ServiceInv, ThreadsInv, NEW t \in Calls,
         BeginCall(t) \/ CallStep(t)
  PROVE  \/ /\ HasPut(t) \/ SentReport(t) \/ TookAnswer(t) \/ WentOn(t)
            /\ UNCHANGED <<manager_state, manager_views>> /\ LeavesWork(t)
         \/ EndWrite(t) /\ UNCHANGED <<masterVars, clientVars>>
<1> USE DEF ServiceInv, ServiceTypeOK, LeavesWork
<1>1. CASE MakeCall(t) \/ HasMatchingRule(t)
  <2>1. UNCHANGED <<store, handler, manager_state, manager_views>> /\ LeavesWork(t)
    BY <1>1, AbortWork DEF MakeCall, HasMatchingRule, InProgress, masterVars, managerVars
  <2>2. CASE \E pc \in {"has_rule", "get_rule"} : Goto(t, [pc |-> pc])
    BY <1>1, <2>1, <2>2, GoesOn DEF MakeCall, HasMatchingRule, NotMade
  <2>3. CASE HasMatchingRule(t) /\ Abort(t.client)
    BY <2>1, <2>3 DEF HasMatchingRule, WentOn
  <2> QED
    BY <1>1, <2>1, <2>2, <2>3 DEF MakeCall, HasMatchingRule
<1>2. CASE GetMatchingRule(t)
  <2>1. /\ UNCHANGED <<store, handler, manager_state, manager_views>> /\ call[t].pc = "get_rule"
        /\ LeavesWork(t)
    BY <1>2, AbortWork DEF GetMatchingRule, InProgress, masterVars, managerVars
  <2>2. CASE Goto(t, Return("UNKNOWN", ""))
    BY <2>1, <2>2, GoesOn DEF Return
  <2>3. CASE Goto(t, [pc |-> "action", rule |-> rule_db[t.client][<<t.op, t.key>>], idx |-> 1,
                      change |-> <<>>])
    <3> PICK s : s = [pc |-> "action", rule |-> rule_db[t.client][<<t.op, t.key>>], idx |-> 1,
                      change |-> <<>>]
      OBVIOUS
    <3>1. s.pc = "action" /\ s.change = <<>>
      OBVIOUS
    <3>2. \A m, key : ~PutsAt(s.change, m, key)
      BY <3>1, NothingPut
    <3> QED
      BY <2>1, <2>3, <3>1, <3>2, GoesOn
  <2>4. CASE Abort(t.client)
    BY <2>1, <2>4 DEF WentOn
  <2> QED
    BY <1>2, <2>1, <2>2, <2>3, <2>4 DEF GetMatchingRule
<1>3. ~ExecuteCopyAction(t) /\ ~ExecuteRemoveAction(t)
  BY AtActionFields, PlacedAction DEF ExecuteCopyAction, ExecuteRemoveAction, AtAction
<1>4. CASE FinishWrite(t)
  <2>1. call[t].pc # "copying"
    BY PlacedAction DEF ThreadsInv, Follows, ClientInv, CallInv, CurrentAction
  <2> QED
    BY <1>4, <2>1 DEF FinishWrite
<1>11. ~BelatedWork(t)
  BY CallFields DEF BelatedWork, BeginFetch, EndRemove, PlacedWork
<1>5. CASE ExecutePutAction(t)
  BY <1>5, PutEffect DEF ExecutePutAction, masterVars
<1>6. CASE SkipAction(t)
  <2>1. call[t].pc = "action" /\ UNCHANGED <<store, handler, work, manager_state, manager_views>>
    BY <1>6 DEF SkipAction, AtAction, masterVars, managerVars
  <2>2. NextAction(t).pc = "action" /\ NextAction(t).change = call[t].change
    BY <2>1, NextActionInv
  <2> QED
    BY <1>6, <2>1, <2>2, GoesOn DEF SkipAction
<1>7. CASE RejectAction(t)
  <2>1. Abort(t.client) /\ InProgress(t) /\ UNCHANGED <<store, handler, manager_state, manager_views>>
    BY <1>7, AbortWork DEF RejectAction, AtAction, InProgress, masterVars
  <2> QED
    BY <1>7, <2>1 DEF WentOn
<1>8. CASE Report(t)
  <2>1. call[t].pc = "action" /\ UNCHANGED <<store, manager_state>> /\ LeavesWork(t)
    BY <1>8, AbortWork DEF Report, InProgress, managerVars
  <2>2. CASE ReceiveStorageChange(t, call[t].change) /\ Goto(t, [call[t] EXCEPT !.pc = "reporting"])
    <3> PICK s : s = [call[t] EXCEPT !.pc = "reporting"]
      OBVIOUS
    <3>1. s.pc = "reporting" /\ s.change = call[t].change
      BY <2>1, RunningFields
    <3>2. SentReport(t)
      BY <2>1, <2>2, <3>1 DEF SentReport, ReceiveStorageChange, Receive
    <3> QED
      BY <2>1, <2>2, <3>2 DEF ReceiveStorageChange, Receive
  <2>3. CASE ~master_up /\ Abort(t.client) /\ UNCHANGED masterVars
    BY <2>1, <2>3 DEF WentOn, masterVars
  <2> QED
    BY <1>8, <2>2, <2>3 DEF Report
<1>9. CASE Reported(t)
  <2>1. \/ Abort(t.client)
        \/ \E s : Goto(t, s) /\ s.pc \in {"last", "returned"}
    <3>1. Return("OK", "").pc = "returned" /\ [pc |-> "last", rule |-> call[t].rule].pc = "last"
      BY DEF Return
    <3>2. \/ Abort(t.client) \/ Goto(t, Return("OK", ""))
          \/ Goto(t, [pc |-> "last", rule |-> call[t].rule])
      BY <1>9 DEF Reported
    <3> QED
      BY <3>1, <3>2
  <2>2. UNCHANGED <<store, manager_state>> /\ LeavesWork(t)
    BY <1>9, AbortWork DEF Reported, InProgress, managerVars
  <2> QED
    BY <1>9, <2>1, <2>2 DEF Reported, Consume, TookAnswer
<1>10. CASE ExecuteGetAction(t)
  <2>1. PICK value : Goto(t, Return("OK", value))
    BY <1>10 DEF ExecuteGetAction
  <2>2. /\ call[t].pc = "last"
        /\ UNCHANGED <<store, handler, work, manager_state, manager_views>>
    BY <1>10 DEF ExecuteGetAction, masterVars, managerVars
  <2> QED
    BY <2>1, <2>2, GoesOn DEF Return
<1> QED
  BY <1>1, <1>2, <1>3, <1>4, <1>5, <1>6, <1>7, <1>8, <1>9, <1>10, <1>11 DEF BeginCall, CallStep

Introducing == {"AddPeer", "AddingPeer", "AddManager", "AddFiles"}

(* A manager's introduction goes on, that of a manager which waits for it  *)
(* or one that a killed manager has left.                                  *)
IntroducesManager(t) ==
  /\ handler[t] \in IntroduceHandlers /\ handler[t].peer \in Managers
  /\ t = handler[t].peer \/ (t \in Abandoned /\ t.killed = handler[t].peer)
  /\ LockTracker(t) \/ AddPeer(t) \/ AddManager(t) \/ AddFile(t) \/ FinishIntroduce(t)

(* The handler of a call applies the head of its change.                   *)
Applies(t) ==
  LET change == handler[t].change
      a == Head(change) IN
  /\ t \in Calls /\ handler[t].pc = "StorageChange"
  /\ change \in Seq(Actions) /\ change # <<>>
  /\ \/ /\ a.type = "put"
        /\ manager_views' = Bind(manager_views, a.mgrs[1], ViewOf(a.mgrs[1]) \cup {a.key})
     \/ a.type # "put" /\ UNCHANGED manager_views
  /\ Become(t, ChangeHandler(Tail(change)))

LeavesViews(t) ==
  /\ UNCHANGED manager_views
  /\ handler[t].pc = "StorageChange" => handler[t].change = <<>>
  /\ \E h : /\ Become(t, h) /\ h.pc # "StorageChange"
            /\ t \in Managers => h.pc \notin Introducing /\ h # Replied("OK")

(* The handler of a call is one for its report.                            *)
AppliesReport(t) ==
  /\ t \in Calls /\ handler[t].pc \in Applying /\ handler[t].change \in Seq(Actions)
  /\ ApplyChange(t) \/ RemoveFromDst(t) \/ FinishStorageChange(t)

LEMMA HandlerKinds ==
  ASSUME ServiceInv, ThreadsInv, NEW t \in Threads, HandlerStep(t)
  PROVE  \/ Terminate \/ IntroducesManager(t) \/ AppliesReport(t)
         \/ LeavesViews(t) /\ handler[t].pc \notin Applying /\ handler'[t].pc \notin Applying
<1>1. /\ MasterInv /\ handler[t] \in HandlerStates
      /\ Serves(t, handler[t])
      /\ \A h : Become(t, h) => handler'[t] = h
  BY DEF ServiceInv, MasterInv, MasterTypeOK, ThreadsInv, Become
<1>2. \A status : Replied(status).pc = "replied"
  BY DEF Replied
<1>3. ASSUME LockTracker(t) \/ AddPeer(t) \/ AddManager(t) \/ AddFile(t) \/ FinishIntroduce(t)
      PROVE  \/ IntroducesManager(t)
             \/ LeavesViews(t) /\ handler[t].pc \notin Applying /\ handler'[t].pc \notin Applying
  <2>1. /\ handler[t] \in IntroduceHandlers
        /\ t = handler[t].peer \/ (t \in Abandoned /\ t.killed = handler[t].peer)
    BY <1>1, <1>3, HandlerFields DEF Serves, LockTracker, AddPeer, AddManager, AddFile, FinishIntroduce
  <2>2. CASE handler[t].peer \in Managers
    BY <1>3, <2>1, <2>2 DEF IntroducesManager
  <2>3. CASE handler[t].peer \notin Managers
    <3>1. LockTracker(t) \/ AddPeer(t)
      BY <1>1, <1>3, <2>3 DEF Serves, AddManager, AddFile, FinishIntroduce
    <3>2. UNCHANGED manager_views /\ handler[t].pc \notin Applying
      BY <3>1 DEF LockTracker, AddPeer, Applying
    <3>3. PICK h : Become(t, h) /\ (h = [handler[t] EXCEPT !.pc = "AddingPeer"] \/ h = Replied("OK"))
      BY <2>1, <2>3, <3>1 DEF LockTracker, AddPeer
    <3>4. h.pc \notin Applying
      BY <1>2, <2>1, <3>3 DEF IntroduceHandlers, Applying
    <3> QED
      BY <1>1, <2>1, <2>3, <3>2, <3>3, <3>4, ServiceAssumption DEF LeavesViews, Applying, Peers
  <2> QED
    BY <2>2, <2>3
<1>4. ASSUME ApplyChange(t) \/ RemoveFromDst(t) \/ FinishStorageChange(t)
      PROVE  AppliesReport(t)
  <2>1. handler[t].pc \in Applying /\ handler[t].change \in Seq(Actions)
    BY <1>1, <1>4, HandlerFields DEF ApplyChange, RemoveFromDst, FinishStorageChange, Applying
  <2>2. t \in Calls
    BY <1>1, <2>1 DEF Serves, Applying
  <2> QED
    BY <1>4, <2>1, <2>2 DEF AppliesReport
<1>5. ASSUME FindClient(t) \/ FillInRule(t) \/ PopulateFiles(t) \/ PopulateUris(t)
      PROVE  \/ Terminate
             \/ LeavesViews(t) /\ handler[t].pc \notin Applying /\ handler'[t].pc \notin Applying
  <2>1. handler[t].pc \in {"FindClient", "FillInRule", "PopulateFiles", "PopulateUris"}
    BY <1>5 DEF FindClient, FillInRule, PopulateFiles, PopulateUris
  <2>2. ASSUME NEW h, Become(t, h), UNCHANGED manager_views,
               h.pc \in {"FillInRule", "PopulateUris", "viewed"} \/ h = Replied("UNKNOWN")
        PROVE  LeavesViews(t) /\ handler[t].pc \notin Applying /\ handler'[t].pc \notin Applying
    <3>1. h # Replied("OK") /\ h.pc \notin Applying \cup Introducing
      BY <1>2, <2>2 DEF Replied, Introducing, Applying
    <3> QED
      BY <1>1, <2>1, <2>2, <3>1 DEF LeavesViews, Applying
  <2>3. Throw(t) => \/ Terminate
                    \/ LeavesViews(t) /\ handler[t].pc \notin Applying /\ handler'[t].pc \notin Applying
    BY <2>2 DEF Throw
  <2>4. CASE FindClient(t) \/ PopulateFiles(t) \/ PopulateUris(t)
    BY <2>2, <2>3, <2>4 DEF FindClient, PopulateFiles, PopulateUris
  <2>5. CASE FillInRule(t)
    <3>1. handler[t] \in RuleHandlers /\ handler[t].pc = "FillInRule"
      BY <1>1, <2>5, HandlerFields DEF FillInRule
    <3>2. \A uri : [handler[t] EXCEPT !.uri = uri].pc = "FillInRule"
      BY <3>1 DEF RuleHandlers
    <3>3. Throw(t) \/ (UNCHANGED manager_views /\ \E uri : Become(t, [handler[t] EXCEPT !.uri = uri]))
      BY <2>5 DEF FillInRule
    <3> QED
      BY <2>2, <2>3, <3>2, <3>3
  <2> QED
    BY <1>5, <2>4, <2>5
<1> QED
  BY <1>3, <1>4, <1>5 DEF HandlerStep

LEMMA HandlerEffect ==
  ASSUME RulesPlace, ServiceInv, ThreadsInv, NEW t \in Threads, HandlerStep(t)
  PROVE  Terminate \/ IntroducesManager(t) \/ Applies(t) \/ LeavesViews(t)
<1>1. CASE AppliesReport(t)
  <2>1. /\ handler[t].pc \in Applying /\ handler[t].change \in Seq(Actions)
        /\ t \in Calls /\ t \notin Managers
        /\ handler[t].change # <<>> => Head(handler[t].change).type \notin {"copy_from", "remove"}
    BY <1>1, PlacedChange, ServiceAssumption DEF AppliesReport, Peers
  <2>2. ~RemoveFromDst(t)
    BY <2>1 DEF RemoveFromDst, ServiceInv, MasterInv, HandlerInv
  <2>3. CASE ApplyChange(t)
    BY <2>1, <2>3 DEF ApplyChange, AddFileToManager, Applies
  <2>4. CASE FinishStorageChange(t)
    <3>1. Replied("OK").pc = "replied"
      BY DEF Replied
    <3> QED
      BY <2>1, <2>4, <3>1 DEF FinishStorageChange, LeavesViews
  <2> QED
    BY <1>1, <2>2, <2>3, <2>4 DEF AppliesReport
<1> QED
  BY <1>1, HandlerKinds

-----------------------------------------------------------------------------
(* ViewsMissNothing: a file is put in place before it is reported, and the *)
(* report lasts until the view shows the file. *)

FilesShown(m) ==
  LET files == DOMAIN store[m]
      view == ViewOf(GenerateName(m)) IN
  /\ handler[m].pc \in {"AddPeer", "AddingPeer", "AddManager"} => files \subseteq handler[m].file
  /\ handler[m].pc = "AddFiles" => files \subseteq handler[m].file \cup view
  /\ handler[m] = Replied("OK") => files \subseteq view
  /\ manager_state[m] = "serving" =>
       \A key \in files : key \in view \/ \E t \in Calls : Unreported(t, m, key)

ShownOrLeft(m) == LeftIntroduction(m) \/ FilesShown(m)

LEMMA ShownParts == FilesShownInv <=> NoWorkLeft /\ \A m \in Managers : ShownOrLeft(m)
BY DEF FilesShownInv, ShownOrLeft, FilesShown

LEMMA ShownByParts ==
  ASSUME NoWorkLeft', \A m \in Managers : ShownOrLeft(m)'
  PROVE  FilesShownInv'
BY DEF FilesShownInv, ShownOrLeft, FilesShown

LEMMA ManagersAreNoCalls ==
  /\ \A m \in Managers : /\ m \in Threads /\ m \in Peers
                          /\ m \notin Calls \cup Operators \cup Viewers \cup Abandoned
  /\ \A c \in Clients : /\ c \in Threads /\ c \in Peers
                         /\ c \notin Managers \cup Calls \cup Operators \cup Abandoned
  /\ \A o \in Operators \cup Viewers : o \in Threads /\ o \notin Calls \cup Managers \cup Abandoned
  /\ \A o \in Abandoned : o \in Threads /\ o \notin Calls
BY ServiceAssumption DEF Peers, Managers, Clients

(* An introduction that was left behind and has cleared the view goes on   *)
(* with its files, and keeps its answer.                                   *)
LeftStays ==
  \A o \in Abandoned :
    handler[o].pc = "AddFiles" \/ Answered(o) => handler'[o].pc = "AddFiles" \/ Answered(o)'

LEMMA LeftOnes ==
  ASSUME LeftStays, NEW m
  PROVE  LeftIntroduction(m) => LeftIntroduction(m)'
BY DEF LeftStays, LeftIntroduction

LEMMA LeftAlone ==
  ASSUME \A o \in Abandoned : handler'[o] = handler[o] \/ handler[o] = Idle
  PROVE  LeftStays
BY DEF LeftStays, Answered, Idle

LEMMA LeftByHandlers ==
  ASSUME ServiceInv, NEW t \in Threads, HandlerStep(t), ~Terminate
  PROVE  LeftStays
<1>1. handler[t] \in HandlerStates /\ \A h : Become(t, h) => handler'[t] = h
  BY DEF ServiceInv, MasterInv, MasterTypeOK, Become
<1>2. ~Answered(t)
  BY DEF HandlerStep, LockTracker, AddPeer, AddManager, AddFile, FinishIntroduce, ApplyChange,
         RemoveFromDst, FinishStorageChange, FindClient, FillInRule, PopulateFiles, PopulateUris,
         Answered
<1>3. \A u \in Threads \ {t} : handler'[u] = handler[u]
  <2>1. \E h : Become(t, h)
    BY DEF HandlerStep, LockTracker, AddPeer, AddManager, AddFile, FinishIntroduce, ApplyChange,
           RemoveFromDst, FinishStorageChange, FindClient, FillInRule, PopulateFiles, PopulateUris,
           Throw
  <2> QED
    BY <2>1 DEF Become, ServiceInv, MasterInv, MasterTypeOK
<1>4. ASSUME handler[t].pc = "AddFiles"
      PROVE  handler'[t].pc \in {"AddFiles", "replied"}
  <2>1. AddFile(t) \/ FinishIntroduce(t)
    BY <1>4 DEF HandlerStep, LockTracker, AddPeer, AddManager, ApplyChange, RemoveFromDst,
                FinishStorageChange, FindClient, FillInRule, PopulateFiles, PopulateUris
  <2>2. CASE AddFile(t)
    <3>1. \E key : handler'[t] = [handler[t] EXCEPT !.file = @ \ {key}]
      BY <1>1, <2>2 DEF AddFile
    <3>2. handler[t] \in IntroduceHandlers
      BY <1>1, <1>4, HandlerFields
    <3> QED
      BY <1>4, <3>1, <3>2 DEF IntroduceHandlers
  <2>3. CASE FinishIntroduce(t)
    BY <1>1, <2>3 DEF FinishIntroduce, Replied
  <2> QED
    BY <2>1, <2>2, <2>3
<1> QED
  BY <1>2, <1>3, <1>4, ManagersAreNoCalls DEF LeftStays, Answered

(* A step that hides no file and loses no report.                          *)
LEMMA ShownStep ==
  ASSUME ThreadsInv, FilesShownInv, NEW m \in Managers, LeftStays,
         \/ handler'[m] = handler[m]
         \/ handler'[m].pc \notin Introducing /\ handler'[m] # Replied("OK"),
         \A key : Shows(m, key) => Shows(m, key)',
         manager_state'[m] = "serving" => manager_state[m] = "serving" \/ handler[m] = Replied("OK"),
         \A key \in DOMAIN store'[m] :
           \/ key \in DOMAIN store[m]
           \/ manager_state[m] = "serving" /\ \E t \in Calls : Unreported(t, m, key)',
         \A t \in Calls, key \in DOMAIN store[m] :
           Unreported(t, m, key) => Unreported(t, m, key)' \/ Shows(m, key)'
  PROVE  ShownOrLeft(m)'
<1> SUFFICES ASSUME ~LeftIntroduction(m) PROVE FilesShown(m)'
  BY LeftOnes DEF ShownOrLeft
<1>1. FilesShown(m)
  BY ShownParts DEF ShownOrLeft
<1>2. ASSUME handler'[m] = handler[m], handler[m].pc \in Introducing \/ handler[m] = Replied("OK")
      PROVE  DOMAIN store'[m] \subseteq DOMAIN store[m]
  <2>1. handler[m] # Idle
    BY <1>2 DEF Introducing, Replied, Idle
  <2>2. manager_state[m] = "introducing"
    BY <2>1 DEF ThreadsInv, PeersIntroduce
  <2> QED
    BY <2>2
<1>3. handler'[m].pc \in {"AddPeer", "AddingPeer", "AddManager"} =>
        DOMAIN store'[m] \subseteq handler'[m].file
  BY <1>1, <1>2 DEF FilesShown, Introducing
<1>4. handler'[m].pc = "AddFiles" => DOMAIN store'[m] \subseteq handler'[m].file \cup ViewOf(GenerateName(m))'
  BY <1>1, <1>2 DEF FilesShown, Introducing, Shows
<1>5. handler'[m] = Replied("OK") => DOMAIN store'[m] \subseteq ViewOf(GenerateName(m))'
  BY <1>1, <1>2 DEF FilesShown, Shows
<1>6. ASSUME manager_state'[m] = "serving", NEW key \in DOMAIN store'[m]
      PROVE  Shows(m, key)' \/ \E t \in Calls : Unreported(t, m, key)'
  BY <1>1, <1>6 DEF FilesShown, Shows
<1> QED
  BY <1>3, <1>4, <1>5, <1>6 DEF FilesShown, Shows

(* The handler that introduces manager m.                                  *)
LEMMA IntroduceShows ==
  ASSUME ServiceInv, ThreadsInv, NEW m \in Managers, IntroducesManager(m), FilesShown(m),
         UNCHANGED <<store, manager_state>>
  PROVE  FilesShown(m)'
<1> PICK g : g = handler[m]
  OBVIOUS
<1> PICK n : n = GenerateName(m)
  OBVIOUS
<1>1. /\ FilesShown(m) /\ g \in IntroduceHandlers /\ g.peer = m
      /\ \A h : Become(m, h) => handler'[m] = h
  BY ManagersAreNoCalls DEF IntroducesManager, Become, ServiceInv, MasterInv, MasterTypeOK
<1>2. manager_state'[m] # "serving"
  <2>1. g # Idle
    BY <1>1 DEF IntroduceHandlers, Idle
  <2> QED
    BY <2>1 DEF ThreadsInv, PeersIntroduce
<1>3. \A status : Replied(status).pc = "replied"
  BY DEF Replied
<1>4. ASSUME NEW h, handler'[m] = h,
             h.pc \in {"AddPeer", "AddingPeer", "AddManager"} => DOMAIN store[m] \subseteq h.file,
             h.pc = "AddFiles" => DOMAIN store[m] \subseteq h.file \cup ViewOf(n)',
             h.pc = "replied" => DOMAIN store[m] \subseteq ViewOf(n)'
      PROVE  FilesShown(m)'
  BY <1>2, <1>3, <1>4 DEF FilesShown
<1>5. CASE LockTracker(m)
  <2>1. PICK h : h = [g EXCEPT !.pc = "AddingPeer"] /\ handler'[m] = h /\ g.pc = "AddPeer"
    BY <1>1, <1>5 DEF LockTracker
  <2>2. h.pc = "AddingPeer" /\ h.file = g.file
    BY <1>1, <2>1 DEF IntroduceHandlers
  <2> QED
    BY <1>1, <1>4, <2>1, <2>2 DEF FilesShown
<1>6. CASE AddPeer(m)
  <2>1. PICK h : h = [g EXCEPT !.pc = "AddManager"] /\ handler'[m] = h /\ g.pc = "AddingPeer"
    BY <1>1, <1>6 DEF AddPeer
  <2>2. h.pc = "AddManager" /\ h.file = g.file
    BY <1>1, <2>1 DEF IntroduceHandlers
  <2> QED
    BY <1>1, <1>4, <2>1, <2>2 DEF FilesShown
<1>7. CASE AddManager(m)
  <2>1. PICK h : h = [g EXCEPT !.pc = "AddFiles"] /\ handler'[m] = h /\ g.pc = "AddManager"
    BY <1>1, <1>7 DEF AddManager
  <2>2. h.pc = "AddFiles" /\ h.file = g.file
    BY <1>1, <2>1 DEF IntroduceHandlers
  <2> QED
    BY <1>1, <1>4, <2>1, <2>2 DEF FilesShown
<1>8. CASE AddFile(m)
  <2>1. PICK key \in g.file :
          /\ manager_views' = Bind(manager_views, n, ViewOf(n) \cup {key})
          /\ handler'[m] = [g EXCEPT !.file = @ \ {key}] /\ g.pc = "AddFiles"
    BY <1>1, <1>8 DEF AddFile, AddFileToManager
  <2>2. PICK h : h = [g EXCEPT !.file = @ \ {key}]
    OBVIOUS
  <2>3. h.pc = "AddFiles" /\ h.file = g.file \ {key}
    BY <1>1, <2>1, <2>2 DEF IntroduceHandlers
  <2>4. ViewOf(n)' = ViewOf(n) \cup {key}
    BY <2>1, ViewAfterBind
  <2> QED
    BY <1>1, <1>4, <2>1, <2>2, <2>3, <2>4 DEF FilesShown
<1>9. CASE FinishIntroduce(m)
  <2>1. /\ g.pc = "AddFiles" /\ g.file = {} /\ handler'[m] = Replied("OK")
        /\ UNCHANGED manager_views
    BY <1>1, <1>9 DEF FinishIntroduce
  <2> QED
    BY <1>1, <1>3, <1>4, <2>1, ViewUnchanged DEF FilesShown
<1> QED
  BY <1>5, <1>6, <1>7, <1>8, <1>9 DEF IntroducesManager

(* The introduction that a killed manager m has left behind.               *)
LEMMA LeftShows ==
  ASSUME ServiceInv, ThreadsInv, FilesShownInv, NEW m \in Managers, NEW t \in Abandoned,
         IntroducesManager(t), handler[t].peer = m, LeftStays,
         UNCHANGED <<store, manager_state, call>>
  PROVE  ShownOrLeft(m)'
<1> PICK g : g = handler[t]
  OBVIOUS
<1>1. /\ g \in IntroduceHandlers /\ t.killed = m /\ t \in Threads
      /\ \A h : Become(t, h) => handler'[t] = h
  BY ManagersAreNoCalls DEF IntroducesManager, Become, ServiceInv, MasterInv, MasterTypeOK
<1>2. CASE LockTracker(t) \/ AddPeer(t)
  <2>1. UNCHANGED manager_views /\ \E h : Become(t, h)
    BY <1>2 DEF LockTracker, AddPeer
  <2>2. \A u \in Threads \ {t} : handler'[u] = handler[u]
    BY <2>1 DEF Become, ServiceInv, MasterInv, MasterTypeOK
  <2>3. handler'[m] = handler[m] /\ \A u \in Calls : handler'[u] = handler[u]
    BY <2>2, ManagersAreNoCalls, CallFields
  <2>4. \A u \in Calls : \A key : Unreported(u, m, key) => Unreported(u, m, key)'
    BY <2>3 DEF Unreported
  <2> QED
    BY <2>1, <2>3, <2>4, ShownStep, ViewUnchanged DEF Shows
<1>3. CASE AddManager(t)
  <2>1. handler'[t].pc = "AddFiles"
    BY <1>1, <1>3 DEF AddManager, IntroduceHandlers
  <2> QED
    BY <1>1, <2>1 DEF ShownOrLeft, LeftIntroduction
<1>4. CASE AddFile(t) \/ FinishIntroduce(t)
  <2>1. LeftIntroduction(m)
    BY <1>1, <1>4 DEF AddFile, FinishIntroduce, LeftIntroduction
  <2> QED
    BY <2>1, LeftOnes DEF ShownOrLeft
<1> QED
  BY <1>2, <1>3, <1>4 DEF IntroducesManager

(* What the handler for another manager does to the views.                 *)
LEMMA IntroducesOther ==
  ASSUME NamesTellApart, NEW t, IntroducesManager(t), NEW m \in Managers, m # handler[t].peer
  PROVE  /\ ViewOf(GenerateName(m))' = ViewOf(GenerateName(m))
         /\ \A key : Shows(m, key) <=> Shows(m, key)'
<1> PICK n : n = handler[t].peer
  OBVIOUS
<1>1. GenerateName(m) # GenerateName(n)
  BY DEF IntroducesManager, NamesTellApart, Peers
<1>2. \/ UNCHANGED manager_views
      \/ \E files : manager_views' = Bind(manager_views, GenerateName(n), files)
  BY DEF IntroducesManager, LockTracker, AddPeer, AddManager, AddFile, FinishIntroduce, AddFileToManager
<1> QED
  BY <1>1, <1>2, ViewAfterBind, ViewUnchanged DEF Shows

LEMMA CallMisses ==
  ASSUME NEW t \in Calls, \A u \in Calls \ {t} : call'[u] = call[u] /\ handler'[u] = handler[u],
         \A m, key : Unreported(t, m, key) => Unreported(t, m, key)' \/ Shows(m, key)'
  PROVE  \A u \in Calls : \A m, key : Unreported(u, m, key) => Unreported(u, m, key)' \/ Shows(m, key)'
BY DEF Unreported

LEMMA CallStepShows ==
  ASSUME RulesAccepted, RulesPlace, NamesTellApart, ServiceInv, ThreadsInv, RunningInv,
         FilesShownInv, NEW t \in Calls, BeginCall(t) \/ CallStep(t)
  PROVE  FilesShownInv'
<1>2. /\ UNCHANGED <<master_up, client_state>>
      /\ \A u \in Calls \ {t} : call'[u] = call[u]
  BY CallStepRuns
<1>1. /\ HasPut(t) \/ SentReport(t) \/ TookAnswer(t) \/ WentOn(t)
      /\ UNCHANGED <<work, manager_state, manager_views>>
  <2>1. PlacedWork /\ ~EndWrite(t)
    BY CallFields DEF FilesShownInv, NoWorkLeft, NoWork, PlacedWork, EndWrite
  <2> QED
    BY <1>2, <2>1, CallEffect, NoneAborted DEF LeavesWork
<1>3. \A u \in Threads \ {t} : handler'[u] = handler[u]
  BY <1>1 DEF HasPut, SentReport, TookAnswer, WentOn, Become, ServiceInv, MasterInv, MasterTypeOK
<1>4. \A s : Goto(t, s) => call'[t] = s
  BY DEF Goto, ServiceInv, ServiceTypeOK, ClientTypeOK
<1>5. \A h : Become(t, h) => handler'[t] = h
  BY CallFields DEF Become, ServiceInv, MasterInv, MasterTypeOK
<1>6. \A m, key : Unreported(t, m, key) => Unreported(t, m, key)'
  <2>1. CASE HasPut(t)
    BY <1>4, <2>1 DEF HasPut, Unreported
  <2>2. CASE SentReport(t)
    <3>1. /\ call[t].pc = "action" /\ call'[t].pc = "reporting"
          /\ handler'[t] = ChangeHandler(call[t].change)
      BY <1>4, <1>5, <2>2 DEF SentReport
    <3> QED
      BY <3>1 DEF Unreported, ChangeHandler
  <2>3. CASE TookAnswer(t)
    BY <2>3 DEF TookAnswer, Unreported, Answered
  <2>4. CASE WentOn(t)
    <3>1. CASE call[t].pc \in {"has_rule", "get_rule"}
      BY <3>1 DEF Unreported
    <3>2. CASE call[t].pc # "reporting" /\ \E s :
                 /\ Goto(t, s)
                 /\ \A m, key : (s.pc = "action" /\ PutsAt(s.change, m, key)) <=>
                                  (call[t].pc = "action" /\ PutsAt(call[t].change, m, key))
      BY <1>4, <3>2 DEF Unreported
    <3> QED
      BY <2>4, <3>1, <3>2, NoneRejected DEF WentOn, RunningInv
  <2> QED
    BY <1>1, <2>1, <2>2, <2>3, <2>4
<1>7. \A u \in Calls : \A m, key : Unreported(u, m, key) => Unreported(u, m, key)' \/ Shows(m, key)'
  BY <1>2, <1>3, <1>6, CallMisses, CallFields
<1>8. ASSUME NEW m \in Managers, NEW key \in DOMAIN store'[m]
      PROVE  \/ key \in DOMAIN store[m]
             \/ manager_state[m] = "serving" /\ \E u \in Calls : Unreported(u, m, key)'
  <2>1. CASE HasPut(t)
    <3>1. PICK n \in Managers :
            /\ call[t].pc = "action" /\ manager_state[n] = "serving"
            /\ Puts(CurrentAction(t), n, t.key)
            /\ ManagerPut(n, t.key, t.value)
            /\ Executed(t).pc = "action"
            /\ \A k : PutsAt(Executed(t).change, n, k) <=>
                        PutsAt(call[t].change, n, k) \/ Puts(CurrentAction(t), n, k)
            /\ Goto(t, Executed(t))
      BY <2>1 DEF HasPut
    <3>2. DOMAIN store'[m] \subseteq IF m = n THEN DOMAIN store[m] \cup {t.key} ELSE DOMAIN store[m]
      BY <3>1 DEF ManagerPut, Write, Bind, ServiceInv, ServiceTypeOK, ManagerTypeOK
    <3>3. Unreported(t, n, t.key)'
      BY <1>4, <3>1 DEF Unreported
    <3> QED
      BY <1>8, <3>1, <3>2, <3>3
  <2>2. CASE UNCHANGED store
    BY <1>8, <2>2
  <2> QED
    BY <1>1, <2>1, <2>2 DEF SentReport, TookAnswer, WentOn
<1>9. ASSUME NEW m \in Managers
      PROVE  ShownOrLeft(m)'
  <2>1. handler'[m] = handler[m] /\ LeftStays
    BY <1>3, ManagersAreNoCalls, LeftAlone
  <2>2. \A key : Shows(m, key) => Shows(m, key)'
    BY <1>1, ViewUnchanged DEF Shows
  <2> QED
    BY <1>1, <1>7, <1>8, <2>1, <2>2, ShownStep
<1>10. NoWorkLeft'
  BY <1>1 DEF FilesShownInv, NoWorkLeft
<1> QED
  BY <1>9, <1>10, ShownByParts

LEMMA HandlerStepShows ==
  ASSUME RulesAccepted, RulesPlace, NamesTellApart, ServiceInv, ThreadsInv, FilesShownInv,
         NEW t \in Threads, HandlerStep(t), UNCHANGED <<managerVars, clientVars>>
  PROVE  FilesShownInv'
<1>1. IntroducesManager(t) \/ Applies(t) \/ LeavesViews(t)
  BY HandlerEffect, NeverDown
<1>2. PICK h : Become(t, h)
  BY <1>1 DEF IntroducesManager, Applies, LeavesViews, LockTracker, AddPeer, AddManager, AddFile,
              FinishIntroduce
<1>3. \A u \in Threads : handler'[u] = IF u = t THEN h ELSE handler[u]
  BY <1>2 DEF Become, ServiceInv, MasterInv, MasterTypeOK
<1>4. UNCHANGED <<store, manager_state, work, call>>
  BY DEF managerVars, clientVars
<1>5. \A g : Become(t, g) => handler'[t] = g
  BY DEF Become, ServiceInv, MasterInv, MasterTypeOK
<1>0. LeftStays
  BY LeftByHandlers, NeverDown
<1>6. ASSUME NEW m \in Managers,
             \/ handler'[m] = handler[m]
             \/ handler'[m].pc \notin Introducing /\ handler'[m] # Replied("OK"),
             \A key : Shows(m, key) => Shows(m, key)',
             \A u \in Calls : \A key :
               Unreported(u, m, key) => Unreported(u, m, key)' \/ Shows(m, key)'
      PROVE  ShownOrLeft(m)'
  BY <1>0, <1>4, <1>6, ShownStep
<1>7. ASSUME NEW m \in Managers
      PROVE  ShownOrLeft(m)'
  <2>1. CASE IntroducesManager(t)
    <3>1. CASE m = t
      <4>1. ShownOrLeft(m)
        BY ShownParts
      <4> QED
        BY <1>0, <1>4, <2>1, <3>1, <4>1, IntroduceShows, LeftOnes DEF ShownOrLeft
    <3>3. CASE m = handler[t].peer /\ m # t
      <4>1. t \in Abandoned
        BY <2>1, <3>3 DEF IntroducesManager
      <4> QED
        BY <1>0, <1>4, <2>1, <3>3, <4>1, LeftShows
    <3>2. CASE m # handler[t].peer /\ m # t
      <4>1. handler'[m] = handler[m] /\ \A u \in Calls : handler'[u] = handler[u]
        BY <1>3, <2>1, <3>2, ManagersAreNoCalls, CallFields DEF IntroducesManager
      <4>2. \A key : Shows(m, key) => Shows(m, key)'
        BY <2>1, <3>2, IntroducesOther
      <4>3. \A u \in Calls : \A key : Unreported(u, m, key) => Unreported(u, m, key)'
        BY <1>4, <4>1 DEF Unreported
      <4> QED
        BY <1>6, <4>1, <4>2, <4>3
    <3>4. m = t => m = handler[t].peer
      BY <2>1, ManagersAreNoCalls DEF IntroducesManager
    <3> QED
      BY <3>1, <3>2, <3>3, <3>4
  <2>2. CASE Applies(t)
    <3> PICK change : change = handler[t].change
      OBVIOUS
    <3> PICK a : a = Head(change)
      OBVIOUS
    <3>1. /\ t \in Calls /\ handler[t].pc = "StorageChange" /\ change \in Seq(Actions) /\ change # <<>>
          /\ handler'[t] = ChangeHandler(Tail(change))
          /\ \/ /\ a.type = "put"
                /\ manager_views' = Bind(manager_views, a.mgrs[1], ViewOf(a.mgrs[1]) \cup {a.key})
             \/ a.type # "put" /\ UNCHANGED manager_views
      BY <1>5, <2>2 DEF Applies
    <3>2. /\ handler'[m] = handler[m] /\ \A u \in Calls \ {t} : handler'[u] = handler[u]
      BY <1>3, <3>1, ManagersAreNoCalls, CallFields
    <3>3. \A key : Shows(m, key) \/ Puts(a, m, key) => Shows(m, key)'
      BY <3>1, ViewAfterBind, ViewUnchanged DEF Shows, Puts
    <3>4. \A k, key : PutsAt(change, k, key) => Puts(a, k, key) \/ PutsAt(Tail(change), k, key)
      BY <3>1, PutsAtTail
    <3>5. handler'[t].pc = "StorageChange" /\ handler'[t].change = Tail(change)
      BY <3>1 DEF ChangeHandler
    <3>6. \A u \in Calls : \A key : Unreported(u, m, key) => Unreported(u, m, key)' \/ Shows(m, key)'
      BY <1>4, <3>1, <3>2, <3>3, <3>4, <3>5 DEF Unreported
    <3> QED
      BY <1>6, <3>2, <3>3, <3>6
  <2>3. CASE LeavesViews(t)
    <3>1. /\ \/ handler'[m] = handler[m]
             \/ handler'[m].pc \notin Introducing /\ handler'[m] # Replied("OK")
          /\ UNCHANGED manager_views
      BY <1>3, <1>5, <2>3, ManagersAreNoCalls DEF LeavesViews
    <3>2. \A u \in Calls : \A key : Unreported(u, m, key) => Unreported(u, m, key)'
      <4>1. \A key : handler[t].pc = "StorageChange" => ~PutsAt(handler[t].change, m, key)
        BY <2>3, NothingPut DEF LeavesViews
      <4> QED
        BY <1>3, <1>4, <4>1, CallFields DEF Unreported
    <3> QED
      BY <1>6, <3>1, <3>2, ViewUnchanged DEF Shows
  <2> QED
    BY <1>1, <2>1, <2>2, <2>3
<1>8. NoWorkLeft'
  BY <1>4 DEF FilesShownInv, NoWorkLeft
<1> QED
  BY <1>7, <1>8, ShownByParts

LEMMA CrashManagerShows ==
  ASSUME RulesPlace, ServiceInv, ThreadsInv, FilesShownInv, NEW c \in Managers, CrashManager(c)
  PROVE  FilesShownInv'
<1>1. PICK failed \in SUBSET {t \in Calls : InProgress(t) /\ CalledUris(t) # {}} :
        call' = [t \in Calls |-> IF t \in failed THEN AfterFailure(t) ELSE call[t]]
  BY DEF CrashManager
<1>2. /\ UNCHANGED <<manager_views, store>>
      /\ \A u \in Calls : handler'[u] = handler[u]
      /\ \A m \in Managers : handler'[m] = handler[m] \/ handler'[m] = Idle
      /\ LeftStays
  <2>1. Kill(c) /\ LeaveIntroduction(c, manager_state[c]) /\ c \in Peers /\ UNCHANGED store
    BY ManagersAreNoCalls DEF CrashManager, ManagerCrash
  <2>2. c \in Managers => handler'[c] = handler[c] \/ handler'[c] = Idle
    BY <2>1, LeaveHandled
  <2> QED
    BY <2>1, <2>2, LeaveFrame, LeftAlone, ManagersAreNoCalls, CallFields
<1>3. \A t \in Threads : work'[t] = NoWork
  BY DEF FilesShownInv, NoWorkLeft, CrashManager, ManagerCrash
<1>4. \A m \in Managers : manager_state'[m] = "serving" => manager_state[m] = "serving"
  BY DEF CrashManager, ManagerCrash, ServiceInv, ServiceTypeOK, ManagerTypeOK
<1>5. ASSUME NEW t \in failed, NEW m, NEW key, Unreported(t, m, key)
      PROVE  Unreported(t, m, key)'
  <2>1. call[t].pc = "action"
    <3>1. call[t].pc # "reporting"
      BY <1>5 DEF CalledUris, AtAction, PutAllowed
    <3> QED
      BY <1>5, <3>1 DEF Unreported
  <2>2. AtAction(t, {"copy_from", "remove"}) \/ AtAction(t, {"put"})
    BY <1>5, <2>1 DEF CalledUris, PutAllowed
  <2>3. /\ call[t].idx <= Len(call[t].rule.rule.action)
        /\ CurrentAction(t).type # "not_set"
    BY <2>2, AtActionFields DEF AtAction, ServiceInv, ServiceTypeOK
  <2>4. /\ Executed(t).pc = "action"
        /\ Executed(t).change = Append(call[t].change, CurrentAction(t))
        /\ call[t].change \in Seq(Actions)
    BY <2>1, <2>3, PlacedExecuted
  <2>5. PutsAt(call[t].change, m, key)
    BY <1>5, <2>1 DEF Unreported
  <2>6. PutsAt(Executed(t).change, m, key)
    BY <2>4, <2>5, PutsAtAppend
  <2>7. call'[t] = Executed(t)
    BY <1>1, <2>1 DEF AfterFailure
  <2> QED
    BY <2>4, <2>6, <2>7 DEF Unreported
<1>6. ASSUME NEW t \in Calls, NEW m, NEW key, Unreported(t, m, key)
      PROVE  Unreported(t, m, key)'
  BY <1>1, <1>2, <1>5, <1>6 DEF Unreported
<1>7. ASSUME NEW m \in Managers
      PROVE  ShownOrLeft(m)'
  <2>1. Idle.pc \notin Introducing /\ Idle # Replied("OK")
    BY DEF Idle, Replied, Introducing
  <2> QED
    BY <1>2, <1>4, <1>6, <2>1, ShownStep, ViewUnchanged DEF Shows
<1>8. NoWorkLeft'
  BY <1>3 DEF NoWorkLeft
<1> QED
  BY <1>7, <1>8, ShownByParts

(* Steps of peers in their Start, and of operators.                        *)
LEMMA PeerStepShows ==
  ASSUME ServiceInv, ThreadsInv, FilesShownInv, NEW p \in Threads \ (Calls \cup Abandoned), NEW h,
         Become(p, h), UNCHANGED <<manager_views, store, work, call>>,
         \A m \in Managers \ {p} : manager_state'[m] = manager_state[m],
         p \in Managers =>
           \/ /\ manager_state[p] = "stopped" /\ manager_state'[p] # "serving"
              /\ h = [pc |-> "AddPeer", peer |-> p, file |-> DOMAIN store[p]]
           \/ /\ h = Idle
              /\ manager_state'[p] = "serving" => handler[p] = Replied("OK")
  PROVE  FilesShownInv'
<1>1. \A u \in Threads : handler'[u] = IF u = p THEN h ELSE handler[u]
  BY DEF Become, ServiceInv, MasterInv, MasterTypeOK
<1>2. \A u \in Calls : \A m, key : Unreported(u, m, key) => Unreported(u, m, key)'
  BY <1>1, CallFields DEF Unreported
<1>0. LeftStays
  BY <1>1, ManagersAreNoCalls, LeftAlone
<1>3. ASSUME NEW m \in Managers
      PROVE  ShownOrLeft(m)'
  <2>1. CASE m = p /\ h # Idle
    <3>1. /\ handler'[m].pc = "AddPeer" /\ handler'[m].file = DOMAIN store[m]
          /\ manager_state'[m] # "serving"
      BY <1>1, <2>1
    <3> QED
      BY <3>1 DEF ShownOrLeft, FilesShown, Replied
  <2>2. CASE m # p \/ h = Idle
    <3>1. \/ handler'[m] = handler[m]
          \/ handler'[m].pc \notin Introducing /\ handler'[m] # Replied("OK")
      BY <1>1, <2>2, ManagersAreNoCalls DEF Idle, Introducing, Replied
    <3>2. manager_state'[m] = "serving" => manager_state[m] = "serving" \/ handler[m] = Replied("OK")
      <4>1. Idle # [pc |-> "AddPeer", peer |-> p, file |-> DOMAIN store[p]]
        BY DEF Idle
      <4> QED
        BY <2>2, <4>1
    <3> QED
      BY <1>0, <1>2, <3>1, <3>2, ShownStep, ViewUnchanged DEF Shows
  <2> QED
    BY <2>1, <2>2
<1>4. NoWorkLeft'
  BY DEF FilesShownInv, NoWorkLeft
<1> QED
  BY <1>3, <1>4, ShownByParts

LEMMA StartStepShows ==
  ASSUME ServiceInv, ThreadsInv, FilesShownInv, StartStep, master_up
  PROVE  FilesShownInv'
<1>1. ASSUME NEW m \in Managers, BeginManagerStart(m)
      PROVE  FilesShownInv'
  <2>1. /\ Become(m, [pc |-> "AddPeer", peer |-> m, file |-> DOMAIN store[m]])
        /\ UNCHANGED <<manager_views, store, work, call>>
    BY <1>1, ManagersAreNoCalls DEF BeginManagerStart, ReceiveIntroduce, Receive, clientVars
  <2>2. /\ \A n \in Managers \ {m} : manager_state'[n] = manager_state[n]
        /\ manager_state[m] = "stopped" /\ manager_state'[m] # "serving"
    BY <1>1 DEF BeginManagerStart, ServiceInv, ServiceTypeOK, ManagerTypeOK
  <2> QED
    BY <2>1, <2>2, PeerStepShows, ManagersAreNoCalls
<1>2. ASSUME NEW m \in Managers, EndManagerStart(m)
      PROVE  FilesShownInv'
  <2>1. Become(m, Idle) /\ UNCHANGED <<manager_views, store, work, call>>
    BY <1>2 DEF EndManagerStart, Consume, clientVars
  <2>2. /\ \A n \in Managers \ {m} : manager_state'[n] = manager_state[n]
        /\ manager_state'[m] = "serving" => handler[m] = Replied("OK")
    BY <1>2 DEF EndManagerStart, ServiceInv, ServiceTypeOK, ManagerTypeOK
  <2> QED
    BY <2>1, <2>2, PeerStepShows, ManagersAreNoCalls
<1>3. ASSUME NEW c \in Clients, BeginClientStart(c) \/ EndClientStart(c)
      PROVE  FilesShownInv'
  <2>1. /\ \E h : Become(c, h)
        /\ UNCHANGED <<manager_views, store, work, call, manager_state>>
    BY <1>3 DEF BeginClientStart, EndClientStart, ReceiveIntroduce, Receive, Consume, managerVars
  <2> QED
    BY <2>1, PeerStepShows, ManagersAreNoCalls
<1> QED
  BY <1>1, <1>2, <1>3 DEF StartStep

LEMMA OperatorStepShows ==
  ASSUME ServiceInv, ThreadsInv, FilesShownInv, NEW o \in Threads,
         ForwardRule(o) \/ (o \in Operators /\ Operate(o)) \/ (o \in Viewers /\ Look(o))
  PROVE  FilesShownInv'
<1>1. o \in Operators \cup Viewers
  BY DEF ForwardRule, Forward, ThreadsInv, Serves
<1>2. /\ \E h : Become(o, h)
      /\ UNCHANGED <<manager_views, store, work, call, manager_state>>
  BY DEF ForwardRule, Forward, Operate, ReceiveRule, Look, ReceiveGetView, Receive,
         ClientRuleHandler, managerVars, clientVars
<1> QED
  BY <1>1, <1>2, PeerStepShows, ManagersAreNoCalls

LEMMA ShownNext ==
  ASSUME RulesAccepted, RulesPlace, NamesTellApart, ServiceInv, ThreadsInv, RunningInv,
         FilesShownInv, [ServiceNext]_serviceVars
  PROVE  FilesShownInv'
<1>1. CASE UNCHANGED serviceVars
  <2>1. UNCHANGED <<handler, manager_views, store, manager_state, work, call>>
    BY <1>1 DEF serviceVars, masterVars, managerVars, clientVars
  <2>2. \A u \in Calls : \A m, key : Unreported(u, m, key) => Unreported(u, m, key)'
    BY <2>1 DEF Unreported
  <2>3. \A m \in Managers : ShownOrLeft(m)'
    BY <2>1, <2>2, LeftAlone, ShownStep, ViewUnchanged DEF Shows
  <2> QED
    BY <2>1, <2>3, ShownByParts DEF FilesShownInv, NoWorkLeft
<1>2. ~(\E c \in Clients : CrashClient(c)) /\ ~Terminate /\ ~MasterStart
  BY NeverDown DEF CrashClient, Kill, RulesAccepted, RunningInv, MasterStart
<1>3. CASE \E t \in Threads : MasterStep(t) \/ ForwardRule(t)
  BY <1>3, HandlerStepShows, OperatorStepShows DEF MasterStep
<1>4. CASE StartStep
  BY <1>4, StartStepShows DEF RunningInv
<1>5. CASE (\E o \in Operators : Operate(o)) \/ (\E v \in Viewers : Look(v))
  BY <1>5, OperatorStepShows, ManagersAreNoCalls
<1> QED
  BY <1>1, <1>2, <1>3, <1>4, <1>5, CallStepShows, CrashManagerShows DEF ServiceNext

LEMMA ShownInit == ServiceInit => FilesShownInv
BY ManagersAreNoCalls
   DEF ServiceInit, MasterInit, ManagerInit, FilesShownInv, NoWorkLeft, Idle, Replied

(* What a call has put and not reported is an action of its rule.          *)
LEMMA UnreportedChanging ==
  ASSUME ServiceInv, ThreadsInv, NEW t \in Calls, NEW m, NEW key, Unreported(t, m, key)
  PROVE  Changing(t, m, key)
<1> PICK action : action = call[t].rule.rule.action
  OBVIOUS
<1>1. call[t].pc \in {"action", "reporting"} /\ action \in Seq(Actions)
  BY CallRule DEF Unreported, HasARule
<1>2. PICK change : MadeOf(change, action) /\ PutsAt(change, m, key)
  BY <1>1, ReportMadeOf DEF Unreported, ThreadsInv
<1>3. PICK i \in DOMAIN change : Puts(change[i], m, key)
  BY <1>2 DEF PutsAt, Puts
<1>4. PICK j \in DOMAIN action : change[i] = action[j]
  BY <1>2 DEF MadeOf
<1>5. j \in 1..Len(action) /\ action[j] \in Actions
  BY <1>1
<1>6. action[j].type = "put" /\ 1 \in DOMAIN action[j].mgrs
  BY <1>3, <1>4, <1>5 DEF Puts, Actions
<1> QED
  BY <1>1, <1>3, <1>4, <1>5, <1>6 DEF Changing, Puts

(* The view shows every file that a running manager holds, unless a call   *)
(* that puts it there has still to report it: for rules that only put      *)
(* files in place, whatever managers' processes end and start again, in    *)
(* their Start and after it, and in whatever order introductions, Puts and *)
(* reports are served, until the introduction that a killed process of the *)
(* manager left behind has cleared its view (storage_master.cc: Introduce  *)
(* and StorageChange).                                                     *)
THEOREM ServiceViewsMissNothing ==
  ASSUME RulesAccepted, RulesPlace, NamesTellApart
  PROVE  ServiceSpec => []ViewsMissNothing
<1> DEFINE Inv == ServiceInv /\ ThreadsInv /\ RunningInv /\ FilesShownInv
<1>1. ServiceInit => Inv
  BY ServiceInitInv, ThreadsInit, RunningInit, ShownInit
<1>2. Inv /\ [ServiceNext]_serviceVars => Inv'
  BY ServiceNextInv, ThreadsNext, RunningNext, ShownNext
<1>3. Inv => ViewsMissNothing
  BY UnreportedChanging DEF FilesShownInv, ViewsMissNothing, Holds, Shows
<1> QED
  BY <1>1, <1>2, <1>3, PTL DEF ServiceSpec

-----------------------------------------------------------------------------
(* ViewsShowOnlyFiles: what is said of a file, by a call, by the handler   *)
(* for its report or by that for a manager's introduction, is said after   *)
(* the file is in place, where it stays. *)

Mentions(t, m, key) ==
  \/ call[t].pc \in {"action", "reporting"} /\ PutsAt(call[t].change, m, key)
  \/ handler[t].pc = "StorageChange" /\ PutsAt(handler[t].change, m, key)

OnlyFiles(m) ==
  /\ ViewOf(GenerateName(m)) \subseteq DOMAIN store[m]
  /\ handler[m].pc \in Introducing => handler[m].file \subseteq DOMAIN store[m]
  /\ \A key \in Keys, t \in Calls : Mentions(t, m, key) => Holds(m, key)

LEMMA OnlyParts == ShownFilesInv <=> PlacedWork /\ \A m \in Managers : OnlyFiles(m)
BY DEF ShownFilesInv, OnlyFiles, Mentions, Introducing

LEMMA OnlyByParts ==
  ASSUME PlacedWork', \A m \in Managers : OnlyFiles(m)'
  PROVE  ShownFilesInv'
BY DEF ShownFilesInv, OnlyFiles, Mentions, Introducing

(* What a client leaves undone when it ends are Puts.                      *)
LEMMA AbortPlaced ==
  ASSUME RulesPlace, ServiceInv, ThreadsInv, PlacedWork, NEW c, Abort(c)
  PROVE  PlacedWork'
<1>1. ASSUME NEW t \in Calls, NEW w \in Sent(t)
      PROVE  w.pc = "write"
  <2>1. ~AtAction(t, {"copy_from"}) /\ ~AtAction(t, {"remove"})
    BY AtActionFields, PlacedAction DEF AtAction, ServiceInv, ServiceTypeOK
  <2>2. \E m : w = WriteWork(m, t.key, t.value)
    BY <1>1, <2>1, SentCases
  <2> QED
    BY <2>2 DEF WriteWork
<1> QED
  BY <1>1, AbortWork DEF PlacedWork

LEMMA EndWritePlaced ==
  ASSUME ServiceInv, PlacedWork, NEW t \in Threads, EndWrite(t)
  PROVE  PlacedWork'
BY DEF PlacedWork, EndWrite, NoWork, ServiceInv, ServiceTypeOK, ManagerTypeOK

(* A step that takes no file away and mentions only files that are there.  *)
LEMMA OnlyStep ==
  ASSUME ShownFilesInv, NEW m \in Managers,
         \A key : Holds(m, key) => Holds(m, key)',
         \A key \in Keys : Shows(m, key)' => Shows(m, key) \/ Holds(m, key),
         ViewOf(GenerateName(m))' \subseteq Keys,
         \/ handler'[m] = handler[m] \/ handler'[m].pc \notin Introducing
         \/ handler'[m].file \subseteq DOMAIN store[m],
         \A t \in Calls : \A key \in Keys :
           Mentions(t, m, key)' => Mentions(t, m, key) \/ Holds(m, key)'
  PROVE  OnlyFiles(m)'
<1>1. OnlyFiles(m)
  BY OnlyParts
<1> QED
  BY <1>1 DEF OnlyFiles, Holds, Shows

LEMMA ViewsOfKeys ==
  ASSUME MasterTypeOK, NEW p
  PROVE  ViewOf(p) \subseteq Keys
BY DEF MasterTypeOK, ViewOf

LEMMA AbortReturns ==
  ASSUME NEW c, Abort(c)
  PROVE  \A u \in Calls : call'[u] = call[u] \/ call'[u].pc = "returned"
<1>1. Return("UNAVAILABLE", "").pc = "returned"
  BY DEF Return
<1> QED
  BY <1>1 DEF Abort

LEMMA CallStepOnly ==
  ASSUME RulesPlace, NamesTellApart, ManagersKeepFiles, ServiceInv, ThreadsInv, ShownFilesInv,
         NEW t \in Calls, BeginCall(t) \/ CallStep(t)
  PROVE  ShownFilesInv'
<1>0. CASE EndWrite(t) /\ UNCHANGED <<masterVars, clientVars>>
  <2>1. UNCHANGED <<handler, manager_views, call>>
    BY <1>0 DEF masterVars, clientVars
  <2>2. \A m \in Managers : \A key : Holds(m, key) => Holds(m, key)'
    BY <1>0 DEF EndWrite, Write, Bind, Holds, ServiceInv, ServiceTypeOK, ManagerTypeOK
  <2>3. ASSUME NEW m \in Managers
        PROVE  OnlyFiles(m)'
    <3>1. /\ \A key : Shows(m, key)' <=> Shows(m, key)
          /\ ViewOf(GenerateName(m))' \subseteq Keys
      BY <2>1, ViewUnchanged, ViewsOfKeys DEF Shows, ServiceInv, MasterInv
    <3>2. \A u \in Calls : \A key : Mentions(u, m, key)' => Mentions(u, m, key)
      BY <2>1 DEF Mentions
    <3> QED
      BY <2>1, <2>2, <3>1, <3>2, OnlyStep
  <2> QED
    BY <1>0, <2>3, CallFields, EndWritePlaced, OnlyByParts DEF ShownFilesInv
<1> SUFFICES ASSUME ~(EndWrite(t) /\ UNCHANGED <<masterVars, clientVars>>)
             PROVE  ShownFilesInv'
  BY <1>0
<1>1. /\ HasPut(t) \/ SentReport(t) \/ TookAnswer(t) \/ WentOn(t)
      /\ UNCHANGED <<manager_state, manager_views>> /\ LeavesWork(t)
  BY CallEffect DEF ShownFilesInv
<1>9. PlacedWork'
  <2>1. UNCHANGED work => PlacedWork'
    BY DEF ShownFilesInv, PlacedWork
  <2> QED
    BY <1>1, <2>1, AbortPlaced DEF LeavesWork, ShownFilesInv
<1>2. \A s : Goto(t, s) => \A u \in Calls : call'[u] = IF u = t THEN s ELSE call[u]
  BY DEF Goto, ServiceInv, ServiceTypeOK, ClientTypeOK
<1>3. \A h : Become(t, h) => \A u \in Threads : handler'[u] = IF u = t THEN h ELSE handler[u]
  BY DEF Become, ServiceInv, MasterInv, MasterTypeOK
<1>4. Abort(t.client) => \A u \in Calls : call'[u] = call[u] \/ call'[u].pc = "returned"
  BY AbortReturns
<1>5. t \in Threads /\ \A u \in Calls : u \in Threads
  BY CallFields
<1>6. ASSUME NEW m \in Managers
      PROVE  /\ \A key : Holds(m, key) => Holds(m, key)'
             /\ \A u \in Calls : \A key \in Keys :
                  Mentions(u, m, key)' => Mentions(u, m, key) \/ Holds(m, key)'
  <2>1. CASE HasPut(t)
    <3> PICK a : a = CurrentAction(t)
      OBVIOUS
    <3>1. PICK n \in Managers :
            /\ call[t].pc = "action"
            /\ Puts(a, n, t.key) /\ ManagerPut(n, t.key, t.value)
            /\ \A k, key : PutsAt(Executed(t).change, k, key) <=>
                             PutsAt(call[t].change, k, key) \/ Puts(a, k, key)
            /\ Goto(t, Executed(t)) /\ UNCHANGED handler
      BY <2>1 DEF HasPut
    <3>2. DOMAIN store'[m] = IF m = n THEN DOMAIN store[m] \cup {t.key} ELSE DOMAIN store[m]
      BY <3>1 DEF ManagersKeepFiles, ManagerPut, Write, Bind, ServiceInv, ServiceTypeOK, ManagerTypeOK
    <3>3. \A key : Puts(a, m, key) => m = n /\ key = t.key
      BY <3>1 DEF Puts, NamesTellApart, Peers
    <3>4. \A u \in Calls : \A key \in Keys :
            Mentions(u, m, key)' => Mentions(u, m, key) \/ (u = t /\ PutsAt(Executed(t).change, m, key))
      BY <1>2, <3>1 DEF Mentions
    <3>5. \A key : PutsAt(call[t].change, m, key) => Mentions(t, m, key)
      BY <3>1 DEF Mentions
    <3> QED
      BY <3>1, <3>2, <3>3, <3>4, <3>5 DEF Holds
  <2>2. CASE SentReport(t)
    <3>1. PICK s : /\ Goto(t, s) /\ s.change = call[t].change /\ call[t].pc = "action"
                   /\ Become(t, ChangeHandler(call[t].change)) /\ UNCHANGED store
      BY <2>2 DEF SentReport
    <3>2. \A u \in Calls : \A key : Mentions(u, m, key)' => Mentions(u, m, key)
      BY <1>2, <1>3, <1>5, <3>1 DEF Mentions, ChangeHandler
    <3> QED
      BY <3>1, <3>2 DEF Holds
  <2>3. CASE TookAnswer(t)
    <3>1. \A u \in Calls : \/ call'[u] = call[u]
                           \/ call'[u].pc \in {"last", "returned"}
      BY <1>2, <1>4, <2>3 DEF TookAnswer
    <3>2. \A u \in Calls : handler'[u] = handler[u] \/ handler'[u] = Idle
      BY <1>3, <1>5, <2>3 DEF TookAnswer
    <3>3. UNCHANGED store
      BY <2>3 DEF TookAnswer
    <3> QED
      BY <3>1, <3>2, <3>3 DEF Mentions, Holds, Idle
  <2>4. CASE WentOn(t)
    <3>1. UNCHANGED <<store, handler>>
      BY <2>4 DEF WentOn
    <3>2. CASE Abort(t.client)
      BY <1>4, <3>1, <3>2 DEF Mentions, Holds
    <3>3. CASE \E s : /\ Goto(t, s) /\ s.pc # "reporting"
                      /\ \A k, key : (s.pc = "action" /\ PutsAt(s.change, k, key)) <=>
                                       (call[t].pc = "action" /\ PutsAt(call[t].change, k, key))
      <4>1. PICK s : /\ Goto(t, s) /\ s.pc # "reporting"
                     /\ \A k, key : (s.pc = "action" /\ PutsAt(s.change, k, key)) <=>
                                      (call[t].pc = "action" /\ PutsAt(call[t].change, k, key))
        BY <3>3
      <4>2. \A u \in Calls : call'[u] = IF u = t THEN s ELSE call[u]
        BY <1>2, <4>1
      <4> QED
        BY <3>1, <4>1, <4>2 DEF Mentions, Holds
    <3> QED
      BY <2>4, <3>2, <3>3 DEF WentOn
  <2> QED
    BY <1>1, <2>1, <2>2, <2>3, <2>4
<1>7. ASSUME NEW m \in Managers
      PROVE  handler'[m] = handler[m]
  <2>1. m \in Threads /\ m # t
    BY ManagersAreNoCalls
  <2> QED
    BY <1>1, <1>3, <2>1 DEF HasPut, SentReport, TookAnswer, WentOn
<1>8. ASSUME NEW m \in Managers
      PROVE  OnlyFiles(m)'
  <2>1. /\ \A key : Shows(m, key)' <=> Shows(m, key)
        /\ ViewOf(GenerateName(m))' \subseteq Keys
    BY <1>1, ViewUnchanged, ViewsOfKeys DEF Shows, ServiceInv, MasterInv
  <2> QED
    BY <1>6, <1>7, <2>1, OnlyStep
<1> QED
  BY <1>8, <1>9, OnlyByParts

LEMMA HandlerStepOnly ==
  ASSUME RulesPlace, NamesTellApart, ManagersKeepFiles, ServiceInv, ThreadsInv, ShownFilesInv, MasterTypeOK',
         (\E t \in Threads : HandlerStep(t)) \/ Terminate, UNCHANGED <<managerVars, clientVars>>
  PROVE  ShownFilesInv'
<1>1. UNCHANGED <<store, work, call>>
  BY DEF managerVars, clientVars
<1>2. ASSUME NEW m \in Managers,
             \A key \in Keys : Shows(m, key)' => Shows(m, key) \/ Holds(m, key),
             \/ handler'[m] = handler[m] \/ handler'[m].pc \notin Introducing
             \/ handler'[m].file \subseteq DOMAIN store[m],
             \A u \in Calls : \A key \in Keys : Mentions(u, m, key)' => Mentions(u, m, key)
      PROVE  OnlyFiles(m)'
  <2>1. ViewOf(GenerateName(m))' \subseteq Keys
    BY DEF MasterTypeOK, ViewOf
  <2> QED
    BY <1>1, <1>2, <2>1, OnlyStep DEF Holds
<1>3. ASSUME Terminate, NEW m \in Managers
      PROVE  OnlyFiles(m)'
  <2>1. \A key : ~Shows(m, key)'
    BY <1>3 DEF Terminate, EmptyMap, Shows, ViewOf
  <2>2. \A u \in Threads : handler'[u] = handler[u] \/ handler'[u].pc = "replied"
    BY <1>3 DEF Terminate, Replied
  <2>3. \A u \in Calls : \A key : Mentions(u, m, key)' => Mentions(u, m, key)
    BY <1>1, <2>2, CallFields DEF Mentions
  <2> QED
    BY <1>2, <2>1, <2>2, <2>3, ManagersAreNoCalls DEF Introducing
<1>4. ASSUME NEW t \in Threads, IntroducesManager(t), NEW m \in Managers
      PROVE  OnlyFiles(m)'
  <2>0. t \in Managers /\ handler[t].peer = t
    BY <1>4 DEF IntroducesManager, ManagersKeepFiles, Abandoned
  <2>1. PICK h : Become(t, h)
    BY <1>4 DEF IntroducesManager, LockTracker, AddPeer, AddManager, AddFile, FinishIntroduce
  <2>2. \A u \in Threads : handler'[u] = IF u = t THEN h ELSE handler[u]
    BY <2>1 DEF Become, ServiceInv, MasterInv, MasterTypeOK
  <2>3. \A u \in Calls : \A key : Mentions(u, m, key)' => Mentions(u, m, key)
    BY <1>1, <2>0, <2>2, ManagersAreNoCalls, CallFields DEF Mentions
  <2>4. CASE m # t
    BY <1>2, <1>4, <2>0, <2>2, <2>3, <2>4, IntroducesOther, ManagersAreNoCalls
  <2>5. CASE m = t
    <3> PICK g : g = handler[m]
      OBVIOUS
    <3>1. /\ g \in IntroduceHandlers /\ g.peer = m /\ handler'[m] = h
          /\ OnlyFiles(m) /\ g.file \subseteq DOMAIN store[m]
      BY <1>4, <2>0, <2>2, <2>5, OnlyParts DEF IntroducesManager, OnlyFiles, IntroduceHandlers, Introducing
    <3>2. \/ h.pc \notin Introducing
          \/ h.file \subseteq g.file
      <4>1. \/ h = [g EXCEPT !.pc = "AddingPeer"] \/ h = [g EXCEPT !.pc = "AddManager"]
            \/ h = [g EXCEPT !.pc = "AddFiles"] \/ h = Replied("OK")
            \/ \E key \in g.file : h = [g EXCEPT !.file = @ \ {key}]
        <5>1. \A x : Become(t, x) => x = h
          BY <2>2 DEF Become, ServiceInv, MasterInv, MasterTypeOK
        <5> QED
          BY <1>4, <2>5, <3>1, <5>1
             DEF IntroducesManager, LockTracker, AddPeer, AddManager, AddFile, FinishIntroduce
      <4> QED
        BY <3>1, <4>1 DEF IntroduceHandlers, Replied, Introducing
    <3>3. \A key : Shows(m, key)' => Shows(m, key) \/ Holds(m, key)
      <4>1. CASE AddManager(t)
        BY <2>5, <3>1, <4>1, ViewAfterBind DEF AddManager, Shows
      <4>2. CASE AddFile(t)
        <5>1. PICK key \in g.file :
                manager_views' = Bind(manager_views, GenerateName(m), ViewOf(GenerateName(m)) \cup {key})
          BY <2>5, <3>1, <4>2 DEF AddFile, AddFileToManager
        <5> QED
          BY <3>1, <5>1, ViewAfterBind DEF Shows, Holds
      <4>3. CASE UNCHANGED manager_views
        BY <4>3, ViewUnchanged DEF Shows
      <4> QED
        BY <1>4, <4>1, <4>2, <4>3 DEF IntroducesManager, LockTracker, AddPeer, FinishIntroduce
    <3> QED
      BY <1>2, <2>3, <3>1, <3>2, <3>3
  <2> QED
    BY <2>4, <2>5
<1>5. ASSUME NEW t \in Threads, Applies(t), NEW m \in Managers
      PROVE  OnlyFiles(m)'
  <2> PICK change : change = handler[t].change
    OBVIOUS
  <2> PICK a : a = Head(change)
    OBVIOUS
  <2>1. /\ t \in Calls /\ handler[t].pc = "StorageChange" /\ change \in Seq(Actions) /\ change # <<>>
        /\ \/ /\ a.type = "put"
              /\ manager_views' = Bind(manager_views, a.mgrs[1], ViewOf(a.mgrs[1]) \cup {a.key})
           \/ a.type # "put" /\ UNCHANGED manager_views
    BY <1>5 DEF Applies
  <2>2. \A u \in Threads : handler'[u] = IF u = t THEN ChangeHandler(Tail(change)) ELSE handler[u]
    BY <1>5 DEF Applies, Become, ServiceInv, MasterInv, MasterTypeOK
  <2>3. \A key : PutsAt(change, m, key) <=> Puts(a, m, key) \/ PutsAt(Tail(change), m, key)
    BY <2>1, PutsAtTail
  <2>4. \A key \in Keys : Puts(a, m, key) => Holds(m, key)
    BY <2>1, <2>3, OnlyParts DEF OnlyFiles, Mentions
  <2>5. \A key \in Keys : Shows(m, key)' => Shows(m, key) \/ Holds(m, key)
    BY <2>1, <2>4, ViewAfterBind, ViewUnchanged DEF Shows, Puts
  <2>6. \A u \in Calls : \A key : Mentions(u, m, key)' => Mentions(u, m, key)
    <3> PICK tail : tail = Tail(change)
      OBVIOUS
    <3>1. handler'[t] = ChangeHandler(tail) /\ \A u \in Calls \ {t} : handler'[u] = handler[u]
      BY <2>1, <2>2, CallFields
    <3>2. handler'[t].pc = "StorageChange" /\ handler'[t].change = tail
      BY <3>1 DEF ChangeHandler
    <3>3. \A key : PutsAt(tail, m, key) => PutsAt(change, m, key)
      BY <2>3
    <3> QED
      BY <1>1, <2>1, <3>1, <3>2, <3>3 DEF Mentions
  <2>7. handler'[m] = handler[m]
    BY <2>1, <2>2, ManagersAreNoCalls
  <2> QED
    BY <1>2, <2>5, <2>6, <2>7
<1>6. ASSUME NEW t \in Threads, LeavesViews(t), NEW m \in Managers
      PROVE  OnlyFiles(m)'
  <2>1. PICK h : Become(t, h) /\ h.pc # "StorageChange" /\ (t \in Managers => h.pc \notin Introducing)
    BY <1>6 DEF LeavesViews
  <2>2. \A u \in Threads : handler'[u] = IF u = t THEN h ELSE handler[u]
    BY <2>1 DEF Become, ServiceInv, MasterInv, MasterTypeOK
  <2>3. \A u \in Calls : \A key : Mentions(u, m, key)' => Mentions(u, m, key)
    BY <1>1, <2>1, <2>2, CallFields DEF Mentions
  <2>4. \A key : Shows(m, key)' <=> Shows(m, key)
    BY <1>6, ViewUnchanged DEF LeavesViews, Shows
  <2>5. handler'[m] = handler[m] \/ handler'[m].pc \notin Introducing
    BY <2>1, <2>2, ManagersAreNoCalls
  <2> QED
    BY <1>2, <2>3, <2>4, <2>5
<1>7. \A m \in Managers : OnlyFiles(m)'
  BY <1>3, <1>4, <1>5, <1>6, HandlerEffect
<1>8. PlacedWork'
  BY <1>1 DEF ShownFilesInv, PlacedWork
<1> QED
  BY <1>7, <1>8, OnlyByParts

(* Steps of peers in their Start, of operators and of a client that ends.  *)
LEMMA OthersOnly ==
  ASSUME ServiceInv, ThreadsInv, ShownFilesInv, UNCHANGED <<manager_views, store>>, PlacedWork',
         \A u \in Calls : handler'[u] = handler[u],
         \A u \in Calls : call'[u] = call[u] \/ call'[u].pc = "returned",
         \A m \in Managers : \/ handler'[m] = handler[m] \/ handler'[m].pc \notin Introducing
                             \/ handler'[m].file \subseteq DOMAIN store[m]
  PROVE  ShownFilesInv'
<1>1. \A u \in Calls : \A m, key : Mentions(u, m, key)' => Mentions(u, m, key)
  BY DEF Mentions
<1>2. ASSUME NEW m \in Managers
      PROVE  OnlyFiles(m)'
  <2>1. /\ \A key : Shows(m, key)' <=> Shows(m, key)
        /\ ViewOf(GenerateName(m))' \subseteq Keys
    BY ViewUnchanged, ViewsOfKeys DEF Shows, ServiceInv, MasterInv
  <2> QED
    BY <1>1, <2>1, OnlyStep DEF Holds
<1> QED
  BY <1>2, OnlyByParts

LEMMA PlacedStays ==
  ASSUME ShownFilesInv, UNCHANGED work
  PROVE  PlacedWork'
BY DEF ShownFilesInv, PlacedWork

LEMMA ThreadStepOnly ==
  ASSUME ServiceInv, ThreadsInv, ShownFilesInv, UNCHANGED <<manager_views, store, work, call>>,
         NEW p \in Threads \ Calls, NEW h, Become(p, h),
         p \in Managers => h.pc \notin Introducing \/ h.file \subseteq DOMAIN store[p]
  PROVE  ShownFilesInv'
<1>1. \A u \in Threads : handler'[u] = IF u = p THEN h ELSE handler[u]
  BY DEF Become, ServiceInv, MasterInv, MasterTypeOK
<1> QED
  BY <1>1, OthersOnly, PlacedStays, ManagersAreNoCalls, CallFields

LEMMA StartStepOnly ==
  ASSUME ServiceInv, ThreadsInv, ShownFilesInv, StartStep
  PROVE  ShownFilesInv'
<1>1. ASSUME NEW m \in Managers, BeginManagerStart(m) \/ EndManagerStart(m)
      PROVE  ShownFilesInv'
  <2>1. UNCHANGED <<manager_views, store, work, call>>
    BY <1>1 DEF BeginManagerStart, EndManagerStart, ReceiveIntroduce, Receive, Consume, clientVars
  <2>2. Become(m, [pc |-> "AddPeer", peer |-> m, file |-> DOMAIN store[m]]) \/ Become(m, Idle)
    BY <1>1, ManagersAreNoCalls DEF BeginManagerStart, EndManagerStart, ReceiveIntroduce, Receive, Consume
  <2>3. PICK h : Become(m, h) /\ (h.file = DOMAIN store[m] \/ h.pc \notin Introducing)
    BY <2>2 DEF Idle, Introducing
  <2> QED
    BY <2>1, <2>3, ThreadStepOnly, ManagersAreNoCalls
<1>2. ASSUME NEW c \in Clients, BeginClientStart(c) \/ EndClientStart(c)
      PROVE  ShownFilesInv'
  <2>1. /\ UNCHANGED <<manager_views, store, work, call>>
        /\ UNCHANGED handler \/ \E h : Become(c, h)
    BY <1>2 DEF BeginClientStart, EndClientStart, ReceiveIntroduce, Receive, Consume, masterVars,
                managerVars
  <2> QED
    BY <2>1, ThreadStepOnly, OthersOnly, PlacedStays, ManagersAreNoCalls
<1> QED
  BY <1>1, <1>2 DEF StartStep

LEMMA OnlyNext ==
  ASSUME RulesPlace, NamesTellApart, ManagersKeepFiles, ServiceInv, ServiceInv', ThreadsInv,
         ShownFilesInv, [ServiceNext]_serviceVars
  PROVE  ShownFilesInv'
<1>1. CASE UNCHANGED serviceVars
  <2>1. UNCHANGED <<handler, manager_views, store, work, call>>
    BY <1>1 DEF serviceVars, masterVars, managerVars, clientVars
  <2> QED
    BY <2>1, OthersOnly, PlacedStays
<1>2. ~\E m \in Managers : CrashManager(m)
  BY DEF CrashManager, Kill, ManagersKeepFiles
<1>3. ASSUME NEW c \in Clients, CrashClient(c)
      PROVE  ShownFilesInv'
  <2>1. /\ UNCHANGED manager_views /\ \A u \in Calls : handler'[u] = handler[u]
        /\ \A m \in Managers : handler'[m] = handler[m]
    BY <1>3, LeaveFrame, ManagersAreNoCalls, CallFields DEF CrashClient
  <2>2. UNCHANGED store /\ PlacedWork' /\ \A u \in Calls : call'[u] = call[u] \/ call'[u].pc = "returned"
    BY <1>3, AbortWork, AbortPlaced, AbortReturns DEF CrashClient, ShownFilesInv
  <2> QED
    BY <2>1, <2>2, OthersOnly
<1>8. CASE \E v \in Viewers : Look(v)
  <2>1. PICK v \in Viewers : Look(v)
    BY <1>8
  <2>2. /\ \E h : Become(v, h)
        /\ UNCHANGED <<manager_views, store, work, call>>
    BY <2>1 DEF Look, ReceiveGetView, Receive, managerVars, clientVars
  <2> QED
    BY <2>2, ThreadStepOnly, ManagersAreNoCalls
<1>4. CASE \E o \in Operators : Operate(o)
  <2>1. PICK o \in Operators : Operate(o)
    BY <1>4
  <2>2. /\ \E h : Become(o, h)
        /\ UNCHANGED <<manager_views, store, work, call>>
    BY <2>1 DEF Operate, ReceiveRule, Receive, managerVars, clientVars
  <2> QED
    BY <2>2, ThreadStepOnly, ManagersAreNoCalls
<1>5. ASSUME NEW t \in Threads, ForwardRule(t)
      PROVE  ShownFilesInv'
  <2>1. /\ t \in Operators /\ \E h : Become(t, h)
        /\ UNCHANGED <<manager_views, store, work, call>>
    BY <1>5 DEF ForwardRule, Forward, ThreadsInv, Serves, ClientRuleHandler, managerVars, clientVars
  <2> QED
    BY <2>1, ThreadStepOnly, ManagersAreNoCalls
<1>6. CASE \E t \in Threads : MasterStep(t)
  BY <1>6, HandlerStepOnly DEF MasterStep, ServiceInv, MasterInv
<1>7. CASE (Terminate \/ MasterStart) /\ UNCHANGED <<managerVars, clientVars, crashes>>
  <2>1. CASE Terminate
    BY <1>7, <2>1, HandlerStepOnly DEF ServiceInv, MasterInv
  <2>2. CASE MasterStart
    <3>1. UNCHANGED <<handler, manager_views, store, work, call>>
      BY <1>7, <2>2 DEF MasterStart, managerVars, clientVars
    <3> QED
      BY <3>1, OthersOnly, PlacedStays
  <2> QED
    BY <1>7, <2>1, <2>2
<1> QED
  BY <1>1, <1>2, <1>3, <1>4, <1>5, <1>6, <1>7, <1>8, StartStepOnly, CallStepOnly DEF ServiceNext

LEMMA OnlyInit == ServiceInit => ShownFilesInv
BY ManagersAreNoCalls, CallFields
   DEF ServiceInit, MasterInit, ManagerInit, ClientInit, ShownFilesInv, PlacedWork, NoWork, Idle, NotMade,
       EmptyMap, ViewOf

(* The view shows no file that the manager does not hold: for rules that   *)
(* only put files in place and managers that keep what they have, whatever *)
(* clients fail in the middle of their calls, and however often the master *)
(* loses its view and calls report to the one that came after it           *)
(* (storage_master.cc: StorageChange; storage_client.cc: Put).             *)
THEOREM ServiceViewsShowOnlyFiles ==
  ASSUME RulesPlace, NamesTellApart, ManagersKeepFiles
  PROVE  ServiceSpec => []ViewsShowOnlyFiles
<1> DEFINE Inv == ServiceInv /\ ThreadsInv /\ ShownFilesInv
<1>1. ServiceInit => Inv
  BY ServiceInitInv, ThreadsInit, OnlyInit
<1>2. Inv /\ [ServiceNext]_serviceVars => Inv'
  BY ServiceNextInv, ThreadsNext, OnlyNext
<1>3. Inv => ViewsShowOnlyFiles
  BY DEF ShownFilesInv, ViewsShowOnlyFiles, Holds, Shows
<1> QED
  BY <1>1, <1>2, <1>3, PTL DEF ServiceSpec

=============================================================================
