--------------------------- MODULE FileStoreProofs ---------------------------
(***************************************************************************)
(* The service implements FileStore: when the rules for Put put files at   *)
(* Home and the rules for Get get them from there (HomeAssumption), every  *)
(* call takes effect at once, whatever the other managers, the clients and *)
(* the master do and whenever they crash.  The witness is HomeFile and     *)
(* HomeProgress: the files at Home, and how far each call is.              *)
(***************************************************************************)
EXTENDS StorageServiceProofs

-----------------------------------------------------------------------------
(* What ActsAsFileStore rests on besides: a call carries out a rule for its *)
(* operation and reports it when it has been through its actions, and what *)
(* Home has still to do is a Put that has failed.                          *)
CarriesOut(t, c) ==
  LET action == c.rule.rule.action IN
  /\ HasARule(c) => c.rule.rule.op_type = t.op
  /\ c.pc = "copying" => action[c.idx].type = "copy_from"
  /\ c.pc = "reporting" /\ t.op = "PUT" => c.idx > Len(action)
  /\ c.pc = "last" => t.op = "GET" /\ action # <<>> /\ action[Len(action)].type = "get"

LateAtHome(t) ==
  /\ t \in Calls
  /\ t.op = "PUT"
  /\ work[t] = WriteWork(Home, t.key, t.value)
  /\ call[t].pc = "returned"

HomeInv ==
  /\ \A c \in Clients : \A k \in DOMAIN rule_db[c] : rule_db[c][k].rule.op_type = k[1]
  /\ \A t \in Calls : CarriesOut(t, call[t])
  /\ \A t \in Threads : work[t].at = Home => LateAtHome(t)

(* The step neither adds to what Home has still to do nor takes from it.   *)
HomeWorkStays ==
  \A t \in Threads : work[t].at = Home \/ work'[t].at = Home => work'[t] = work[t]

-----------------------------------------------------------------------------
(* The abstract state. *)

LEMMA ProgressCases ==
  ASSUME NEW c
  PROVE  /\ c.pc = "not_made" => Progress(c) = [state |-> "not_made"]
         /\ c.pc = "returned" =>
              Progress(c) = [state |-> "answered", status |-> c.status, value |-> c.value]
         /\ c.pc \in {"action", "copying", "fallthrough", "reporting"} =>
              Progress(c) = IF PutAtHome(c) THEN [state |-> "written"] ELSE [state |-> "pending"]
         /\ c.pc \in {"has_rule", "get_rule", "last"} => Progress(c) = [state |-> "pending"]
BY DEF Progress

LEMMA StateField ==
  ASSUME NEW p, NEW x, p = [state |-> x]
  PROVE  p.state = x
OBVIOUS

LEMMA ReturnProgress ==
  ASSUME NEW status, NEW value
  PROVE  Progress(Return(status, value))
           = [state |-> "answered", status |-> status, value |-> value]
<1> PICK c : c = Return(status, value)
  OBVIOUS
<1>1. c.pc = "returned" /\ c.status = status /\ c.value = value
  BY DEF Return
<1> QED
  BY <1>1, ProgressCases

LEMMA NoWorkAtHome ==
  ASSUME Home \in Managers
  PROVE  NoWork.at # Home
<1> PICK at : at = [introduce_case |-> "not_set"]
  OBVIOUS
<1>1. at # Home
  BY DEF Managers
<1> QED
  BY <1>1 DEF NoWork

(* How far a call is that has not returned.                                *)
LEMMA OnItsWay ==
  ASSUME HomeInv, NEW t \in Calls, call[t].pc # "returned"
  PROVE  work[t].at # Home /\ HomeProgress[t] = Progress(call[t])
<1>1. work[t].at # Home
  BY ClientAssumption DEF HomeInv, LateAtHome
<1> QED
  BY <1>1 DEF HomeProgress

(* How the step of a call shows in the progress of the calls.              *)
LEMMA GotoProgress ==
  ASSUME ClientTypeOK, HomeInv, NEW t \in Calls, call[t].pc # "returned", NEW s, Goto(t, s),
         HomeWorkStays
  PROVE  HomeProgress' = [HomeProgress EXCEPT ![t] = Progress(s)]
<1>1. \A u \in Calls : call'[u] = IF u = t THEN s ELSE call[u]
  BY DEF Goto, ClientTypeOK
<1>2. Calls \subseteq Threads /\ work[t].at # Home
  BY OnItsWay, ClientAssumption
<1>3. \A u \in Calls : work'[u].at = Home <=> work[u].at = Home
  BY <1>2 DEF HomeWorkStays
<1>4. ASSUME NEW u \in Calls
      PROVE  HomeProgress'[u] = IF u = t THEN Progress(s) ELSE HomeProgress[u]
  <2>1. Progress(call[u])' = Progress(call'[u])
    BY DEF Progress, PutAtHome
  <2> QED
    BY <1>1, <1>2, <1>3, <2>1 DEF HomeProgress
<1>5. HomeProgress' = [u \in Calls |-> HomeProgress'[u]] /\ DOMAIN HomeProgress = Calls
  BY DEF HomeProgress
<1> QED
  BY <1>4, <1>5

(* A step that leaves the files at Home alone and takes a call to a state  *)
(* of the same progress is invisible.                                      *)
LEMMA SameProgress ==
  ASSUME ClientTypeOK, HomeInv, NEW t \in Calls, call[t].pc # "returned", NEW s, Goto(t, s),
         HomeWorkStays, Progress(s) = Progress(call[t])
  PROVE  UNCHANGED HomeProgress
<1>1. HomeProgress' = [HomeProgress EXCEPT ![t] = Progress(s)]
  BY GotoProgress
<1>2. HomeProgress[t] = Progress(s)
  BY OnItsWay
<1> QED
  BY <1>1, <1>2 DEF HomeProgress

LEMMA HomeFileStays ==
  ASSUME store'[Home] = store[Home]
  PROVE  UNCHANGED HomeFile
BY DEF HomeFile, Read

LEMMA CallsStay ==
  ASSUME UNCHANGED call, HomeWorkStays
  PROVE  UNCHANGED HomeProgress
<1>1. \A t \in Calls : work'[t].at = Home <=> work[t].at = Home
  BY ClientAssumption DEF HomeWorkStays
<1> QED
  BY <1>1 DEF HomeProgress, Progress, PutAtHome

(* A write of another manager's files. *)
LEMMA WriteElsewhere ==
  ASSUME ManagerTypeOK, NEW m \in Managers \ {Home}, NEW files, Write(m, files), Home \in Managers
  PROVE  UNCHANGED HomeFile
<1>1. store'[Home] = store[Home]
  BY DEF ManagerTypeOK, Write
<1> QED
  BY <1>1, HomeFileStays

(* A put at Home. *)
LEMMA WriteAtHome ==
  ASSUME ManagerTypeOK, Home \in Managers, NEW key \in Keys, NEW value,
         Write(Home, Bind(store[Home], key, value))
  PROVE  HomeFile' = [HomeFile EXCEPT ![key] = value]
<1> PICK files : files = Bind(store[Home], key, value)
  OBVIOUS
<1>1. store'[Home] = files
  BY HomeAssumption DEF Write, ManagerTypeOK
<1>2. /\ DOMAIN files = DOMAIN store[Home] \cup {key}
      /\ files[key] = value
      /\ \A k \in DOMAIN store[Home] \ {key} : files[k] = store[Home][k]
  BY DEF Bind
<1>3. \A k \in Keys : Read(Home, k)' = IF k = key THEN value ELSE Read(Home, k)
  BY <1>1, <1>2 DEF Read
<1> QED
  BY <1>3 DEF HomeFile

-----------------------------------------------------------------------------
(* HomeInv. *)

LEMMA HomeFrame ==
  ASSUME HomeInv, UNCHANGED <<clientVars, work>>
  PROVE  HomeInv'
BY DEF HomeInv, clientVars, CarriesOut, HasARule, LateAtHome

LEMMA HomeGoto ==
  ASSUME HomeInv, ClientTypeOK, NEW t \in Calls, call[t].pc # "returned", NEW s, Goto(t, s),
         CarriesOut(t, s), HomeWorkStays
  PROVE  HomeInv'
<1>1. \A u \in Calls : call'[u] = IF u = t THEN s ELSE call[u]
  BY DEF Goto, ClientTypeOK
<1>2. \A u \in Calls : CarriesOut(u, call[u])'
  BY <1>1 DEF HomeInv, CarriesOut, HasARule
<1>3. UNCHANGED rule_db
  BY DEF Goto
<1>4. \A u \in Threads : work'[u].at = Home => LateAtHome(u)'
  BY <1>1 DEF HomeInv, HomeWorkStays, LateAtHome
<1> QED
  BY <1>2, <1>3, <1>4 DEF HomeInv

LEMMA HomeQuiet ==
  ASSUME HomeInv, UNCHANGED clientVars, HomeWorkStays
  PROVE  HomeInv' /\ UNCHANGED HomeProgress
<1>1. \A u \in Threads : work'[u].at = Home => LateAtHome(u)'
  BY DEF HomeInv, HomeWorkStays, LateAtHome, clientVars
<1>2. HomeInv'
  BY <1>1 DEF HomeInv, clientVars, CarriesOut, HasARule
<1> QED
  BY <1>2, CallsStay DEF clientVars

LEMMA ReturnCarriesOut ==
  ASSUME NEW t, NEW status, NEW value
  PROVE  CarriesOut(t, Return(status, value))
BY DEF CarriesOut, Return, HasARule

(* RuleDb files a rule under its operation. *)
LEMMA HomeRuleHandler ==
  ASSUME HomeInv, ClientTypeOK, NEW h, h.to \in Clients, ClientRuleHandler(h), UNCHANGED work
  PROVE  HomeInv'
<1> DEFINE r == [rule |-> h.rule, uri |-> h.uri]
           k == <<h.rule.op_type, h.rule.key>>
           db == rule_db[h.to]
<1>1. \A j \in DOMAIN db : db[j].rule.op_type = j[1]
  BY DEF HomeInv
<1>2. r.rule.op_type = k[1]
  OBVIOUS
<1>3. \/ rule_db' = [rule_db EXCEPT ![h.to] = Bind(db, k, r)]
      \/ rule_db' = [rule_db EXCEPT ![h.to] = Unbind(db, k)]
  BY DEF ClientRuleHandler, AddRule, EraseRule
<1> HIDE DEF r, k
<1>4. \A j \in DOMAIN Bind(db, k, r) : Bind(db, k, r)[j].rule.op_type = j[1]
  BY <1>1, <1>2 DEF Bind
<1>5. \A j \in DOMAIN Unbind(db, k) : Unbind(db, k)[j].rule.op_type = j[1]
  BY <1>1 DEF Unbind, Restrict
<1>6. \A c \in Clients : \A j \in DOMAIN rule_db'[c] : rule_db'[c][j].rule.op_type = j[1]
  <2>1. \A c \in Clients : \/ c = h.to /\ (rule_db'[c] = Bind(db, k, r) \/ rule_db'[c] = Unbind(db, k))
                           \/ rule_db'[c] = rule_db[c]
    BY <1>3 DEF ClientTypeOK
  <2> HIDE DEF db
  <2> QED
    BY <1>4, <1>5, <2>1 DEF HomeInv
<1>7. UNCHANGED <<call, work>>
  BY DEF ClientRuleHandler
<1> QED
  BY <1>6, <1>7 DEF HomeInv, CarriesOut, HasARule, LateAtHome

-----------------------------------------------------------------------------
(* Which actions are carried out at Home. *)

LEMMA ActionAtHome ==
  ASSUME ServiceInv, HomeInv, Home \in Managers, NEW t \in Calls, HasARule(call[t]),
         NEW i \in AtHome(call[t].rule.rule)
  PROVE  /\ t.op = "PUT" => /\ call[t].rule.rule.action[i].type = "put"
                            /\ AtHome(call[t].rule.rule) = {i}
         /\ t.op = "GET" => call[t].rule.rule.action[i].type = "get"
<1> PICK r : r = call[t].rule.rule
  OBVIOUS
<1>1. r.op_type = t.op
  BY DEF HomeInv, CarriesOut
<1>2. r \in Rules
  BY DEF ServiceInv, ClientInv, CallInv, Installed, MasterInv, MasterTypeOK
<1> QED
  BY <1>1, <1>2, HomeAssumption

LEMMA ListensAtHome ==
  ASSUME ServiceInv, Home \in Managers, NEW t \in Calls, HasARule(call[t]),
         NEW i \in DOMAIN call[t].rule.rule.action,
         1 \in DOMAIN call[t].rule.rule.action[i].mgrs,
         NEW m \in Managers, Uri(m) = call[t].rule.uri[<<i, 1>>]
  PROVE  m = Home <=> i \in AtHome(call[t].rule.rule)
<1> PICK r : r = call[t].rule
  OBVIOUS
<1>1. Routed(r)
  BY DEF ServiceInv, ClientInv, CallInv, Installed
<1>2. <<i, 1>> \in Slots(r.rule) /\ NameAt(r.rule, <<i, 1>>) = r.rule.action[i].mgrs[1]
  BY DEF Slots, NameAt
<1>3. PICK p \in Peers : GenerateName(p) = r.rule.action[i].mgrs[1] /\ Uri(p) = Uri(m)
  BY <1>1, <1>2 DEF Routed, RouteOf
<1>4. m = Home <=> p = Home
  BY <1>3, HomeAssumption DEF Peers
<1>5. p = Home <=> i \in AtHome(r.rule)
  BY <1>3, HomeAssumption DEF AtHome
<1> QED
  BY <1>4, <1>5

(* The same, for the action that a call is at.                             *)
LEMMA CurrentAtHome ==
  ASSUME ServiceInv, Home \in Managers, NEW t \in Calls,
         call[t].pc \in {"action", "copying"}, call[t].idx <= Len(call[t].rule.rule.action),
         CurrentAction(t).type # "not_set", NEW m \in Managers, Uri(m) = UriOf(t, 1)
  PROVE  m = Home <=> call[t].idx \in AtHome(call[t].rule.rule)
<1>1. CurrentAction(t) \in Actions /\ call[t].idx \in DOMAIN call[t].rule.rule.action
  BY CurrentActionType DEF ServiceInv, ServiceTypeOK
<1>2. 1 \in DOMAIN CurrentAction(t).mgrs
  BY <1>1 DEF Actions
<1> QED
  BY <1>1, <1>2, ListensAtHome DEF CurrentAction, UriOf, HasARule

(* What a call has sent to Home is a Put, the one that its rule has there.  *)
LEMMA SentToHome ==
  ASSUME ServiceInv, HomeInv, Home \in Managers, NEW t \in Calls, NEW w \in Sent(t), w.at = Home
  PROVE  /\ t.op = "PUT" /\ w = WriteWork(Home, t.key, t.value)
         /\ Progress(call[t]) = [state |-> "pending"]
<1> PICK m \in ListeningAt(UriOf(t, 1)) :
      \/ AtAction(t, {"copy_from"}) /\ w = FetchWork(m, CurrentAction(t).key, UriOf(t, 2))
      \/ AtAction(t, {"remove"}) /\ w = RemoveWork(m, CurrentAction(t).key)
      \/ PutAllowed(t) /\ w = WriteWork(m, t.key, t.value)
  BY SentCases
<1>1. m = Home /\ Uri(m) = UriOf(t, 1)
  BY DEF FetchWork, RemoveWork, WriteWork, ListeningAt
<1>2. /\ call[t].pc = "action" /\ call[t].idx <= Len(call[t].rule.rule.action)
      /\ CurrentAction(t).type \in {"copy_from", "remove", "put"}
  BY AtActionFields DEF AtAction, PutAllowed, ServiceInv, ServiceTypeOK
<1>3. call[t].idx \in AtHome(call[t].rule.rule)
  BY <1>1, <1>2, CurrentAtHome
<1>4. t.op = "PUT" /\ CurrentAction(t).type = "put" /\ AtHome(call[t].rule.rule) = {call[t].idx}
  BY <1>2, <1>3, ActionAtHome, ClientAssumption DEF CurrentAction, HasARule
<1>5. w = WriteWork(Home, t.key, t.value)
  BY <1>1, <1>4 DEF AtAction
<1>6. call[t].idx \in Nat
  BY <1>2, RunningFields DEF ServiceInv, ServiceTypeOK
<1>7. ~PutAtHome(call[t])
  BY <1>4, <1>6 DEF PutAtHome
<1> QED
  BY <1>2, <1>4, <1>5, <1>7, ProgressCases

LEMMA HomeAbort ==
  ASSUME ServiceInv, HomeInv, Home \in Managers, NEW c \in Clients, Abort(c)
  PROVE  HomeInv'
<1> PICK s : s = Return("UNAVAILABLE", "")
  OBVIOUS
<1>1. \A u \in Calls : IF u.client = c /\ InProgress(u) THEN call'[u] = s ELSE call'[u] = call[u]
  BY DEF Abort
<1>2. \A u \in Calls : CarriesOut(u, s)
  BY ReturnCarriesOut
<1>3. \A u \in Calls : CarriesOut(u, call[u])'
  <2>1. \A u \in Calls : CarriesOut(u, call'[u])
    BY <1>1, <1>2 DEF HomeInv
  <2> QED
    BY <2>1 DEF CarriesOut, HasARule
<1>4. ASSUME NEW d \in Clients, NEW k \in DOMAIN rule_db'[d]
      PROVE  rule_db'[d][k].rule.op_type = k[1]
  <2>1. k \in DOMAIN rule_db[d] /\ rule_db'[d][k] = rule_db[d][k]
    BY <1>4 DEF Abort, ClientTypeOK, EmptyMap, ServiceInv, ServiceTypeOK
  <2> QED
    BY <2>1 DEF HomeInv
<1>5. ASSUME NEW u \in Threads, work'[u].at = Home
      PROVE  LateAtHome(u)'
  <2>1. CASE work'[u] = work[u]
    <3>1. LateAtHome(u)
      BY <1>5, <2>1 DEF HomeInv
    <3>2. call'[u] = call[u]
      BY <1>1, <3>1 DEF LateAtHome, InProgress
    <3> QED
      BY <2>1, <3>1, <3>2 DEF LateAtHome
  <2>2. CASE u \in Calls /\ u.client = c /\ InProgress(u) /\ work'[u] \in Sent(u)
    <3>1. u.op = "PUT" /\ work'[u] = WriteWork(Home, u.key, u.value)
      BY <1>5, <2>2, SentToHome
    <3>2. call'[u].pc = "returned"
      <4>1. s.pc = "returned"
        BY DEF Return
      <4> QED
        BY <1>1, <2>2, <4>1
    <3> QED
      BY <2>2, <3>1, <3>2 DEF LateAtHome, WriteWork
  <2> QED
    BY <2>1, <2>2, AbortWork
<1> QED
  BY <1>3, <1>4, <1>5 DEF HomeInv

(* The end of a client fails all of its calls at once; those that have     *)
(* sent their Put to Home are late.                                        *)
LEMMA AbortFails ==
  ASSUME ServiceInv, HomeInv, Home \in Managers, NEW c \in Clients, Abort(c)
  PROVE  FS!Fail
<1> DEFINE failed == {t \in Calls : t.client = c /\ InProgress(t)}
           late == {t \in failed : work'[t].at = Home}
<1>1. \A t \in failed : HomeProgress[t] = Progress(call[t]) /\ work[t].at # Home
  BY OnItsWay DEF InProgress
<1>2. \A t \in failed : HomeProgress[t].state \in {"pending", "written"}
  <2> SUFFICES ASSUME NEW t \in failed PROVE Progress(call[t]).state \in {"pending", "written"}
    BY <1>1
  <2>1. call[t].pc \in {"has_rule", "get_rule", "action", "copying", "fallthrough", "reporting", "last"}
    BY DEF ClientTypeOK, CallStates, NotMade, Running, Returned, InProgress, ServiceInv, ServiceTypeOK
  <2> QED
    BY <2>1, ProgressCases
<1>3. \A t \in late : t.op = "PUT" /\ HomeProgress[t].state = "pending"
  <2> TAKE t \in late
  <2>1. t \in Calls /\ t \in Threads /\ work'[t].at = Home /\ work[t].at # Home
    BY <1>1, ClientAssumption
  <2>2. work'[t] \in Sent(t)
    BY <2>1, AbortWork
  <2>3. t.op = "PUT" /\ Progress(call[t]) = [state |-> "pending"]
    BY <2>1, <2>2, SentToHome
  <2> QED
    BY <1>1, <2>3, StateField
<1>4. \A t \in Calls : call'[t] = IF t \in failed THEN Return("UNAVAILABLE", "") ELSE call[t]
  BY DEF Abort
<1>5. \A t \in Calls \ failed : work'[t] = work[t]
  BY AbortWork, ClientAssumption
<1>6. UNCHANGED HomeFile
  BY AbortWork, HomeFileStays
<1>7. \A t \in failed : t \in late <=> work'[t].at = Home
  OBVIOUS
<1>8. /\ failed \in SUBSET {t \in Calls : HomeProgress[t].state \in {"pending", "written"}}
      /\ late \in SUBSET {t \in failed : t.op = "PUT" /\ HomeProgress[t].state = "pending"}
  BY <1>2, <1>3
<1> HIDE DEF failed, late
<1>9. ASSUME NEW t \in Calls
      PROVE  HomeProgress'[t] =
               IF t \in failed
               THEN [state |-> IF t \in late THEN "unresolved" ELSE "answered",
                     status |-> "UNAVAILABLE", value |-> ""]
               ELSE HomeProgress[t]
  <2>1. Progress(call[t])' = Progress(call'[t])
    BY DEF Progress, PutAtHome
  <2>2. CASE t \notin failed
    BY <1>4, <1>5, <2>1, <2>2 DEF HomeProgress
  <2>3. CASE t \in failed
    <3> PICK s : s = Return("UNAVAILABLE", "")
      OBVIOUS
    <3>1. call'[t] = s /\ s.status = "UNAVAILABLE" /\ s.value = ""
      BY <1>4, <2>3 DEF Return
    <3>2. Progress(s) = [state |-> "answered", status |-> "UNAVAILABLE", value |-> ""]
      BY ReturnProgress
    <3> QED
      BY <1>7, <2>1, <2>3, <3>1, <3>2 DEF HomeProgress
  <2> QED
    BY <2>2, <2>3
<1>10. HomeProgress' = [t \in Calls |->
         IF t \in failed
         THEN [state |-> IF t \in late THEN "unresolved" ELSE "answered",
               status |-> "UNAVAILABLE", value |-> ""]
         ELSE HomeProgress[t]]
  BY <1>9 DEF HomeProgress
<1>11. "UNAVAILABLE" \in Statuses \ {"OK"}
  BY DEF Statuses
<1> QED
  BY <1>6, <1>8, <1>10, <1>11 DEF FS!Fail

(* An action that is not a put at Home leaves the progress of the call.    *)
LEMMA ExecutedProgress ==
  ASSUME ServiceInv, NEW t \in Calls, call[t].pc \in {"action", "copying"},
         call[t].idx <= Len(call[t].rule.rule.action),
         ~(CurrentAction(t).type = "put" /\ call[t].idx \in AtHome(call[t].rule.rule))
  PROVE  Progress(Executed(t)) = Progress(call[t])
<1> PICK e : e = Executed(t)
  OBVIOUS
<1>1. /\ e.rule = call[t].rule
      /\ e.pc \in {"action", "fallthrough"}
      /\ e.idx = call[t].idx \/ e.idx = call[t].idx + 1
  BY ExecutedInv DEF ServiceInv, ServiceTypeOK
<1>2. call[t].idx \in Nat /\ call[t].rule.rule.action \in Seq(Actions)
  BY RunningFields DEF ServiceInv, ServiceTypeOK
<1>3. AtHome(call[t].rule.rule) \subseteq Nat
  <2>1. DOMAIN call[t].rule.rule.action \subseteq Nat
    BY <1>2
  <2> QED
    BY <2>1 DEF AtHome
<1>4. PutAtHome(e) <=> PutAtHome(call[t])
  BY <1>1, <1>2, <1>3 DEF PutAtHome, CurrentAction
<1> QED
  BY <1>1, <1>4, ProgressCases

LEMMA ExecutedCarriesOut ==
  ASSUME ServiceInv, HomeInv, NEW t \in Calls, call[t].pc \in {"action", "copying"},
         call[t].idx <= Len(call[t].rule.rule.action)
  PROVE  CarriesOut(t, Executed(t))
<1> PICK e : e = Executed(t)
  OBVIOUS
<1>1. e.rule = call[t].rule /\ e.pc \in {"action", "fallthrough"}
  BY ExecutedInv DEF ServiceInv, ServiceTypeOK
<1>2. call[t].rule.rule.op_type = t.op
  BY DEF HomeInv, CarriesOut, HasARule
<1> QED
  BY <1>1, <1>2 DEF CarriesOut

-----------------------------------------------------------------------------
(* Every step of the service is a step of FileStore, or none. *)

FileStoreStep == [FS!FileStoreNext]_FS!fileStoreVars

Simulated == HomeInv' /\ FileStoreStep

LEMMA Stutter ==
  ASSUME UNCHANGED HomeFile, UNCHANGED HomeProgress
  PROVE  FileStoreStep
BY DEF FileStoreStep, FS!fileStoreVars

(* Steps that concern the master or the rules only.                        *)
LEMMA QuietSimulated ==
  ASSUME HomeInv', UNCHANGED <<store, work, call>>
  PROVE  Simulated
<1>1. UNCHANGED HomeFile /\ UNCHANGED HomeProgress
  BY HomeFileStays, CallsStay DEF HomeWorkStays
<1> QED
  BY <1>1, Stutter DEF Simulated

LEMMA AbortSimulated ==
  ASSUME ServiceInv, HomeInv, Home \in Managers, NEW c \in Clients, Abort(c)
  PROVE  Simulated
BY HomeAbort, AbortFails DEF Simulated, FileStoreStep, FS!FileStoreNext

(* A step of a call that FileStore does not see.                           *)
LEMMA GotoSimulated ==
  ASSUME ServiceInv, HomeInv, NEW t \in Calls, call[t].pc # "returned", NEW s, Goto(t, s),
         CarriesOut(t, s), HomeWorkStays, UNCHANGED HomeFile, Progress(s) = Progress(call[t])
  PROVE  Simulated
<1>1. HomeInv'
  BY HomeGoto DEF ServiceInv, ServiceTypeOK
<1>2. UNCHANGED HomeProgress
  BY SameProgress DEF ServiceInv, ServiceTypeOK
<1> QED
  BY <1>1, <1>2, Stutter DEF Simulated

(* Nothing changes at the managers.                                        *)
LEMMA ManagersStay ==
  ASSUME UNCHANGED managerVars
  PROVE  UNCHANGED HomeFile /\ HomeWorkStays
BY HomeFileStays DEF managerVars, HomeWorkStays

LEMMA MakeCallSimulated ==
  ASSUME ServiceInv, HomeInv, NEW t \in Calls, MakeCall(t)
  PROVE  Simulated
<1> PICK s : s = [pc |-> "has_rule"]
  OBVIOUS
<1>1. /\ call[t] = NotMade /\ call[t].pc = "not_made" /\ Goto(t, s)
      /\ UNCHANGED HomeFile /\ HomeWorkStays
  BY ManagersStay DEF MakeCall, NotMade
<1>2. CarriesOut(t, s) /\ Progress(s) = [state |-> "pending"]
  BY ProgressCases DEF CarriesOut, HasARule
<1>3. HomeInv'
  BY <1>1, <1>2, HomeGoto DEF ServiceInv, ServiceTypeOK
<1>4. HomeProgress[t] = [state |-> "not_made"]
  BY <1>1, ProgressCases, OnItsWay
<1>5. HomeProgress' = [HomeProgress EXCEPT ![t] = [state |-> "pending"]]
  BY <1>1, <1>2, GotoProgress DEF ServiceInv, ServiceTypeOK
<1>6. FS!Invoke(t)
  BY <1>1, <1>4, <1>5 DEF FS!Invoke
<1> QED
  BY <1>3, <1>6 DEF Simulated, FileStoreStep, FS!FileStoreNext

(* A call fails on its own.                                                *)
LEMMA ReturnSimulated ==
  ASSUME ServiceInv, HomeInv, NEW t \in Calls, NEW status \in Statuses \ {"OK"},
         Goto(t, Return(status, "")), UNCHANGED managerVars,
         call[t].pc # "returned", Progress(call[t]) = [state |-> "pending"]
  PROVE  Simulated
<1> DEFINE answer == [state |-> "answered", status |-> status, value |-> ""]
<1>1. HomeInv' /\ UNCHANGED HomeFile /\ HomeWorkStays
  BY ReturnCarriesOut, HomeGoto, ManagersStay DEF ServiceInv, ServiceTypeOK
<1>2. HomeProgress' = [HomeProgress EXCEPT ![t] = answer]
  BY <1>1, ReturnProgress, GotoProgress DEF ServiceInv, ServiceTypeOK
<1>3. HomeProgress[t] = [state |-> "pending"]
  BY OnItsWay
<1>4. \E late \in SUBSET {u \in {t} : u.op = "PUT" /\ HomeProgress[u].state = "pending"} :
        HomeProgress' = [u \in Calls |->
          IF u \in {t}
          THEN [state |-> IF u \in late THEN "unresolved" ELSE "answered",
                status |-> status, value |-> ""]
          ELSE HomeProgress[u]]
  <2> WITNESS {} \in SUBSET {u \in {t} : u.op = "PUT" /\ HomeProgress[u].state = "pending"}
  <2> QED
    BY <1>2 DEF HomeProgress
<1>5. {t} \in SUBSET {u \in Calls : HomeProgress[u].state \in {"pending", "written"}}
  <2>1. HomeProgress[t].state = "pending"
    BY <1>3, StateField
  <2> QED
    BY <2>1
<1>6. FS!Fail
  BY <1>1, <1>4, <1>5 DEF FS!Fail
<1> QED
  BY <1>1, <1>6 DEF Simulated, FileStoreStep, FS!FileStoreNext

LEMMA HasMatchingRuleSimulated ==
  ASSUME ServiceInv, HomeInv, Home \in Managers, NEW t \in Calls, HasMatchingRule(t)
  PROVE  Simulated
<1>1. call[t].pc = "has_rule"
  BY DEF HasMatchingRule
<1>2. CASE Abort(t.client)
  BY <1>2, CallFields, AbortSimulated
<1>3. CASE Goto(t, [pc |-> "get_rule"]) /\ UNCHANGED managerVars
  <2> PICK s : s = [pc |-> "get_rule"]
    OBVIOUS
  <2>1. CarriesOut(t, s) /\ Progress(s) = Progress(call[t])
    BY <1>1, ProgressCases DEF CarriesOut, HasARule
  <2> QED
    BY <1>1, <1>3, <2>1, ManagersStay, GotoSimulated
<1> QED
  BY <1>2, <1>3 DEF HasMatchingRule

LEMMA GetMatchingRuleSimulated ==
  ASSUME ServiceInv, HomeInv, Home \in Managers, NEW t \in Calls, GetMatchingRule(t)
  PROVE  Simulated
<1>1. call[t].pc = "get_rule"
  BY DEF GetMatchingRule
<1>2. Progress(call[t]) = [state |-> "pending"]
  BY <1>1, ProgressCases
<1> PICK r : r = rule_db[t.client][<<t.op, t.key>>]
  OBVIOUS
<1> PICK s : s = [pc |-> "action", rule |-> r, idx |-> 1, change |-> <<>>]
  OBVIOUS
<1>3. CASE HasRule(t) /\ Goto(t, s) /\ UNCHANGED managerVars
  <2>1. r.rule.op_type = t.op
    BY <1>3, CallFields DEF HomeInv, HasRule
  <2>2. s.pc = "action" /\ s.rule = r /\ s.idx = 1
    OBVIOUS
  <2>3. CarriesOut(t, s)
    BY <2>1, <2>2 DEF CarriesOut
  <2>4. ~PutAtHome(s)
    <3>1. r \in FilledRules
      BY <1>3, CallFields DEF ServiceInv, ServiceTypeOK, ClientTypeOK, HasRule
    <3>2. r.rule.action \in Seq(Actions)
      BY <3>1, FilledFields
    <3>3. \A i \in DOMAIN r.rule.action : ~(i < 1)
      BY <3>2
    <3> QED
      BY <2>2, <3>3 DEF PutAtHome, AtHome
  <2>5. Progress(s) = Progress(call[t])
    BY <1>2, <2>2, <2>4, ProgressCases
  <2> QED
    BY <1>1, <1>3, <2>3, <2>5, ManagersStay, GotoSimulated
<1>4. CASE Goto(t, Return("UNKNOWN", "")) /\ UNCHANGED managerVars
  BY <1>1, <1>2, <1>4, ReturnSimulated DEF Statuses
<1>5. CASE Abort(t.client)
  BY <1>5, CallFields, AbortSimulated
<1> QED
  BY <1>3, <1>4, <1>5 DEF GetMatchingRule

-----------------------------------------------------------------------------
(* The actions of a rule. *)

LEMMA CopySimulated ==
  ASSUME ServiceInv, HomeInv, Home \in Managers, NEW t \in Calls, ExecuteCopyAction(t)
  PROVE  Simulated
<1> PICK s : s = [call[t] EXCEPT !.pc = "copying"]
  OBVIOUS
<1>1. /\ call[t].pc = "action" /\ call[t].idx <= Len(call[t].rule.rule.action)
      /\ CurrentAction(t).type = "copy_from" /\ Goto(t, s)
  BY AtActionFields DEF ExecuteCopyAction, AtAction, ServiceInv, ServiceTypeOK
<1>2. call[t].idx \notin AtHome(call[t].rule.rule)
  BY <1>1, ActionAtHome, ClientAssumption DEF CurrentAction, HasARule
<1>3. HomeWorkStays
  <2> PICK m \in ListeningAt(UriOf(t, 1)) :
        BeginCopyFrom(t, m, CurrentAction(t).key, UriOf(t, 2))
    BY DEF ExecuteCopyAction
  <2>1. m \in Managers /\ Uri(m) = UriOf(t, 1)
    BY DEF ListeningAt
  <2>2. m # Home
    BY <1>1, <1>2, <2>1, CurrentAtHome
  <2>3. PICK value : work' = [work EXCEPT ![t] = WriteWork(m, CurrentAction(t).key, value)]
    BY DEF BeginCopyFrom
  <2>4. \A u \in Threads : work'[u] = work[u] \/ (u = t /\ work'[u].at = m)
    BY <2>3, CallFields DEF ServiceInv, ServiceTypeOK, ManagerTypeOK, WriteWork
  <2>5. work[t].at # Home
    BY <1>1, OnItsWay
  <2> QED
    BY <2>2, <2>4, <2>5 DEF HomeWorkStays
<1>4. UNCHANGED HomeFile
  BY HomeFileStays DEF ExecuteCopyAction, BeginCopyFrom
<1>5. /\ s.pc = "copying" /\ s.rule = call[t].rule /\ s.idx = call[t].idx
  BY <1>1, RunningFields DEF ServiceInv, ServiceTypeOK
<1>6. CarriesOut(t, s)
  BY <1>1, <1>5 DEF CarriesOut, HomeInv, HasARule, CurrentAction
<1>7. Progress(s) = Progress(call[t])
  <2>1. PutAtHome(s) <=> PutAtHome(call[t])
    BY <1>5 DEF PutAtHome
  <2> QED
    BY <1>1, <1>5, <2>1, ProgressCases
<1> QED
  BY <1>1, <1>3, <1>4, <1>6, <1>7, GotoSimulated

(* An action that is carried out away from Home.                           *)
LEMMA ElsewhereSimulated ==
  ASSUME ServiceInv, HomeInv, NEW t \in Calls, call[t].pc \in {"action", "copying"},
         call[t].idx <= Len(call[t].rule.rule.action),
         ~(CurrentAction(t).type = "put" /\ call[t].idx \in AtHome(call[t].rule.rule)),
         Goto(t, Executed(t)), UNCHANGED HomeFile, HomeWorkStays
  PROVE  Simulated
<1> PICK s : s = Executed(t)
  OBVIOUS
<1>1. CarriesOut(t, s) /\ Progress(s) = Progress(call[t])
  BY ExecutedCarriesOut, ExecutedProgress
<1> QED
  BY <1>1, GotoSimulated

(* What another manager than Home ends or begins of its work.              *)
LEMMA ElsewhereWorkStays ==
  ASSUME Home \in Managers, ManagerTypeOK, NEW t \in Threads, work[t].at # Home,
         NEW w, w.at # Home, work' = [work EXCEPT ![t] = w]
  PROVE  HomeWorkStays
<1>1. \A u \in Threads : work'[u] = IF u = t THEN w ELSE work[u]
  BY DEF ManagerTypeOK
<1> QED
  BY <1>1 DEF HomeWorkStays

(* Home does a Put that has failed.                                        *)
LEMMA WriteLateSimulated ==
  ASSUME ServiceInv, HomeInv, Home \in Managers, NEW t \in Calls, FinishWrite(t), work[t].at = Home
  PROVE  Simulated
<1>1. /\ work[t] = WriteWork(Home, t.key, t.value)
      /\ call[t].pc = "returned" /\ UNCHANGED clientVars
      /\ t \in Threads
  BY CallFields DEF HomeInv, LateAtHome, FinishWrite
<1>2. work[t].key = t.key /\ work[t].value = t.value
  BY <1>1 DEF WriteWork
<1>3. HomeFile' = [HomeFile EXCEPT ![t.key] = t.value]
  BY <1>2, WriteAtHome, CallFields DEF FinishWrite, EndWrite, ServiceInv, ServiceTypeOK
<1>4. \A u \in Threads : work'[u] = IF u = t THEN NoWork ELSE work[u]
  BY DEF FinishWrite, EndWrite, ServiceInv, ServiceTypeOK, ManagerTypeOK
<1>5. HomeInv'
  <2>1. \A u \in Threads : work'[u].at = Home => LateAtHome(u)'
    BY <1>1, <1>4, NoWorkAtHome DEF HomeInv, LateAtHome, clientVars
  <2> QED
    BY <1>1, <2>1 DEF HomeInv, clientVars, CarriesOut, HasARule
<1> PICK status, value : status = call[t].status /\ value = call[t].value
  OBVIOUS
<1>6. HomeProgress[t] = [state |-> "unresolved", status |-> status, value |-> value]
  BY DEF HomeProgress
<1>7. Progress(call[t]) = [state |-> "answered", status |-> status, value |-> value]
  BY <1>1, ProgressCases
<1>8. ASSUME NEW u \in Calls
      PROVE  HomeProgress'[u] = IF u = t THEN Progress(call[t]) ELSE HomeProgress[u]
  <2>1. Progress(call[u])' = Progress(call[u])
    BY <1>1 DEF clientVars, Progress, PutAtHome
  <2> QED
    BY <1>1, <1>4, <2>1, NoWorkAtHome, CallFields DEF HomeProgress, clientVars
<1>9. HomeProgress' = [HomeProgress EXCEPT ![t] = Progress(call[t])]
  <2>1. HomeProgress' = [u \in Calls |-> HomeProgress'[u]] /\ DOMAIN HomeProgress = Calls
    BY DEF HomeProgress
  <2> QED
    BY <1>8, <2>1
<1>10. /\ HomeProgress[t].state = "unresolved"
       /\ HomeProgress[t].status = status /\ HomeProgress[t].value = value
  BY <1>6
<1>11. FS!WriteLate(t)
  BY <1>3, <1>7, <1>9, <1>10 DEF FS!WriteLate, FS!Answer
<1> QED
  BY <1>5, <1>11 DEF Simulated, FileStoreStep, FS!FileStoreNext

LEMMA FinishWriteSimulated ==
  ASSUME ServiceInv, HomeInv, Home \in Managers, NEW t \in Calls, FinishWrite(t)
  PROVE  Simulated
<1>1. CASE work[t].at = Home
  BY <1>1, WriteLateSimulated
<1>2. CASE work[t].at # Home
  <2>1. work[t].at \in Managers \ {Home} /\ t \in Threads
    BY <1>2, CallFields, WorkFields DEF FinishWrite, EndWrite, ServiceInv, ServiceTypeOK
  <2>2. UNCHANGED HomeFile
    <3> PICK m, files : m = work[t].at /\ Write(m, files)
      BY DEF FinishWrite, EndWrite
    <3> QED
      BY <2>1, WriteElsewhere DEF ServiceInv, ServiceTypeOK
  <2>3. HomeWorkStays
    BY <1>2, <2>1, NoWorkAtHome, ElsewhereWorkStays
    DEF FinishWrite, EndWrite, ServiceInv, ServiceTypeOK
  <2>4. CASE call[t].pc = "copying" /\ Goto(t, Executed(t))
    <3>1. call[t].idx <= Len(call[t].rule.rule.action)
      BY <2>4 DEF ServiceInv, ClientInv, CallInv
    <3>2. CurrentAction(t).type # "put"
      BY <2>4 DEF HomeInv, CarriesOut, CurrentAction
    <3> QED
      BY <2>2, <2>3, <2>4, <3>1, <3>2, ElsewhereSimulated
  <2>5. CASE UNCHANGED clientVars
    BY <2>2, <2>3, <2>5, HomeQuiet, Stutter DEF Simulated
  <2> QED
    BY <2>4, <2>5 DEF FinishWrite
<1> QED
  BY <1>1, <1>2

(* What a client that is gone has copied or removed is not at Home.        *)
LEMMA BelatedWorkSimulated ==
  ASSUME ServiceInv, HomeInv, Home \in Managers, NEW t \in Calls, BelatedWork(t)
  PROVE  Simulated
<1>1. work[t].pc \in {"fetch", "remove"} /\ UNCHANGED clientVars /\ t \in Threads
  BY CallFields DEF BelatedWork, BeginFetch, EndRemove
<1>2. work[t].at \in Managers \ {Home}
  <2>1. work[t].at \in Managers
    BY <1>1, WorkFields DEF ServiceInv, ServiceTypeOK
  <2>2. work[t].at # Home
    <3> SUFFICES ASSUME work[t].at = Home PROVE FALSE
      OBVIOUS
    <3>1. work[t] = WriteWork(Home, t.key, t.value)
      BY <1>1 DEF HomeInv, LateAtHome
    <3>2. work[t].pc = "write"
      BY <3>1 DEF WriteWork
    <3> QED
      BY <1>1, <3>2
  <2> QED
    BY <2>1, <2>2
<1>3. CASE BeginFetch(t)
  <2>1. PICK key, value : work' = [work EXCEPT ![t] = WriteWork(work[t].at, key, value)]
    BY <1>3 DEF BeginFetch, BeginCopyFrom
  <2>2. WriteWork(work[t].at, key, value).at = work[t].at
    BY DEF WriteWork
  <2>3. HomeWorkStays
    BY <1>1, <1>2, <2>1, <2>2, ElsewhereWorkStays DEF ServiceInv, ServiceTypeOK
  <2>4. UNCHANGED HomeFile
    BY <1>3, HomeFileStays DEF BeginFetch, BeginCopyFrom
  <2> QED
    BY <1>1, <2>3, <2>4, HomeQuiet, Stutter DEF Simulated
<1>4. CASE EndRemove(t)
  <2>1. HomeWorkStays
    BY <1>1, <1>2, <1>4, NoWorkAtHome, ElsewhereWorkStays DEF EndRemove, ServiceInv, ServiceTypeOK
  <2>2. UNCHANGED HomeFile
    <3> PICK m, files : m = work[t].at /\ Write(m, files)
      BY <1>4 DEF EndRemove
    <3> QED
      BY <1>2, WriteElsewhere DEF ServiceInv, ServiceTypeOK
  <2> QED
    BY <1>1, <2>1, <2>2, HomeQuiet, Stutter DEF Simulated
<1> QED
  BY <1>3, <1>4 DEF BelatedWork

LEMMA RemoveSimulated ==
  ASSUME ServiceInv, HomeInv, Home \in Managers, NEW t \in Calls, ExecuteRemoveAction(t)
  PROVE  Simulated
<1>1. /\ call[t].pc = "action" /\ call[t].idx <= Len(call[t].rule.rule.action)
      /\ CurrentAction(t).type = "remove" /\ Goto(t, Executed(t))
  BY AtActionFields DEF ExecuteRemoveAction, AtAction, ServiceInv, ServiceTypeOK
<1>2. call[t].idx \notin AtHome(call[t].rule.rule)
  BY <1>1, ActionAtHome, ClientAssumption DEF CurrentAction, HasARule
<1>3. UNCHANGED HomeFile
  <2> PICK m \in ListeningAt(UriOf(t, 1)) : ManagerRemove(m, CurrentAction(t).key)
    BY DEF ExecuteRemoveAction
  <2>1. m \in Managers /\ Uri(m) = UriOf(t, 1)
    BY DEF ListeningAt
  <2>2. m # Home
    BY <1>1, <1>2, <2>1, CurrentAtHome
  <2> PICK files : files = Unbind(store[m], CurrentAction(t).key)
    OBVIOUS
  <2>3. Write(m, files)
    BY DEF ManagerRemove
  <2> QED
    BY <2>1, <2>2, <2>3, WriteElsewhere DEF ServiceInv, ServiceTypeOK
<1>4. HomeWorkStays
  BY DEF ExecuteRemoveAction, HomeWorkStays
<1> QED
  BY <1>1, <1>3, <1>4, ElsewhereSimulated

LEMMA SkipSimulated ==
  ASSUME ServiceInv, HomeInv, NEW t \in Calls, SkipAction(t)
  PROVE  Simulated
<1> PICK s : s = NextAction(t)
  OBVIOUS
<1>1. /\ call[t].pc = "action" /\ call[t].idx <= Len(call[t].rule.rule.action)
      /\ CurrentAction(t).type = "not_set" /\ Goto(t, s)
  BY AtActionFields DEF SkipAction, AtAction, ServiceInv, ServiceTypeOK
<1>2. UNCHANGED HomeFile /\ HomeWorkStays
  BY ManagersStay DEF SkipAction
<1>3. s.pc = "action" /\ s.rule = call[t].rule /\ s.idx = call[t].idx + 1
  BY <1>1, NextActionInv DEF ServiceInv, ServiceTypeOK
<1>4. CarriesOut(t, s)
  BY <1>1, <1>3 DEF CarriesOut, HomeInv, HasARule
<1>5. PutAtHome(s) <=> PutAtHome(call[t])
  <2>1. call[t].idx \in Nat /\ DOMAIN call[t].rule.rule.action \subseteq Nat
    <3>1. call[t].idx \in Nat /\ call[t].rule.rule.action \in Seq(Actions)
      BY <1>1, RunningFields DEF ServiceInv, ServiceTypeOK
    <3> QED
      BY <3>1
  <2>2. AtHome(call[t].rule.rule) \subseteq Nat
    BY <2>1 DEF AtHome
  <2> QED
    BY <1>1, <1>3, <2>1, <2>2 DEF PutAtHome, CurrentAction
<1>6. Progress(s) = Progress(call[t])
  BY <1>1, <1>3, <1>5, ProgressCases
<1> QED
  BY <1>1, <1>2, <1>4, <1>6, GotoSimulated

-----------------------------------------------------------------------------
(* Put, Get and the report. *)

(* A Put that has been through its rule has put its file at Home.          *)
LEMMA ThroughHome ==
  ASSUME ServiceInv, HomeInv, Home \in Managers, NEW t \in Calls, t.op = "PUT",
         call[t].pc = "reporting"
  PROVE  PutAtHome(call[t])
<1> PICK r : r = call[t].rule.rule
  OBVIOUS
<1>1. r \in Rules /\ r.op_type = "PUT" /\ call[t].idx > Len(r.action)
  BY RunningFields DEF HomeInv, CarriesOut, HasARule, ServiceInv, ServiceTypeOK
<1>2. PICK i \in DOMAIN r.action : i \in AtHome(r) /\ r.action[i].type = "put"
  BY <1>1, HomeAssumption
<1>3. r.action \in Seq(Actions) /\ call[t].idx \in Nat
  BY RunningFields DEF ServiceInv, ServiceTypeOK
<1>4. i < call[t].idx
  BY <1>1, <1>3
<1> QED
  BY <1>2, <1>4 DEF PutAtHome

(* And a Get puts nothing there. *)
LEMMA GetPutsNothing ==
  ASSUME ServiceInv, HomeInv, Home \in Managers, NEW t \in Calls, t.op = "GET", HasARule(call[t])
  PROVE  ~PutAtHome(call[t])
<1>1. \A i \in AtHome(call[t].rule.rule) : call[t].rule.rule.action[i].type = "get"
  BY ActionAtHome
<1> QED
  BY <1>1 DEF PutAtHome

LEMMA PutSimulated ==
  ASSUME ServiceInv, HomeInv, Home \in Managers, NEW t \in Calls, ExecutePutAction(t)
  PROVE  Simulated
<1>1. /\ call[t].pc = "action" /\ call[t].idx <= Len(call[t].rule.rule.action)
      /\ CurrentAction(t).type = "put" /\ t.op = "PUT" /\ Goto(t, Executed(t))
  BY AtActionFields DEF ExecutePutAction, PutAllowed, AtAction, ServiceInv, ServiceTypeOK
<1>2. HomeWorkStays
  BY DEF ExecutePutAction, HomeWorkStays
<1> PICK m \in ListeningAt(UriOf(t, 1)) : ManagerPut(m, t.key, t.value)
  BY DEF ExecutePutAction
<1>3. /\ m \in Managers
      /\ m = Home <=> call[t].idx \in AtHome(call[t].rule.rule)
  BY <1>1, CurrentAtHome DEF ListeningAt
<1> PICK files : files = Bind(store[m], t.key, t.value)
  OBVIOUS
<1>4. Write(m, files)
  BY DEF ManagerPut
<1>5. CASE m # Home
  <2>1. UNCHANGED HomeFile
    BY <1>3, <1>4, <1>5, WriteElsewhere DEF ServiceInv, ServiceTypeOK
  <2> QED
    BY <1>1, <1>2, <1>3, <1>5, <2>1, ElsewhereSimulated
<1>6. CASE m = Home
  <2>1. HomeFile' = [HomeFile EXCEPT ![t.key] = t.value]
    BY <1>6, WriteAtHome, CallFields DEF ManagerPut, ServiceInv, ServiceTypeOK
  <2> PICK s : s = Executed(t)
    OBVIOUS
  <2>2. s.pc = "action" /\ s.rule = call[t].rule /\ s.idx = call[t].idx + 1
    BY <1>1, ExecutedInv DEF ServiceInv, ServiceTypeOK
  <2>3. /\ call[t].idx \in Nat
        /\ call[t].idx \in AtHome(call[t].rule.rule)
        /\ AtHome(call[t].rule.rule) = {call[t].idx}
    BY <1>1, <1>3, <1>6, ActionAtHome, RunningFields DEF HasARule, ServiceInv, ServiceTypeOK
  <2>4. ~PutAtHome(call[t])
    BY <2>3 DEF PutAtHome
  <2>5. PutAtHome(s)
    BY <1>1, <2>2, <2>3 DEF PutAtHome, CurrentAction
  <2>6. HomeProgress[t] = [state |-> "pending"] /\ Progress(s) = [state |-> "written"]
    BY <1>1, <2>2, <2>4, <2>5, ProgressCases, OnItsWay
  <2>7. HomeProgress' = [HomeProgress EXCEPT ![t] = [state |-> "written"]]
    BY <1>1, <1>2, <2>6, GotoProgress DEF ServiceInv, ServiceTypeOK
  <2>8. HomeProgress[t].state = "pending"
    BY <2>6
  <2>9. FS!Write(t)
    BY <1>1, <2>1, <2>7, <2>8 DEF FS!Write
  <2>10. HomeInv'
    BY <1>1, <1>2, ExecutedCarriesOut, HomeGoto DEF ServiceInv, ServiceTypeOK
  <2> QED
    BY <2>9, <2>10 DEF Simulated, FileStoreStep, FS!FileStoreNext
<1> QED
  BY <1>5, <1>6

LEMMA ReportSimulated ==
  ASSUME ServiceInv, HomeInv, Home \in Managers, NEW t \in Calls, Report(t)
  PROVE  Simulated
<1>1. CASE Abort(t.client)
  BY <1>1, CallFields, AbortSimulated
<1>2. CASE Goto(t, [call[t] EXCEPT !.pc = "reporting"]) /\ UNCHANGED managerVars
  <2> PICK s : s = [call[t] EXCEPT !.pc = "reporting"]
    OBVIOUS
  <2>1. call[t].pc = "action" /\ call[t].idx > Limit(t)
    BY DEF Report
  <2>2. s.pc = "reporting" /\ s.rule = call[t].rule /\ s.idx = call[t].idx
    BY <2>1, RunningFields DEF ServiceInv, ServiceTypeOK
  <2>3. CarriesOut(t, s)
    BY <2>1, <2>2 DEF CarriesOut, HomeInv, HasARule, Limit
  <2>4. PutAtHome(s) <=> PutAtHome(call[t])
    BY <2>2 DEF PutAtHome
  <2>5. Progress(s) = Progress(call[t])
    BY <2>1, <2>2, <2>4, ProgressCases
  <2> QED
    BY <1>2, <2>1, <2>3, <2>5, ManagersStay, GotoSimulated
<1> QED
  BY <1>1, <1>2 DEF Report

LEMMA ReportedSimulated ==
  ASSUME ServiceInv, HomeInv, Home \in Managers, NEW t \in Calls, Reported(t)
  PROVE  Simulated
<1>1. call[t].pc = "reporting"
  BY DEF Reported
<1>2. CASE Abort(t.client)
  BY <1>2, CallFields, AbortSimulated
<1>3. CASE t.op = "PUT" /\ Goto(t, Return("OK", "")) /\ UNCHANGED managerVars
  <2> HomeWorkStays /\ UNCHANGED HomeFile
    BY <1>3, ManagersStay
  <2>1. HomeInv'
    BY <1>1, <1>3, ReturnCarriesOut, HomeGoto DEF ServiceInv, ServiceTypeOK
  <2>2. HomeProgress[t] = [state |-> "written"]
    BY <1>1, <1>3, ThroughHome, ProgressCases, OnItsWay
  <2>3. HomeProgress' =
          [HomeProgress EXCEPT ![t] = [state |-> "answered", status |-> "OK", value |-> ""]]
    BY <1>1, <1>3, ReturnProgress, GotoProgress DEF ServiceInv, ServiceTypeOK
  <2>4. HomeProgress[t].state = "written"
    BY <2>2, StateField
  <2>5. FS!AnswerPut(t)
    BY <2>3, <2>4 DEF FS!AnswerPut, FS!Answer
  <2> QED
    BY <2>1, <2>5 DEF Simulated, FileStoreStep, FS!FileStoreNext
<1>4. CASE /\ t.op = "GET" /\ LastIsGet(t) /\ Goto(t, [pc |-> "last", rule |-> call[t].rule])
           /\ UNCHANGED managerVars
  <2> PICK s : s = [pc |-> "last", rule |-> call[t].rule]
    OBVIOUS
  <2>1. s.pc = "last" /\ s.rule = call[t].rule
    OBVIOUS
  <2>2. CarriesOut(t, s)
    BY <1>1, <1>4, <2>1 DEF CarriesOut, HomeInv, HasARule, LastIsGet, LastAction
  <2>3. ~PutAtHome(call[t])
    BY <1>1, <1>4, GetPutsNothing DEF HasARule
  <2>4. Progress(s) = Progress(call[t])
    BY <1>1, <2>1, <2>3, ProgressCases
  <2> QED
    BY <1>1, <1>4, <2>2, <2>4, ManagersStay, GotoSimulated
<1> QED
  BY <1>2, <1>3, <1>4 DEF Reported

(* The call of the last action reaches Home and no one else.               *)
LEMMA LastAtHome ==
  ASSUME ServiceInv, HomeInv, Home \in Managers, NEW t \in Calls, call[t].pc = "last",
         NEW m \in Managers, Uri(m) = LastUri(t)
  PROVE  m = Home
<1> PICK r : r = call[t].rule.rule
  OBVIOUS
<1> PICK i : i = Len(r.action)
  OBVIOUS
<1>1. r \in Rules /\ r.action \in Seq(Actions)
  <2>1. Installed(call[t].rule)
    BY DEF ServiceInv, ClientInv, CallInv, HasARule
  <2>2. r \in Rules
    BY <2>1 DEF Installed, ServiceInv, MasterInv, MasterTypeOK
  <2> QED
    BY <2>2, RulesAssumption
<1>2. r.op_type = "GET" /\ r.action # <<>> /\ r.action[i].type = "get"
  BY DEF HomeInv, CarriesOut, HasARule
<1>3. i \in AtHome(r)
  BY <1>1, <1>2, HomeAssumption
<1>4. i \in DOMAIN r.action /\ 1 \in DOMAIN r.action[i].mgrs
  BY <1>3 DEF AtHome
<1>5. HasARule(call[t])
  BY DEF HasARule
<1> QED
  BY <1>3, <1>4, <1>5, ListensAtHome DEF LastUri

LEMMA GetSimulated ==
  ASSUME ServiceInv, HomeInv, Home \in Managers, NEW t \in Calls, ExecuteGetAction(t)
  PROVE  Simulated
<1> PICK value : value = Read(Home, t.key)
  OBVIOUS
<1>1. call[t].pc = "last" /\ UNCHANGED HomeFile /\ HomeWorkStays
  BY ManagersStay DEF ExecuteGetAction
<1>2. Goto(t, Return("OK", value))
  <2> PICK m \in ListeningAt(LastUri(t)) : Goto(t, Return("OK", ManagerGet(m, t.key)))
    BY DEF ExecuteGetAction
  <2>1. m = Home
    BY <1>1, LastAtHome DEF ListeningAt
  <2> QED
    BY <2>1 DEF ManagerGet
<1>3. HomeInv'
  BY <1>1, <1>2, ReturnCarriesOut, HomeGoto DEF ServiceInv, ServiceTypeOK
<1>4. t.op = "GET"
  BY <1>1 DEF HomeInv, CarriesOut
<1>5. HomeProgress[t] = [state |-> "pending"]
  BY <1>1, ProgressCases, OnItsWay
<1>6. HomeProgress' =
        [HomeProgress EXCEPT ![t] = [state |-> "answered", status |-> "OK", value |-> value]]
  BY <1>1, <1>2, ReturnProgress, GotoProgress DEF ServiceInv, ServiceTypeOK
<1>7. value = HomeFile[t.key]
  BY CallFields DEF HomeFile
<1>8. HomeProgress[t].state = "pending"
  BY <1>5
<1>9. FS!AnswerGet(t)
  BY <1>1, <1>4, <1>6, <1>7, <1>8 DEF FS!AnswerGet, FS!Answer
<1> QED
  BY <1>3, <1>9 DEF Simulated, FileStoreStep, FS!FileStoreNext

LEMMA RejectSimulated ==
  ASSUME ServiceInv, HomeInv, Home \in Managers, NEW t \in Calls, RejectAction(t)
  PROVE  Simulated
BY CallFields, AbortSimulated DEF RejectAction

-----------------------------------------------------------------------------
(* Crashes, and the steps that FileStore does not see.                     *)

(* A call that loses another manager than Home goes on, and has the same   *)
(* progress as before.                                                     *)
LEMMA AfterFailureProgress ==
  ASSUME ServiceInv, HomeInv, Home \in Managers, NEW m \in Managers, m # Home, NEW t \in Calls,
         Uri(m) \in CalledUris(t)
  PROVE  /\ Progress(AfterFailure(t)) = Progress(call[t])
         /\ CarriesOut(t, AfterFailure(t))
<1>1. call[t].pc # "last"
  <2> SUFFICES ASSUME call[t].pc = "last" PROVE FALSE
    OBVIOUS
  <2>1. Uri(m) = LastUri(t)
    BY DEF CalledUris, AtAction, PutAllowed
  <2> QED
    BY <2>1, LastAtHome
<1>2. /\ call[t].pc \in {"action", "copying"}
      /\ call[t].idx <= Len(call[t].rule.rule.action)
      /\ CurrentAction(t).type # "not_set"
      /\ Uri(m) = UriOf(t, 1)
  <2>1. CASE call[t].pc = "copying"
    <3>1. call[t].idx <= Len(call[t].rule.rule.action)
      BY <2>1 DEF ServiceInv, ClientInv, CallInv
    <3>2. CurrentAction(t).type = "copy_from"
      BY <2>1 DEF HomeInv, CarriesOut, CurrentAction
    <3> QED
      BY <2>1, <3>1, <3>2 DEF CalledUris
  <2>2. CASE AtAction(t, {"copy_from", "remove"}) \/ PutAllowed(t)
    BY <2>2, AtActionFields DEF AtAction, PutAllowed, CalledUris, ServiceInv, ServiceTypeOK
  <2> QED
    BY <1>1, <2>1, <2>2 DEF CalledUris
<1>3. call[t].idx \notin AtHome(call[t].rule.rule)
  BY <1>2, CurrentAtHome
<1> QED
  BY <1>1, <1>2, <1>3, ExecutedProgress, ExecutedCarriesOut DEF AfterFailure

LEMMA CrashManagerSimulated ==
  ASSUME ServiceInv, HomeInv, Home \in Managers, NEW m \in Managers, CrashManager(m)
  PROVE  Simulated
<1>1. m # Home
  BY HomeAssumption DEF CrashManager, Kill
<1>2. UNCHANGED HomeFile
  BY HomeFileStays DEF CrashManager, ManagerCrash
<1>3. HomeWorkStays
  <2>1. \A u \in Threads : work'[u] = IF work[u].at = m THEN NoWork ELSE work[u]
    BY DEF CrashManager, ManagerCrash
  <2> QED
    BY <1>1, <2>1, NoWorkAtHome DEF HomeWorkStays
<1>4. PICK failed \in SUBSET {t \in Calls : InProgress(t) /\ Uri(m) \in CalledUris(t)} :
        call' = [t \in Calls |-> IF t \in failed THEN AfterFailure(t) ELSE call[t]]
  BY DEF CrashManager
<1>5. ASSUME NEW t \in Calls
      PROVE  /\ Progress(call'[t]) = Progress(call[t]) /\ CarriesOut(t, call'[t])
             /\ call'[t] = call[t] \/ call[t].pc # "returned"
  BY <1>1, <1>4, AfterFailureProgress DEF HomeInv, InProgress
<1>6. UNCHANGED rule_db
  BY DEF CrashManager
<1>7. HomeInv'
  <2>1. \A u \in Calls : CarriesOut(u, call[u])'
    BY <1>5 DEF CarriesOut, HasARule
  <2>2. \A u \in Threads : work'[u].at = Home => LateAtHome(u)'
    BY <1>3, <1>5 DEF HomeInv, HomeWorkStays, LateAtHome
  <2> QED
    BY <1>6, <2>1, <2>2 DEF HomeInv
<1>8. UNCHANGED HomeProgress
  <2> SUFFICES ASSUME NEW t \in Calls PROVE HomeProgress'[t] = HomeProgress[t]
    BY DEF HomeProgress
  <2>1. Progress(call[t])' = Progress(call'[t])
    BY DEF Progress, PutAtHome
  <2>2. work'[t].at = Home <=> work[t].at = Home
    BY <1>3, CallFields DEF HomeWorkStays
  <2>3. CASE work[t].at = Home
    <3>1. call'[t] = call[t]
      BY <1>5, <2>3, CallFields DEF HomeInv, LateAtHome
    <3> QED
      BY <2>2, <2>3, <3>1 DEF HomeProgress
  <2>4. CASE work[t].at # Home
    BY <1>5, <2>1, <2>2, <2>4 DEF HomeProgress
  <2> QED
    BY <2>3, <2>4
<1> QED
  BY <1>2, <1>7, <1>8, Stutter DEF Simulated

LEMMA CallSimulated ==
  ASSUME ServiceInv, HomeInv, Home \in Managers, NEW t \in Calls, BeginCall(t) \/ CallStep(t)
  PROVE  Simulated
BY MakeCallSimulated, HasMatchingRuleSimulated, GetMatchingRuleSimulated, CopySimulated,
   FinishWriteSimulated, BelatedWorkSimulated, RemoveSimulated, PutSimulated, SkipSimulated,
   RejectSimulated, ReportSimulated, ReportedSimulated, GetSimulated DEF BeginCall, CallStep

(* Starts, requests to the master and what becomes of them: the rules at   *)
(* most.                                                                   *)
LEMMA OtherSimulated ==
  ASSUME ServiceInv, HomeInv,
         \/ StartStep
         \/ \E o \in Operators : Operate(o)
         \/ \E v \in Viewers : Look(v)
         \/ \E t \in Threads : MasterStep(t) \/ ForwardRule(t)
         \/ (Terminate \/ MasterStart) /\ UNCHANGED <<managerVars, clientVars, crashes>>
         \/ UNCHANGED serviceVars
  PROVE  Simulated
<1>1. CASE UNCHANGED <<rule_db, call, store, work>>
  <2>1. HomeInv'
    BY <1>1 DEF HomeInv, CarriesOut, HasARule, LateAtHome
  <2> QED
    BY <1>1, <2>1, QuietSimulated
<1>2. ASSUME NEW t \in Threads, ForwardRule(t)
      PROVE  Simulated
  <2>1. UNCHANGED <<store, work, call>>
    BY <1>2 DEF ForwardRule, managerVars, clientVars, ClientRuleHandler
  <2>2. CASE UNCHANGED clientVars
    BY <1>1, <2>1, <2>2 DEF clientVars
  <2>3. CASE handler[t].to \in Clients /\ ClientRuleHandler(handler[t])
    <3> PICK h : h = handler[t]
      OBVIOUS
    <3>1. HomeInv'
      BY <2>1, <2>3, HomeRuleHandler DEF ServiceInv, ServiceTypeOK
    <3> QED
      BY <2>1, <3>1, QuietSimulated
  <2> QED
    BY <1>2, <2>2, <2>3 DEF ForwardRule
<1> QED
  BY <1>1, <1>2 DEF StartStep, BeginManagerStart, EndManagerStart, BeginClientStart,
     EndClientStart, Operate, Look, MasterStep, serviceVars, managerVars, clientVars

-----------------------------------------------------------------------------
LEMMA HomeInitInv ==
  ASSUME Home \in Managers
  PROVE  ServiceInit => HomeInv
<1> SUFFICES ASSUME ServiceInit PROVE HomeInv
  OBVIOUS
<1>1. \A c \in Clients : DOMAIN rule_db[c] = {}
  BY DEF ServiceInit, ClientInit, EmptyMap
<1>2. \A t \in Calls : CarriesOut(t, call[t])
  BY DEF ServiceInit, ClientInit, NotMade, CarriesOut, HasARule
<1>3. \A t \in Threads : work[t] = NoWork
  BY DEF ServiceInit, ManagerInit
<1> QED
  BY <1>1, <1>2, <1>3, NoWorkAtHome DEF HomeInv

LEMMA FileStoreInitial ==
  ASSUME Home \in Managers
  PROVE  ServiceInit => FS!FileStoreInit
<1> SUFFICES ASSUME ServiceInit PROVE FS!FileStoreInit
  OBVIOUS
<1>1. \A t \in Calls : Progress(call[t]) = [state |-> "not_made"]
  BY ProgressCases DEF ServiceInit, ClientInit, NotMade
<1>2. \A t \in Calls : work[t].at # Home
  BY NoWorkAtHome, CallFields DEF ServiceInit, ManagerInit
<1> QED
  BY <1>1, <1>2 DEF FS!FileStoreInit, HomeProgress

LEMMA ServiceNextSimulated ==
  ASSUME Home \in Managers, ServiceInv, HomeInv, [ServiceNext]_serviceVars
  PROVE  Simulated
<1>1. ASSUME NEW c \in Clients, CrashClient(c)
      PROVE  Simulated
  BY <1>1, AbortSimulated DEF CrashClient
<1> QED
  BY <1>1, OtherSimulated, CallSimulated, CrashManagerSimulated DEF ServiceNext

(* The service implements FileStore: with rules that put files at Home and *)
(* get them from there, every Put and Get takes effect at one moment       *)
(* between its call and its answer, and a Put that fails takes effect at   *)
(* most once, possibly after its answer when its client has died - for any *)
(* managers, clients, keys, values, calls, crashes and restarts            *)
(* (storage_client.cc: Put and Get; storage_manager.cc).                   *)
THEOREM ServiceImplementsFileStore ==
  ASSUME Home \in Managers
  PROVE  ServiceSpec => ActsAsFileStore
<1>1. ServiceInit => HomeInv /\ FS!FileStoreInit
  BY HomeInitInv, FileStoreInitial
<1>2. ServiceInv /\ HomeInv /\ [ServiceNext]_serviceVars => HomeInv' /\ FileStoreStep
  BY ServiceNextSimulated DEF Simulated
<1>3. ServiceSpec => []HomeInv
  BY <1>1, <1>2, ServiceInvariant, PTL DEF ServiceSpec
<1>4. ServiceSpec => [][FS!FileStoreNext]_FS!fileStoreVars
  BY <1>2, <1>3, ServiceInvariant, PTL DEF ServiceSpec, FileStoreStep
<1> QED
  BY <1>1, <1>4, PTL DEF ServiceSpec, ActsAsFileStore, FS!FileStoreSpec

=============================================================================
