------------------------ MODULE StorageServiceProofs ------------------------
(***************************************************************************)
(* Proofs about StorageService: ServiceInv is inductive, so the composed   *)
(* service keeps the types of its parts, the master's invariant (its       *)
(* callers report only what they may) and the truth of the clients' routes.*)
(***************************************************************************)
EXTENDS StorageService, StorageMasterProofs

-----------------------------------------------------------------------------
(* Files of the managers. *)

LEMMA FilesAreMaps ==
  ASSUME NEW files
  PROVE  files \in Files <=> DOMAIN files \subseteq Keys /\ files \in [DOMAIN files -> Contents]
BY DEF Files

LEMMA FilesBind ==
  ASSUME NEW files \in Files, NEW key \in Keys, NEW value \in Contents
  PROVE  Bind(files, key, value) \in Files
<1>1. DOMAIN files \subseteq Keys /\ files \in [DOMAIN files -> Contents]
  BY FilesAreMaps
<1>2. DOMAIN Bind(files, key, value) \subseteq Keys
  <2>1. DOMAIN Bind(files, key, value) = DOMAIN files \cup {key}
    BY BindDomain
  <2> QED
    BY <1>1, <2>1
<1>3. Bind(files, key, value) \in [DOMAIN Bind(files, key, value) -> Contents]
  BY <1>1, BindType
<1> QED
  BY <1>2, <1>3, FilesAreMaps

LEMMA UnbindMap ==
  ASSUME NEW f, NEW x, NEW S, f \in [DOMAIN f -> S]
  PROVE  /\ DOMAIN Unbind(f, x) = DOMAIN f \ {x}
         /\ Unbind(f, x) \in [DOMAIN Unbind(f, x) -> S]
         /\ \A y \in DOMAIN f \ {x} : Unbind(f, x)[y] = f[y]
BY DEF Unbind, Restrict

LEMMA FilesUnbind ==
  ASSUME NEW files \in Files, NEW key
  PROVE  Unbind(files, key) \in Files
BY FilesAreMaps, UnbindMap

LEMMA ReadType ==
  ASSUME ManagerTypeOK, NEW m \in Managers, NEW key
  PROVE  Read(m, key) \in Contents
<1>1. store[m] \in Files
  BY DEF ManagerTypeOK
<1> QED
  BY <1>1, FilesAreMaps DEF Read, Contents

LEMMA WriteType ==
  ASSUME ManagerTypeOK, NEW m \in Managers, NEW files \in Files, Write(m, files)
  PROVE  store' \in [Managers -> Files]
BY DEF ManagerTypeOK, Write

LEMMA ManagerPutType ==
  ASSUME ManagerTypeOK, NEW m \in Managers, NEW key \in Keys, NEW value \in Contents,
         ManagerPut(m, key, value), UNCHANGED <<manager_state, work>>
  PROVE  ManagerTypeOK'
<1>1. store[m] \in Files
  BY DEF ManagerTypeOK
<1>2. store' \in [Managers -> Files]
  BY <1>1, FilesBind, WriteType DEF ManagerPut
<1> QED
  BY <1>2 DEF ManagerTypeOK

LEMMA ManagerRemoveType ==
  ASSUME ManagerTypeOK, NEW m \in Managers, NEW key \in Keys,
         ManagerRemove(m, key), UNCHANGED <<manager_state, work>>
  PROVE  ManagerTypeOK'
<1>1. store[m] \in Files
  BY DEF ManagerTypeOK
<1>2. store' \in [Managers -> Files]
  BY <1>1, FilesUnbind, WriteType DEF ManagerRemove
<1> QED
  BY <1>2 DEF ManagerTypeOK

LEMMA BeginCopyFromType ==
  ASSUME ManagerTypeOK, NEW t \in Threads, NEW m \in Managers, NEW key \in Keys, NEW dst_uri,
         BeginCopyFrom(t, m, key, dst_uri)
  PROVE  ManagerTypeOK'
<1>1. PICK value \in Pulled(key, dst_uri) : work' = [work EXCEPT ![t] = WriteWork(m, key, value)]
  BY DEF BeginCopyFrom
<1>2. value \in Contents
  BY <1>1, ReadType DEF Pulled, ListeningAt, Contents
<1>3. WriteWork(m, key, value) \in Work
  BY <1>2 DEF WriteWork, Work
<1> QED
  BY <1>1, <1>3 DEF ManagerTypeOK, BeginCopyFrom

(* What a manager has to do for a thread.                                  *)
LEMMA WorkFields ==
  ASSUME ManagerTypeOK, NEW t \in Threads
  PROVE  /\ work[t] \in Work /\ NoWork \in Work
         /\ work[t].pc \in {"fetch", "write", "remove"} =>
              work[t].at \in Managers /\ work[t].key \in Keys
         /\ work[t].pc = "write" => work[t].value \in Contents
         /\ work[t].pc = "fetch" => work[t].from \in Uris
<1>1. PICK w : w = work[t] /\ w \in Work
  BY DEF ManagerTypeOK
<1> QED
  BY <1>1 DEF Work, NoWork

LEMMA BeginFetchType ==
  ASSUME ManagerTypeOK, NEW t \in Threads, BeginFetch(t)
  PROVE  ManagerTypeOK'
<1> PICK m, key : m = work[t].at /\ key = work[t].key
  OBVIOUS
<1>1. m \in Managers /\ key \in Keys
  BY WorkFields DEF BeginFetch
<1> QED
  BY <1>1, BeginCopyFromType DEF BeginFetch

LEMMA EndWriteType ==
  ASSUME ManagerTypeOK, NEW t \in Threads, EndWrite(t)
  PROVE  ManagerTypeOK'
<1> PICK w : w = work[t]
  OBVIOUS
<1>1. w.at \in Managers /\ w.key \in Keys /\ w.value \in Contents /\ NoWork \in Work
  BY WorkFields DEF EndWrite
<1>2. store[w.at] \in Files
  BY <1>1 DEF ManagerTypeOK
<1>3. Bind(store[w.at], w.key, w.value) \in Files
  BY <1>1, <1>2, FilesBind
<1>4. store' \in [Managers -> Files]
  BY <1>1, <1>3, WriteType DEF EndWrite
<1> QED
  BY <1>1, <1>4 DEF ManagerTypeOK, EndWrite

LEMMA EndRemoveType ==
  ASSUME ManagerTypeOK, NEW t \in Threads, EndRemove(t)
  PROVE  ManagerTypeOK'
<1> PICK w : w = work[t]
  OBVIOUS
<1>1. w.at \in Managers /\ w.key \in Keys /\ NoWork \in Work
  BY WorkFields DEF EndRemove
<1>2. store[w.at] \in Files
  BY <1>1 DEF ManagerTypeOK
<1>3. Unbind(store[w.at], w.key) \in Files
  BY <1>1, <1>2, FilesUnbind
<1>4. store' \in [Managers -> Files]
  BY <1>1, <1>3, WriteType DEF EndRemove
<1> QED
  BY <1>1, <1>4 DEF ManagerTypeOK, EndRemove

LEMMA ManagerCrashType ==
  ASSUME ManagerTypeOK, NEW m \in Managers, ManagerCrash(m)
  PROVE  ManagerTypeOK'
BY DEF ManagerTypeOK, ManagerCrash, Work

-----------------------------------------------------------------------------
(* Rules of the clients, and the states of their calls. *)

(* What has been sent to a client stays sent.                              *)
LEMMA InstalledStays ==
  ASSUME forwarded \subseteq forwarded'
  PROVE  /\ \A r : Installed(r) => Installed(r)'
         /\ \A c : CallInv(c) => CallInv(c)'
<1>1. \A r : Installed(r) => Installed(r)'
  BY DEF Installed
<1>2. \A c : CallInv(c) => CallInv(c)'
  BY <1>1 DEF CallInv
<1> QED
  BY <1>1, <1>2

LEMMA ClientFrame ==
  ASSUME ClientTypeOK, ClientInv, forwarded \subseteq forwarded', UNCHANGED clientVars
  PROVE  ClientTypeOK' /\ ClientInv'
BY InstalledStays DEF ClientTypeOK, ClientInv, clientVars

(* A step of a call preserves the invariant when the state that the call   *)
(* goes to does.                                                           *)
LEMMA GotoInv ==
  ASSUME ClientTypeOK, ClientInv, forwarded \subseteq forwarded',
         NEW t \in Calls, NEW s \in CallStates, CallInv(s), Goto(t, s)
  PROVE  ClientTypeOK' /\ ClientInv'
<1>1. /\ call' \in [Calls -> CallStates]
      /\ \A u \in Calls : call'[u] = IF u = t THEN s ELSE call[u]
      /\ rule_db' = rule_db /\ client_state' = client_state
  BY DEF ClientTypeOK, Goto
<1>2. \A u \in Calls : CallInv(call[u])'
  BY <1>1, InstalledStays DEF ClientInv
<1>3. ClientTypeOK'
  BY <1>1 DEF ClientTypeOK
<1>4. \A c \in Clients : \A k \in DOMAIN rule_db'[c] : Installed(rule_db[c][k])'
  BY <1>1, InstalledStays DEF ClientInv
<1> QED
  BY <1>2, <1>3, <1>4 DEF ClientInv

LEMMA ReturnState ==
  ASSUME NEW status \in Statuses, NEW value \in Contents
  PROVE  Return(status, value) \in CallStates /\ CallInv(Return(status, value))
BY DEF Return, CallStates, Returned, CallInv, HasARule

LEMMA AbortInv ==
  ASSUME ClientTypeOK, ClientInv, forwarded \subseteq forwarded', NEW c \in Clients, Abort(c)
  PROVE  ClientTypeOK' /\ ClientInv'
<1> PICK s : s = Return("UNAVAILABLE", "")
  OBVIOUS
<1>1. s \in CallStates /\ CallInv(s)
  BY ReturnState DEF Statuses, Contents
<1>2. /\ call' \in [Calls -> CallStates]
      /\ \A u \in Calls : call'[u] = s \/ call'[u] = call[u]
  BY <1>1 DEF ClientTypeOK, Abort
<1>3. \A u \in Calls : CallInv(call[u])'
  BY <1>1, <1>2, InstalledStays DEF ClientInv
<1>4. DOMAIN EmptyMap = {} /\ EmptyMap \in [DOMAIN EmptyMap -> FilledRules]
  BY DEF EmptyMap
<1>5. /\ DOMAIN rule_db' = Clients
      /\ \A d \in Clients : rule_db'[d] = IF d = c THEN EmptyMap ELSE rule_db[d]
      /\ client_state' \in [Clients -> {"stopped", "introducing", "serving"}]
  BY DEF ClientTypeOK, Abort
<1>6. ClientTypeOK'
  BY <1>2, <1>4, <1>5 DEF ClientTypeOK
<1>7. \A d \in Clients : \A k \in DOMAIN rule_db'[d] : Installed(rule_db[d][k])'
  BY <1>4, <1>5, InstalledStays DEF ClientInv
<1> QED
  BY <1>3, <1>6, <1>7 DEF ClientInv

(* The master's handler h hands a rule over: the rule is filled in.        *)
LEMMA ClientRuleHandlerInv ==
  ASSUME ClientTypeOK, ClientInv, forwarded \subseteq forwarded',
         NEW h, h.to \in Clients, h.rule \in Rules, h.uri \in UriMaps(h.rule),
         h.rpc = "InstallRule" => Installed([rule |-> h.rule, uri |-> h.uri])',
         ClientRuleHandler(h)
  PROVE  ClientTypeOK' /\ ClientInv'
<1> DEFINE r == [rule |-> h.rule, uri |-> h.uri]
           k == <<h.rule.op_type, h.rule.key>>
           db == rule_db[h.to]
<1>1. r \in FilledRules /\ k \in RuleKeys /\ r.rule = h.rule
  BY RulesAssumption DEF FilledRules, RuleKeys
<1>2. /\ DOMAIN db \subseteq RuleKeys /\ db \in [DOMAIN db -> FilledRules]
      /\ \A j \in DOMAIN db : Installed(db[j])
  BY DEF ClientTypeOK, ClientInv
<1>3. PICK new : /\ rule_db' = [rule_db EXCEPT ![h.to] = new]
                 /\ DOMAIN new \subseteq RuleKeys /\ new \in [DOMAIN new -> FilledRules]
                 /\ \A j \in DOMAIN new : Installed(new[j])'
  <2>1. CASE h.rpc = "InstallRule" /\ AddRule(h.to, r)
    <3>1. rule_db' = [rule_db EXCEPT ![h.to] = Bind(db, k, r)]
      BY <2>1, <1>1 DEF AddRule
    <3>2. /\ DOMAIN Bind(db, k, r) = DOMAIN db \cup {k}
          /\ Bind(db, k, r)[k] = r
          /\ \A j \in DOMAIN db \ {k} : Bind(db, k, r)[j] = db[j]
      BY DEF Bind
    <3>3. Bind(db, k, r) \in [DOMAIN Bind(db, k, r) -> FilledRules]
      BY <1>1, <1>2, BindType
    <3>4. \A j \in DOMAIN Bind(db, k, r) : Bind(db, k, r)[j] = r \/ Installed(Bind(db, k, r)[j])
      BY <1>2, <3>2
    <3> QED
      BY <1>1, <1>2, <2>1, <3>1, <3>2, <3>3, <3>4, InstalledStays
  <2>2. CASE h.rpc = "RemoveRule" /\ EraseRule(h.to, r)
    <3>1. rule_db' = [rule_db EXCEPT ![h.to] = Unbind(db, k)]
      BY <2>2, <1>1 DEF EraseRule
    <3>2. /\ DOMAIN Unbind(db, k) = DOMAIN db \ {k}
          /\ Unbind(db, k) \in [DOMAIN Unbind(db, k) -> FilledRules]
          /\ \A j \in DOMAIN db \ {k} : Unbind(db, k)[j] = db[j]
      BY <1>2, UnbindMap
    <3> QED
      BY <1>2, <3>1, <3>2, InstalledStays
  <2> QED
    BY <2>1, <2>2 DEF ClientRuleHandler
<1>4. /\ DOMAIN rule_db' = Clients
      /\ \A d \in Clients : rule_db'[d] = IF d = h.to THEN new ELSE rule_db[d]
      /\ client_state' = client_state /\ call' = call
  BY <1>3 DEF ClientTypeOK, ClientRuleHandler
<1>5. ClientTypeOK'
  BY <1>3, <1>4 DEF ClientTypeOK
<1>6. \A d \in Clients : \A j \in DOMAIN rule_db'[d] : Installed(rule_db[d][j])'
  BY <1>3, <1>4, InstalledStays DEF ClientInv
<1>7. \A u \in Calls : CallInv(call[u])'
  BY <1>4, InstalledStays DEF ClientInv
<1> QED
  BY <1>5, <1>6, <1>7 DEF ClientInv

-----------------------------------------------------------------------------
(* The loop over the actions of a rule. *)

LEMMA FilledFields ==
  ASSUME NEW r \in FilledRules
  PROVE  r.rule \in Rules /\ r.rule.action \in Seq(Actions)
BY RulesAssumption DEF FilledRules

(* What is known of a call that has its rule.                              *)
LEMMA RunningFields ==
  ASSUME ClientTypeOK, ClientInv, NEW t \in Calls,
         call[t].pc \in {"action", "copying", "fallthrough", "reporting"}
  PROVE  /\ call[t] \in Running
         /\ call[t] = [pc |-> call[t].pc, rule |-> call[t].rule, idx |-> call[t].idx,
                       change |-> call[t].change]
         /\ call[t].rule \in FilledRules
         /\ call[t].rule.rule \in Rules /\ call[t].rule.rule.action \in Seq(Actions)
         /\ call[t].idx \in Nat /\ call[t].idx >= 1
         /\ call[t].change \in Seq(Actions)
         /\ Installed(call[t].rule)
         /\ NamesIn(call[t].change) \subseteq NamesOf(call[t].rule.rule)
<1>1. call[t] \in CallStates /\ CallInv(call[t])
  BY DEF ClientTypeOK, ClientInv
<1>2. call[t] \in Running
  BY <1>1 DEF CallStates, NotMade, Returned, Running
<1>3. /\ call[t] = [pc |-> call[t].pc, rule |-> call[t].rule, idx |-> call[t].idx,
                    change |-> call[t].change]
      /\ call[t].rule \in FilledRules /\ call[t].idx \in Nat /\ call[t].change \in Seq(Actions)
  BY <1>2 DEF Running
<1> QED
  BY <1>1, <1>2, <1>3, FilledFields DEF CallInv, HasARule

LEMMA RunningState ==
  ASSUME NEW pc \in {"action", "copying", "fallthrough", "reporting"}, NEW rule \in FilledRules,
         NEW idx \in Nat, NEW change \in Seq(Actions), idx >= 1,
         Installed(rule), NamesIn(change) \subseteq NamesOf(rule.rule),
         pc = "copying" => idx <= Len(rule.rule.action)
  PROVE  /\ [pc |-> pc, rule |-> rule, idx |-> idx, change |-> change] \in CallStates
         /\ CallInv([pc |-> pc, rule |-> rule, idx |-> idx, change |-> change])
BY DEF CallStates, Running, CallInv, HasARule

(* The state in which a call starts to carry out its rule.                 *)
LEMMA StartedState ==
  ASSUME NEW rule \in FilledRules, Installed(rule)
  PROVE  /\ [pc |-> "action", rule |-> rule, idx |-> 1, change |-> <<>>] \in CallStates
         /\ CallInv([pc |-> "action", rule |-> rule, idx |-> 1, change |-> <<>>])
<1> PICK change, idx : change = <<>> /\ idx = 1
  OBVIOUS
<1>1. change \in Seq(Actions) /\ NamesIn(change) \subseteq NamesOf(rule.rule)
  BY DEF NamesIn
<1>2. idx \in Nat /\ idx >= 1
  OBVIOUS
<1>3. /\ [pc |-> "action", rule |-> rule, idx |-> idx, change |-> change] \in CallStates
      /\ CallInv([pc |-> "action", rule |-> rule, idx |-> idx, change |-> change])
  BY <1>1, <1>2, RunningState
<1> QED
  BY <1>3

(* A call that is at an action of its rule, by AtAction.                   *)
LEMMA AtActionFields ==
  ASSUME ClientTypeOK, ClientInv, NEW t \in Calls, NEW types, AtAction(t, types)
  PROVE  call[t].pc = "action" /\ call[t].idx <= Len(call[t].rule.rule.action)
<1>1. call[t].pc = "action" /\ call[t].idx <= Limit(t)
  BY DEF AtAction
<1>2. call[t].rule.rule.action \in Seq(Actions) /\ call[t].idx \in Nat
  BY <1>1, RunningFields
<1>3. Len(call[t].rule.rule.action) \in Nat
  BY <1>2
<1>4. Limit(t) <= Len(call[t].rule.rule.action)
  BY <1>3 DEF Limit
<1> QED
  BY <1>1, <1>2, <1>3, <1>4 DEF Limit

LEMMA CurrentActionType ==
  ASSUME ClientTypeOK, ClientInv, NEW t \in Calls, call[t].pc \in {"action", "copying"},
         call[t].idx <= Len(call[t].rule.rule.action)
  PROVE  /\ CurrentAction(t) \in Actions
         /\ CurrentAction(t).key \in Keys
         /\ call[t].idx \in DOMAIN call[t].rule.rule.action
<1>1. /\ call[t].rule.rule.action \in Seq(Actions)
      /\ call[t].idx \in Nat /\ call[t].idx >= 1
  BY RunningFields
<1>2. call[t].idx \in DOMAIN call[t].rule.rule.action
  BY <1>1
<1>3. CurrentAction(t) \in Actions
  BY <1>1, <1>2 DEF CurrentAction
<1> QED
  BY <1>2, <1>3 DEF Actions

(* What a call has sent when its client ends, one RPC at most.             *)
LEMMA SentCases ==
  ASSUME NEW t, NEW w \in Sent(t)
  PROVE  \E m \in ListeningAt(UriOf(t, 1)) :
           \/ /\ AtAction(t, {"copy_from"})
              /\ w = FetchWork(m, CurrentAction(t).key, UriOf(t, 2))
           \/ AtAction(t, {"remove"}) /\ w = RemoveWork(m, CurrentAction(t).key)
           \/ PutAllowed(t) /\ w = WriteWork(m, t.key, t.value)
<1>1. CASE AtAction(t, {"copy_from"})
  BY <1>1 DEF Sent
<1>2. CASE AtAction(t, {"remove"}) /\ ~AtAction(t, {"copy_from"})
  BY <1>2 DEF Sent
<1>3. CASE PutAllowed(t) /\ ~AtAction(t, {"remove"}) /\ ~AtAction(t, {"copy_from"})
  BY <1>3 DEF Sent
<1>4. CASE ~PutAllowed(t) /\ ~AtAction(t, {"remove"}) /\ ~AtAction(t, {"copy_from"})
  BY <1>4 DEF Sent
<1> QED
  BY <1>1, <1>2, <1>3, <1>4

(* An Abort leaves to the managers what the aborted calls have sent.       *)
LEMMA AbortWork ==
  ASSUME NEW c, Abort(c)
  PROVE  /\ UNCHANGED <<store, manager_state>>
         /\ work' = [t \in Threads |-> work'[t]]
         /\ \A t \in Threads :
              \/ work'[t] = work[t]
              \/ t \in Calls /\ t.client = c /\ InProgress(t) /\ work'[t] \in Sent(t)
<1> DEFINE aborted == {t \in Calls : t.client = c /\ InProgress(t)}
<1>1. PICK late \in SUBSET aborted : \E sent :
        /\ \A t \in late : sent[t] \in Sent(t)
        /\ work' = [t \in Threads |-> IF t \in late THEN sent[t] ELSE work[t]]
  BY DEF Abort
<1>2. UNCHANGED <<store, manager_state>>
  BY DEF Abort
<1> QED
  BY <1>1, <1>2

LEMMA AbortType ==
  ASSUME ManagerTypeOK, ClientTypeOK, ClientInv, NEW c, Abort(c)
  PROVE  ManagerTypeOK'
<1>1. ASSUME NEW t \in Threads PROVE work'[t] \in Work
  <2>1. CASE work'[t] = work[t]
    BY <2>1 DEF ManagerTypeOK
  <2>2. CASE t \in Calls /\ work'[t] \in Sent(t)
    <3> PICK a : a = CurrentAction(t)
      OBVIOUS
    <3> PICK w : w = work'[t]
      OBVIOUS
    <3>1. PICK m \in ListeningAt(UriOf(t, 1)) :
             \/ AtAction(t, {"copy_from"}) /\ w = FetchWork(m, a.key, UriOf(t, 2))
             \/ AtAction(t, {"remove"}) /\ w = RemoveWork(m, a.key)
             \/ PutAllowed(t) /\ w = WriteWork(m, t.key, t.value)
      BY <2>2, SentCases
    <3>2. m \in Managers
      BY DEF ListeningAt
    <3>3. ASSUME AtAction(t, {"copy_from", "remove"}) PROVE a \in Actions /\ a.key \in Keys
      BY <2>2, <3>3, AtActionFields, CurrentActionType
    <3>4. CASE AtAction(t, {"copy_from"}) /\ w = FetchWork(m, a.key, UriOf(t, 2))
      <4>1. AtAction(t, {"copy_from", "remove"})
        BY <3>4 DEF AtAction
      <4>2. a.type = "copy_from" /\ 2 \in DOMAIN a.mgrs
        BY <3>3, <3>4, <4>1 DEF AtAction, Actions
      <4>3. /\ call[t].pc = "action" /\ call[t].idx <= Len(call[t].rule.rule.action)
            /\ call[t].idx \in DOMAIN call[t].rule.rule.action
        BY <2>2, <3>4, AtActionFields, CurrentActionType
      <4>4. /\ call[t].rule \in FilledRules
            /\ DOMAIN call[t].rule.uri = Slots(call[t].rule.rule)
        BY <2>2, <4>3, RunningFields DEF Installed, Routed
      <4>5. <<call[t].idx, 2>> \in Slots(call[t].rule.rule)
        BY <4>2, <4>3 DEF Slots, CurrentAction
      <4>6. \A f \in FilledRules : \A x \in DOMAIN f.uri : f.uri[x] \in Uris
        BY DEF FilledRules, UriMaps
      <4>7. UriOf(t, 2) \in Uris
        BY <4>4, <4>5, <4>6 DEF UriOf
      <4> QED
        BY <3>2, <3>3, <3>4, <4>1, <4>7 DEF FetchWork, Work
    <3>5. CASE AtAction(t, {"remove"}) /\ w = RemoveWork(m, a.key)
      <4>1. AtAction(t, {"copy_from", "remove"})
        BY <3>5 DEF AtAction
      <4> QED
        BY <3>2, <3>3, <3>5, <4>1 DEF RemoveWork, Work
    <3>6. CASE w = WriteWork(m, t.key, t.value)
      BY <2>2, <3>2, <3>6, ClientAssumption DEF WriteWork, Work
    <3> QED
      BY <3>1, <3>4, <3>5, <3>6
  <2> QED
    BY <2>1, <2>2, AbortWork
<1>2. work' \in [Threads -> Work]
  BY <1>1, AbortWork
<1> QED
  BY <1>2, AbortWork DEF ManagerTypeOK

LEMMA NextActionInv ==
  ASSUME ClientTypeOK, ClientInv, NEW t \in Calls, call[t].pc \in {"action", "copying"}
  PROVE  /\ NextAction(t) = [pc |-> "action", rule |-> call[t].rule, idx |-> call[t].idx + 1,
                             change |-> call[t].change]
         /\ NextAction(t) \in CallStates /\ CallInv(NextAction(t))
<1> PICK s : s = call[t]
  OBVIOUS
<1>1. /\ s = [pc |-> s.pc, rule |-> s.rule, idx |-> s.idx, change |-> s.change]
      /\ s.rule \in FilledRules /\ s.idx \in Nat /\ s.idx >= 1 /\ s.change \in Seq(Actions)
      /\ Installed(s.rule) /\ NamesIn(s.change) \subseteq NamesOf(s.rule.rule)
  BY RunningFields
<1>2. NextAction(t) = [pc |-> "action", rule |-> s.rule, idx |-> s.idx + 1, change |-> s.change]
  <2>1. NextAction(t) = [s EXCEPT !.pc = "action", !.idx = s.idx + 1]
    BY DEF NextAction
  <2>2. [s EXCEPT !.pc = "action"] = [pc |-> "action", rule |-> s.rule, idx |-> s.idx, change |-> s.change]
    BY <1>1
  <2> QED
    BY <1>1, <2>1, <2>2
<1>3. s.idx + 1 \in Nat /\ s.idx + 1 >= 1
  BY <1>1
<1> QED
  BY <1>1, <1>2, <1>3, RunningState

(* Reporting an action of the rule mentions no new names.                  *)
LEMMA AppendNames ==
  ASSUME NEW change \in Seq(Actions), NEW a \in Actions, NEW S,
         NamesIn(change) \subseteq S, \A j \in DOMAIN a.mgrs : a.mgrs[j] \in S
  PROVE  Append(change, a) \in Seq(Actions) /\ NamesIn(Append(change, a)) \subseteq S
<1>1. \A i \in DOMAIN Append(change, a) :
         \/ i \in DOMAIN change /\ Append(change, a)[i] = change[i]
         \/ Append(change, a)[i] = a
  OBVIOUS
<1> QED
  BY <1>1 DEF NamesIn

LEMMA ChangeUpdate ==
  ASSUME NEW n \in [pc: {"action"}, rule: FilledRules, idx: Nat, change: Seq(Actions)],
         NEW change \in Seq(Actions)
  PROVE  [n EXCEPT !.change = change]
           = [pc |-> n.pc, rule |-> n.rule, idx |-> n.idx, change |-> change]
OBVIOUS

LEMMA ExecutedInv ==
  ASSUME ClientTypeOK, ClientInv, NEW t \in Calls, call[t].pc \in {"action", "copying"},
         call[t].idx <= Len(call[t].rule.rule.action)
  PROVE  /\ Executed(t) \in CallStates /\ CallInv(Executed(t))
         /\ Executed(t).rule = call[t].rule
         /\ IF CurrentAction(t).type = "remove" /\ t.op = "PUT"
            THEN Executed(t).pc = "fallthrough" /\ Executed(t).idx = call[t].idx
            ELSE Executed(t).pc = "action" /\ Executed(t).idx = call[t].idx + 1
<1> PICK s : s = call[t]
  OBVIOUS
<1> PICK a : a = CurrentAction(t)
  OBVIOUS
<1> PICK change : change = Append(s.change, a)
  OBVIOUS
<1>1. /\ s = [pc |-> s.pc, rule |-> s.rule, idx |-> s.idx, change |-> s.change]
      /\ s.rule \in FilledRules /\ s.idx \in Nat /\ s.idx >= 1 /\ s.change \in Seq(Actions)
      /\ Installed(s.rule) /\ NamesIn(s.change) \subseteq NamesOf(s.rule.rule)
      /\ s.rule.rule.action \in Seq(Actions)
  BY RunningFields
<1>2. /\ a \in Actions /\ s.idx \in DOMAIN s.rule.rule.action
      /\ a = s.rule.rule.action[s.idx]
  BY CurrentActionType DEF CurrentAction
<1>3. \A j \in DOMAIN a.mgrs : a.mgrs[j] \in NamesOf(s.rule.rule)
  BY <1>1, <1>2, RuleNames
<1>4. change \in Seq(Actions) /\ NamesIn(change) \subseteq NamesOf(s.rule.rule)
  BY <1>1, <1>2, <1>3, AppendNames
<1>5. CASE a.type = "remove" /\ t.op = "PUT"
  <2>1. Executed(t) = [pc |-> "fallthrough", rule |-> s.rule, idx |-> s.idx, change |-> change]
    <3>1. Executed(t) = [s EXCEPT !.pc = "fallthrough", !.change = change]
      BY <1>5 DEF Executed
    <3> QED
      BY <1>1, <3>1
  <2>2. Executed(t) \in CallStates /\ CallInv(Executed(t))
    BY <1>1, <1>4, <2>1, RunningState
  <2>3. Executed(t).rule = s.rule /\ Executed(t).pc = "fallthrough" /\ Executed(t).idx = s.idx
    BY <2>1
  <2> QED
    BY <1>5, <2>2, <2>3
<1>6. CASE ~(a.type = "remove" /\ t.op = "PUT")
  <2> PICK n : n = NextAction(t)
    OBVIOUS
  <2>1. n = [pc |-> "action", rule |-> s.rule, idx |-> s.idx + 1, change |-> s.change]
    BY NextActionInv
  <2>2. Executed(t) = [n EXCEPT !.change = Append(@, a)]
    BY <1>6 DEF Executed
  <2>3. Executed(t) = [pc |-> "action", rule |-> s.rule, idx |-> s.idx + 1, change |-> change]
    <3>1. n.change = s.change
      BY <2>1
    <3>2. Executed(t) = [n EXCEPT !.change = change]
      BY <2>2, <3>1
    <3>3. n \in [pc: {"action"}, rule: FilledRules, idx: Nat, change: Seq(Actions)]
      BY <1>1, <2>1
    <3>4. [n EXCEPT !.change = change]
            = [pc |-> n.pc, rule |-> n.rule, idx |-> n.idx, change |-> change]
      BY <1>4, <3>3, ChangeUpdate
    <3> QED
      BY <2>1, <3>2, <3>4
  <2>4. s.idx + 1 \in Nat /\ s.idx + 1 >= 1
    BY <1>1
  <2>5. Executed(t) \in CallStates /\ CallInv(Executed(t))
    BY <1>1, <1>4, <2>3, <2>4, RunningState
  <2>6. Executed(t).rule = s.rule /\ Executed(t).pc = "action" /\ Executed(t).idx = s.idx + 1
    BY <2>3
  <2> QED
    BY <1>6, <2>5, <2>6
<1> QED
  BY <1>5, <1>6

(* A call that waits for a manager at an action, or waits for its report.  *)
LEMMA WaitingInv ==
  ASSUME ClientTypeOK, ClientInv, NEW t \in Calls, NEW pc \in {"copying", "reporting"},
         call[t].pc = "action",
         pc = "copying" => call[t].idx <= Len(call[t].rule.rule.action)
  PROVE  [call[t] EXCEPT !.pc = pc] \in CallStates /\ CallInv([call[t] EXCEPT !.pc = pc])
<1> PICK s : s = call[t]
  OBVIOUS
<1>1. /\ s = [pc |-> s.pc, rule |-> s.rule, idx |-> s.idx, change |-> s.change]
      /\ s.rule \in FilledRules /\ s.idx \in Nat /\ s.idx >= 1 /\ s.change \in Seq(Actions)
      /\ Installed(s.rule) /\ NamesIn(s.change) \subseteq NamesOf(s.rule.rule)
  BY RunningFields
<1>2. [s EXCEPT !.pc = pc] = [pc |-> pc, rule |-> s.rule, idx |-> s.idx, change |-> s.change]
  BY <1>1
<1> QED
  BY <1>1, <1>2, RunningState

-----------------------------------------------------------------------------
(* The steps of the service.  Only Forward changes what has been sent to   *)
(* the clients, and it only adds to it.                                    *)

LEMMA SentBySteps ==
  ASSUME NEW t
  PROVE  /\ HandlerStep(t) \/ Consume(t) => UNCHANGED forwarded
         /\ \A s : Receive(t, s) => UNCHANGED forwarded
         /\ Terminate \/ MasterStart => UNCHANGED forwarded
<1>1. Terminate \/ MasterStart => UNCHANGED forwarded
  BY DEF Terminate, MasterStart
<1>2. Throw(t) => UNCHANGED forwarded
  BY <1>1 DEF Throw
<1>3. HandlerStep(t) => UNCHANGED forwarded
  BY <1>2 DEF HandlerStep, LockTracker, AddPeer, AddManager, AddFile, FinishIntroduce, ApplyChange,
     RemoveFromDst, FinishStorageChange, FindClient, FillInRule, PopulateFiles, PopulateUris
<1> QED
  BY <1>1, <1>3 DEF Receive, Consume

LEMMA MasterFrame ==
  ASSUME MasterInv, UNCHANGED masterVars
  PROVE  MasterInv' /\ UNCHANGED forwarded
BY MasterNextInv DEF masterVars

LEMMA ManagerFrame ==
  ASSUME ManagerTypeOK, UNCHANGED managerVars
  PROVE  ManagerTypeOK'
BY DEF ManagerTypeOK, managerVars

LEMMA PeerThreads ==
  /\ Managers \subseteq Threads /\ Clients \subseteq Threads
  /\ Calls \subseteq Threads /\ Operators \subseteq Threads
  /\ Viewers \subseteq Threads /\ Abandoned \subseteq Threads
BY ServiceAssumption DEF Peers

(* The parts of the invariant after a step that leaves crashes alone.      *)
LEMMA PartsInv ==
  ASSUME ServiceInv, MasterInv', ManagerTypeOK', (ClientTypeOK /\ ClientInv)',
         UNCHANGED crashes
  PROVE  ServiceInv'
BY DEF ServiceInv, ServiceTypeOK, MasterInv

LEMMA StartStepInv ==
  ASSUME ServiceInv, StartStep
  PROVE  ServiceInv'
<1> USE DEF ServiceInv, ServiceTypeOK
<1>1. ASSUME NEW m \in Managers, BeginManagerStart(m)
      PROVE  ServiceInv'
  <2> PICK file : file = DOMAIN store[m]
    OBVIOUS
  <2>1. file \in SUBSET Keys /\ m \in Threads /\ ReceiveIntroduce(m, m, file)
    BY <1>1, FilesAreMaps, PeerThreads DEF ManagerTypeOK, BeginManagerStart
  <2>2. MasterInv' /\ UNCHANGED forwarded
    BY <2>1, ReceiveIntroduceInv, SentBySteps DEF ReceiveIntroduce
  <2>3. ManagerTypeOK' /\ UNCHANGED <<clientVars, crashes>>
    BY <1>1 DEF BeginManagerStart, ManagerTypeOK
  <2> QED
    BY <2>2, <2>3, ClientFrame, PartsInv
<1>2. ASSUME NEW m \in Managers, EndManagerStart(m)
      PROVE  ServiceInv'
  <2>1. MasterInv' /\ UNCHANGED forwarded
    BY <1>2, PeerThreads, ConsumeInv, SentBySteps DEF EndManagerStart
  <2>2. ManagerTypeOK' /\ UNCHANGED <<clientVars, crashes>>
    BY <1>2 DEF EndManagerStart, ManagerTypeOK
  <2> QED
    BY <2>1, <2>2, ClientFrame, PartsInv
<1>3. ASSUME NEW c \in Clients, BeginClientStart(c) \/ EndClientStart(c)
      PROVE  ServiceInv'
  <2>1. MasterInv' /\ UNCHANGED forwarded
    <3>1. c \in Threads
      BY PeerThreads
    <3>2. CASE ReceiveIntroduce(c, c, {})
      BY <3>1, <3>2, ReceiveIntroduceInv, SentBySteps DEF ReceiveIntroduce
    <3>3. CASE Consume(c)
      BY <3>1, <3>3, ConsumeInv, SentBySteps
    <3>4. CASE UNCHANGED masterVars
      BY <3>4, MasterFrame
    <3> QED
      BY <1>3, <3>2, <3>3, <3>4 DEF BeginClientStart, EndClientStart
  <2>2. /\ UNCHANGED <<managerVars, rule_db, call, crashes>>
        /\ client_state' \in [Clients -> {"stopped", "introducing", "serving"}]
    BY <1>3 DEF BeginClientStart, EndClientStart, ClientTypeOK
  <2>3. ManagerTypeOK'
    BY <2>2, ManagerFrame
  <2>4. (ClientTypeOK /\ ClientInv)'
    BY <2>1, <2>2, InstalledStays DEF ClientTypeOK, ClientInv
  <2> QED
    BY <2>1, <2>2, <2>3, <2>4, PartsInv
<1> QED
  BY <1>1, <1>2, <1>3 DEF StartStep

LEMMA OperateInv ==
  ASSUME ServiceInv, NEW o \in Operators, Operate(o)
  PROVE  ServiceInv'
<1>1. o.rpc \in RuleRpcs /\ o.client \in Names /\ o.rule \in Rules /\ o \in Threads
  BY ServiceAssumption, MasterAssumption, PeerThreads
<1>2. MasterInv' /\ UNCHANGED forwarded
  BY <1>1, ReceiveRuleInv, SentBySteps DEF Operate, ReceiveRule, ServiceInv
<1>3. UNCHANGED <<managerVars, clientVars, crashes>>
  BY DEF Operate
<1> QED
  BY <1>2, <1>3, ClientFrame, ManagerFrame, PartsInv DEF ServiceInv, ServiceTypeOK

LEMMA LookInv ==
  ASSUME ServiceInv, NEW v \in Viewers, Look(v)
  PROVE  ServiceInv'
<1>1. MasterInv' /\ UNCHANGED forwarded
  BY PeerThreads, ReceiveGetViewInv, SentBySteps DEF Look, ReceiveGetView, ServiceInv
<1>2. UNCHANGED <<managerVars, clientVars, crashes>>
  BY DEF Look
<1> QED
  BY <1>1, <1>2, ClientFrame, ManagerFrame, PartsInv DEF ServiceInv, ServiceTypeOK

(* The rule that the master hands to its client is the one it recorded.    *)
LEMMA ForwardRuleInv ==
  ASSUME ServiceInv, NEW t \in Threads, ForwardRule(t)
  PROVE  ServiceInv'
<1> USE DEF ServiceInv, ServiceTypeOK
<1> PICK h : h = handler[t]
  OBVIOUS
<1>1. PICK status \in Statuses : Forward(t, status)
  BY DEF ForwardRule, Statuses
<1>2. /\ MasterInv'
      /\ forwarded' = forwarded \cup
           {[rpc |-> h.rpc, client |-> h.client, to |-> h.to, rule |-> h.rule, uri |-> h.uri,
             epoch |-> epoch]}
  BY <1>1, ForwardInv DEF Forward
<1>3. UNCHANGED <<managerVars, crashes>>
  BY DEF ForwardRule
<1>4. CASE UNCHANGED clientVars
  BY <1>2, <1>3, <1>4, ClientFrame, ManagerFrame, PartsInv
<1>5. CASE h.to \in Clients /\ ClientRuleHandler(h)
  <2>1. h \in RuleHandlers /\ h.pc = "FillInRule"
    BY <1>1, HandlerFields DEF Forward, MasterInv, MasterTypeOK
  <2>2. h.rule \in Rules /\ h.uri \in UriMaps(h.rule)
    BY <2>1 DEF RuleHandlers
  <2>3. /\ h.rpc = "InstallRule" => DOMAIN h.uri = Slots(h.rule)
        /\ \A s \in DOMAIN h.uri : RouteOf(NameAt(h.rule, s), h.uri[s])
    BY <1>1, <2>1 DEF Forward, MasterInv, HandlerInv
  <2>4. h.rpc = "InstallRule" => Installed([rule |-> h.rule, uri |-> h.uri])'
    <3> PICK r : r = [rule |-> h.rule, uri |-> h.uri]
      OBVIOUS
    <3> PICK f : f = [rpc |-> h.rpc, client |-> h.client, to |-> h.to, rule |-> h.rule,
                      uri |-> h.uri, epoch |-> epoch]
      OBVIOUS
    <3>1. r.rule = h.rule /\ r.uri = h.uri /\ f.rpc = h.rpc /\ f.rule = h.rule
      OBVIOUS
    <3>2. f \in forwarded'
      BY <1>2
    <3>3. h.rpc = "InstallRule" => Routed(r)
      BY <2>3, <3>1 DEF Routed
    <3>4. h.rpc = "InstallRule" => Installed(r)'
      BY <3>1, <3>2, <3>3 DEF Installed
    <3> QED
      BY <3>4
  <2>5. (ClientTypeOK /\ ClientInv)'
    BY <1>2, <1>5, <2>2, <2>4, ClientRuleHandlerInv
  <2> QED
    BY <1>2, <1>3, <2>5, ManagerFrame, PartsInv
<1> QED
  BY <1>4, <1>5 DEF ForwardRule

-----------------------------------------------------------------------------
(* The steps of a call. *)

LEMMA CallFields ==
  ASSUME NEW t \in Calls
  PROVE  t.client \in Clients /\ t.key \in Keys /\ t.value \in Contents /\ t \in Threads
BY ClientAssumption

LEMMA ListeningManagers ==
  ASSUME NEW uri
  PROVE  ListeningAt(uri) \subseteq Managers
BY DEF ListeningAt

(* Steps of a call that concern its client only: they abort it, or take    *)
(* the call to a state that is in order.                                   *)
LEMMA ClientStepInv ==
  ASSUME ServiceInv, NEW t \in Calls, UNCHANGED <<masterVars, crashes>>,
         \/ Abort(t.client)
         \/ UNCHANGED managerVars /\ \E s \in CallStates : CallInv(s) /\ Goto(t, s)
  PROVE  ServiceInv'
<1>1. MasterInv' /\ UNCHANGED forwarded
  BY MasterFrame DEF ServiceInv
<1>2. ManagerTypeOK'
  BY ManagerFrame, AbortType DEF ServiceInv, ServiceTypeOK
<1>3. (ClientTypeOK /\ ClientInv)'
  BY <1>1, CallFields, AbortInv, GotoInv DEF ServiceInv, ServiceTypeOK
<1> QED
  BY <1>1, <1>2, <1>3, PartsInv

LEMMA PrologueInv ==
  ASSUME ServiceInv, NEW t \in Calls, UNCHANGED crashes,
         MakeCall(t) \/ HasMatchingRule(t) \/ GetMatchingRule(t)
  PROVE  ServiceInv'
<1>1. UNCHANGED masterVars
  BY DEF MakeCall, HasMatchingRule, GetMatchingRule
<1>2. \A pc \in {"has_rule", "get_rule"} :
         [pc |-> pc] \in CallStates /\ CallInv([pc |-> pc])
  BY DEF CallStates, CallInv, HasARule
<1>3. Return("UNKNOWN", "") \in CallStates /\ CallInv(Return("UNKNOWN", ""))
  BY ReturnState DEF Statuses, Contents
<1> PICK r : r = rule_db[t.client][<<t.op, t.key>>]
  OBVIOUS
<1> PICK s : s = [pc |-> "action", rule |-> r, idx |-> 1, change |-> <<>>]
  OBVIOUS
<1>4. HasRule(t) => s \in CallStates /\ CallInv(s)
  <2> SUFFICES ASSUME HasRule(t) PROVE s \in CallStates /\ CallInv(s)
    OBVIOUS
  <2>1. r \in FilledRules /\ Installed(r)
    BY CallFields DEF ServiceInv, ServiceTypeOK, ClientTypeOK, ClientInv, HasRule
  <2> QED
    BY <2>1, StartedState
<1> QED
  BY <1>1, <1>2, <1>3, <1>4, ClientStepInv DEF MakeCall, HasMatchingRule, GetMatchingRule

LEMMA ExecuteCopyActionInv ==
  ASSUME ServiceInv, NEW t \in Calls, UNCHANGED crashes, ExecuteCopyAction(t)
  PROVE  ServiceInv'
<1> USE DEF ServiceInv, ServiceTypeOK
<1>1. call[t].pc = "action" /\ call[t].idx <= Len(call[t].rule.rule.action)
  BY AtActionFields DEF ExecuteCopyAction
<1>2. MasterInv' /\ UNCHANGED forwarded
  BY MasterFrame DEF ExecuteCopyAction
<1>3. ManagerTypeOK'
  <2> PICK m \in Managers : \E dst : BeginCopyFrom(t, m, CurrentAction(t).key, dst)
    BY ListeningManagers DEF ExecuteCopyAction
  <2> PICK key, dst : key = CurrentAction(t).key /\ BeginCopyFrom(t, m, key, dst)
    OBVIOUS
  <2>1. key \in Keys
    BY <1>1, CurrentActionType
  <2> QED
    BY <2>1, CallFields, BeginCopyFromType
<1>4. (ClientTypeOK /\ ClientInv)'
  <2> PICK s : s = [call[t] EXCEPT !.pc = "copying"]
    OBVIOUS
  <2>1. s \in CallStates /\ CallInv(s) /\ Goto(t, s)
    BY <1>1, WaitingInv DEF ExecuteCopyAction
  <2> QED
    BY <1>2, <2>1, GotoInv
<1> QED
  BY <1>2, <1>3, <1>4, PartsInv

(* A call goes on after an action that it has executed at a manager.       *)
LEMMA GotoExecutedInv ==
  ASSUME ClientTypeOK, ClientInv, UNCHANGED forwarded, NEW t \in Calls,
         call[t].pc \in {"action", "copying"}, call[t].idx <= Len(call[t].rule.rule.action),
         Goto(t, Executed(t))
  PROVE  (ClientTypeOK /\ ClientInv)'
<1> PICK s : s = Executed(t)
  OBVIOUS
<1>1. s \in CallStates /\ CallInv(s) /\ Goto(t, s)
  BY ExecutedInv
<1> QED
  BY <1>1, GotoInv

LEMMA ExecuteRemoveOrPutInv ==
  ASSUME ServiceInv, NEW t \in Calls, UNCHANGED crashes,
         ExecuteRemoveAction(t) \/ ExecutePutAction(t)
  PROVE  ServiceInv'
<1> USE DEF ServiceInv, ServiceTypeOK
<1>1. call[t].pc = "action" /\ call[t].idx <= Len(call[t].rule.rule.action)
  BY AtActionFields DEF ExecuteRemoveAction, ExecutePutAction, PutAllowed
<1>2. MasterInv' /\ UNCHANGED forwarded
  BY MasterFrame DEF ExecuteRemoveAction, ExecutePutAction
<1>3. ManagerTypeOK'
  <2> PICK key : key = CurrentAction(t).key
    OBVIOUS
  <2>1. key \in Keys
    BY <1>1, CurrentActionType
  <2>2. UNCHANGED <<manager_state, work>>
    BY DEF ExecuteRemoveAction, ExecutePutAction
  <2>3. CASE ExecuteRemoveAction(t)
    <3> PICK m \in Managers : ManagerRemove(m, key)
      BY <2>3, ListeningManagers DEF ExecuteRemoveAction
    <3> QED
      BY <2>1, <2>2, ManagerRemoveType
  <2>4. CASE ExecutePutAction(t)
    <3> PICK m \in Managers : ManagerPut(m, t.key, t.value)
      BY <2>4, ListeningManagers DEF ExecutePutAction
    <3> QED
      BY <2>2, CallFields, ManagerPutType
  <2> QED
    BY <2>3, <2>4
<1>4. Goto(t, Executed(t))
  BY DEF ExecuteRemoveAction, ExecutePutAction
<1>5. (ClientTypeOK /\ ClientInv)'
  BY <1>1, <1>2, <1>4, GotoExecutedInv
<1> QED
  BY <1>2, <1>3, <1>5, PartsInv

LEMMA FinishWriteInv ==
  ASSUME ServiceInv, NEW t \in Calls, UNCHANGED crashes, FinishWrite(t)
  PROVE  ServiceInv'
<1> USE DEF ServiceInv, ServiceTypeOK
<1>1. MasterInv' /\ UNCHANGED forwarded
  BY MasterFrame DEF FinishWrite
<1>2. ManagerTypeOK'
  BY CallFields, EndWriteType DEF FinishWrite
<1>3. (ClientTypeOK /\ ClientInv)'
  <2>1. CASE call[t].pc = "copying" /\ Goto(t, Executed(t))
    <3>1. call[t].idx <= Len(call[t].rule.rule.action)
      BY <2>1 DEF ClientInv, CallInv
    <3> QED
      BY <1>1, <2>1, <3>1, GotoExecutedInv
  <2>2. CASE UNCHANGED clientVars
    BY <1>1, <2>2, ClientFrame
  <2> QED
    BY <2>1, <2>2 DEF FinishWrite
<1> QED
  BY <1>1, <1>2, <1>3, PartsInv

LEMMA BelatedWorkInv ==
  ASSUME ServiceInv, NEW t \in Calls, UNCHANGED crashes, BelatedWork(t)
  PROVE  ServiceInv'
<1>1. MasterInv' /\ UNCHANGED <<forwarded, clientVars>>
  BY MasterFrame DEF BelatedWork, ServiceInv
<1>2. ManagerTypeOK'
  BY CallFields, BeginFetchType, EndRemoveType DEF BelatedWork, ServiceInv, ServiceTypeOK
<1> QED
  BY <1>1, <1>2, ClientFrame, PartsInv DEF ServiceInv, ServiceTypeOK

LEMMA SkipActionInv ==
  ASSUME ServiceInv, NEW t \in Calls, UNCHANGED crashes, SkipAction(t)
  PROVE  ServiceInv'
<1> PICK s : s = NextAction(t)
  OBVIOUS
<1>1. call[t].pc = "action" /\ UNCHANGED <<masterVars, managerVars>> /\ Goto(t, s)
  BY DEF SkipAction, AtAction
<1>2. s \in CallStates /\ CallInv(s)
  BY <1>1, NextActionInv DEF ServiceInv, ServiceTypeOK
<1> QED
  BY <1>1, <1>2, ClientStepInv

(* A report mentions names of the call's rule only.  Some master has put   *)
(* them into the rule, so the running one knows them, or an earlier one    *)
(* did.                                                                    *)
LEMMA ReportInv ==
  ASSUME ServiceInv, NEW t \in Calls, UNCHANGED crashes, Report(t)
  PROVE  ServiceInv'
<1> USE DEF ServiceInv, ServiceTypeOK
<1> PICK change : change = call[t].change
  OBVIOUS
<1>1. call[t].pc = "action"
  BY DEF Report
<1>2. CASE /\ ReceiveStorageChange(t, change) /\ Goto(t, [call[t] EXCEPT !.pc = "reporting"])
          /\ UNCHANGED managerVars
  <2>1. /\ change \in Seq(Actions) /\ Installed(call[t].rule)
        /\ NamesIn(change) \subseteq NamesOf(call[t].rule.rule)
    BY <1>1, RunningFields
  <2>2. PICK f \in forwarded : f.rpc = "InstallRule" /\ f.rule = call[t].rule.rule
    BY <2>1 DEF Installed
  <2>3. f.epoch < epoch \/ f.epoch = epoch
    BY MasterAssumption DEF MasterInv, MasterTypeOK
  <2>4. \A n \in NamesIn(change) : Vouched(n)
    BY <2>1, <2>2, <2>3 DEF MasterInv, ForwardedInv, Vouched
  <2>5. MasterInv' /\ UNCHANGED forwarded
    BY <1>2, <2>1, <2>4, CallFields, ReceiveStorageChangeInv, SentBySteps
       DEF ReceiveStorageChange
  <2>6. (ClientTypeOK /\ ClientInv)'
    <3> PICK s : s = [call[t] EXCEPT !.pc = "reporting"]
      OBVIOUS
    <3>1. s \in CallStates /\ CallInv(s) /\ Goto(t, s)
      BY <1>1, <1>2, WaitingInv
    <3> QED
      BY <2>5, <3>1, GotoInv
  <2> QED
    BY <1>2, <2>5, <2>6, ManagerFrame, PartsInv
<1>3. CASE Abort(t.client) /\ UNCHANGED masterVars
  BY <1>3, ClientStepInv DEF Report
<1> QED
  BY <1>2, <1>3 DEF Report

LEMMA ReportedInv ==
  ASSUME ServiceInv, NEW t \in Calls, UNCHANGED crashes, Reported(t)
  PROVE  ServiceInv'
<1> USE DEF ServiceInv, ServiceTypeOK
<1>1. MasterInv' /\ UNCHANGED forwarded
  BY CallFields, ConsumeInv, SentBySteps DEF Reported
<1>2. ManagerTypeOK'
  BY ManagerFrame, AbortType DEF Reported
<1>3. (ClientTypeOK /\ ClientInv)'
  <2>1. CASE Abort(t.client)
    BY <1>1, <2>1, CallFields, AbortInv
  <2>2. CASE Goto(t, Return("OK", ""))
    <3>1. Return("OK", "") \in CallStates /\ CallInv(Return("OK", ""))
      BY ReturnState DEF Statuses, Contents
    <3> QED
      BY <1>1, <2>2, <3>1, GotoInv
  <2>3. CASE Goto(t, [pc |-> "last", rule |-> call[t].rule])
    <3> PICK s : s = [pc |-> "last", rule |-> call[t].rule]
      OBVIOUS
    <3>1. call[t].rule \in FilledRules /\ Installed(call[t].rule)
      BY RunningFields DEF Reported
    <3>2. s \in CallStates /\ CallInv(s)
      BY <3>1 DEF CallStates, CallInv, HasARule
    <3> QED
      BY <1>1, <2>3, <3>2, GotoInv
  <2> QED
    BY <2>1, <2>2, <2>3 DEF Reported
<1> QED
  BY <1>1, <1>2, <1>3, PartsInv

LEMMA ExecuteGetActionInv ==
  ASSUME ServiceInv, NEW t \in Calls, UNCHANGED crashes, ExecuteGetAction(t)
  PROVE  ServiceInv'
<1> PICK m \in Managers : Goto(t, Return("OK", Read(m, t.key)))
  BY ListeningManagers DEF ExecuteGetAction, ManagerGet
<1> PICK value : value = Read(m, t.key) /\ Goto(t, Return("OK", value))
  OBVIOUS
<1>1. value \in Contents
  BY ReadType DEF ServiceInv, ServiceTypeOK
<1>2. Return("OK", value) \in CallStates /\ CallInv(Return("OK", value))
  BY <1>1, ReturnState DEF Statuses
<1> QED
  BY <1>2, ClientStepInv DEF ExecuteGetAction

LEMMA CallStepInv ==
  ASSUME ServiceInv, NEW t \in Calls, BeginCall(t) \/ CallStep(t)
  PROVE  ServiceInv'
<1>1. UNCHANGED crashes
  BY DEF BeginCall, CallStep
<1>2. CASE RejectAction(t)
  BY <1>1, <1>2, ClientStepInv DEF RejectAction
<1> QED
  BY <1>1, <1>2, PrologueInv, ExecuteCopyActionInv, FinishWriteInv, ExecuteRemoveOrPutInv,
     BelatedWorkInv, SkipActionInv, ReportInv, ReportedInv, ExecuteGetActionInv DEF BeginCall, CallStep

-----------------------------------------------------------------------------
(* The ends of processes. *)

(* The RPC that a call waits for fails.                                    *)
LEMMA AfterFailureInv ==
  ASSUME ClientTypeOK, ClientInv, NEW t \in Calls, InProgress(t), CalledUris(t) # {}
  PROVE  AfterFailure(t) \in CallStates /\ CallInv(AfterFailure(t))
<1>1. CASE call[t].pc = "last"
  BY <1>1, ReturnState DEF AfterFailure, Statuses, Contents
<1>2. CASE call[t].pc # "last"
  <2>1. /\ call[t].pc \in {"action", "copying"}
        /\ call[t].idx <= Len(call[t].rule.rule.action)
    <3>1. CASE call[t].pc = "copying"
      BY <3>1 DEF ClientInv, CallInv
    <3>2. CASE AtAction(t, {"copy_from", "remove"}) \/ PutAllowed(t)
      BY <3>2, AtActionFields DEF PutAllowed
    <3> QED
      BY <1>2, <3>1, <3>2 DEF CalledUris
  <2> QED
    BY <1>2, <2>1, ExecutedInv DEF AfterFailure
<1> QED
  BY <1>1, <1>2

LEMMA KillType ==
  ASSUME ServiceInv, NEW p, Kill(p)
  PROVE  crashes' \in 0..MaxCrashes
BY ServiceAssumption DEF ServiceInv, ServiceTypeOK, Kill

(* What the master does for a process that dies inside its Start goes on   *)
(* as a thread of its own.                                                 *)
LEMMA LeaveIntroductionInv ==
  ASSUME ServiceInv, NEW p \in Peers, NEW s, Kill(p), LeaveIntroduction(p, s)
  PROVE  MasterInv' /\ UNCHANGED forwarded
<1> PICK o : o = [killed |-> p, as |-> crashes + 1]
  OBVIOUS
<1>1. crashes + 1 \in 1..MaxCrashes /\ p \in Crashing
  BY ServiceAssumption DEF ServiceInv, ServiceTypeOK, Kill
<1>2. o \in Threads /\ p \in Threads
  BY <1>1, PeerThreads DEF Abandoned, Peers
<1>3. CASE UNCHANGED masterVars
  BY <1>3, MasterFrame DEF ServiceInv
<1>4. CASE Consume(p)
  BY <1>2, <1>4, ConsumeInv DEF ServiceInv, Consume
<1>5. CASE Abandon(p, o)
  BY <1>2, <1>5, AbandonInv DEF ServiceInv, Abandon
<1> QED
  BY <1>3, <1>4, <1>5 DEF LeaveIntroduction

LEMMA CrashManagerInv ==
  ASSUME ServiceInv, NEW m \in Managers, CrashManager(m)
  PROVE  ServiceInv'
<1> USE DEF ServiceInv, ServiceTypeOK
<1>1. MasterInv' /\ UNCHANGED forwarded
  BY LeaveIntroductionInv DEF CrashManager, Peers
<1>2. ManagerTypeOK'
  BY ManagerCrashType DEF CrashManager
<1>3. PICK failed \in SUBSET {t \in Calls : InProgress(t) /\ CalledUris(t) # {}} :
        call' = [t \in Calls |-> IF t \in failed THEN AfterFailure(t) ELSE call[t]]
  BY DEF CrashManager
<1>4. ASSUME NEW t \in Calls
      PROVE  call'[t] \in CallStates /\ CallInv(call[t])'
  <2> PICK s : s = call'[t]
    OBVIOUS
  <2>1. s \in CallStates /\ CallInv(s)
    BY <1>3, AfterFailureInv DEF ClientTypeOK, ClientInv
  <2> QED
    BY <1>1, <2>1, InstalledStays
<1>5. UNCHANGED <<rule_db, client_state>>
  BY DEF CrashManager
<1>6. ClientTypeOK'
  BY <1>3, <1>4, <1>5 DEF ClientTypeOK
<1>7. \A c \in Clients : \A k \in DOMAIN rule_db'[c] : Installed(rule_db[c][k])'
  BY <1>1, <1>5, InstalledStays DEF ClientInv
<1>8. crashes' \in 0..MaxCrashes
  BY KillType DEF CrashManager
<1> QED
  BY <1>1, <1>2, <1>4, <1>6, <1>7, <1>8 DEF ClientInv, MasterInv

LEMMA CrashClientInv ==
  ASSUME ServiceInv, NEW c \in Clients, CrashClient(c)
  PROVE  ServiceInv'
<1> USE DEF ServiceInv, ServiceTypeOK
<1>1. MasterInv' /\ UNCHANGED forwarded
  BY LeaveIntroductionInv DEF CrashClient, Peers
<1>2. ManagerTypeOK'
  BY AbortType DEF CrashClient
<1>3. (ClientTypeOK /\ ClientInv)'
  BY <1>1, AbortInv DEF CrashClient
<1>4. crashes' \in 0..MaxCrashes
  BY KillType DEF CrashClient
<1> QED
  BY <1>1, <1>2, <1>3, <1>4 DEF MasterInv

LEMMA MasterStepInv ==
  ASSUME ServiceInv, UNCHANGED <<managerVars, clientVars, crashes>>,
         \/ \E t \in Threads : HandlerStep(t)
         \/ Terminate \/ MasterStart
  PROVE  ServiceInv'
<1> USE DEF ServiceInv, ServiceTypeOK
<1>1. MasterInv' /\ UNCHANGED forwarded
  BY HandlerStepInv, TerminateInv, MasterStartInv, SentBySteps
<1> QED
  BY <1>1, ManagerFrame, ClientFrame, PartsInv

-----------------------------------------------------------------------------
LEMMA ServiceInitInv == ServiceInit => ServiceInv
<1> SUFFICES ASSUME ServiceInit PROVE ServiceInv
  OBVIOUS
<1>1. MasterInv
  BY MasterInitInv DEF ServiceInit
<1>2. ManagerTypeOK
  BY ManagerAssumption DEF ServiceInit, ManagerInit, ManagerTypeOK, Work
<1>3. /\ DOMAIN rule_db = Clients
      /\ \A c \in Clients : DOMAIN rule_db[c] = {} /\ rule_db[c] \in [DOMAIN rule_db[c] -> FilledRules]
  BY DEF ServiceInit, ClientInit, EmptyMap
<1>4. NotMade \in CallStates /\ CallInv(NotMade)
  BY DEF CallStates, NotMade, CallInv, HasARule
<1>5. ClientTypeOK /\ ClientInv
  BY <1>3, <1>4 DEF ServiceInit, ClientInit, ClientTypeOK, ClientInv
<1>6. crashes \in 0..MaxCrashes
  BY ServiceAssumption DEF ServiceInit
<1> QED
  BY <1>1, <1>2, <1>5, <1>6 DEF ServiceInv, ServiceTypeOK, MasterInv

LEMMA ServiceNextInv == ServiceInv /\ [ServiceNext]_serviceVars => ServiceInv'
<1> SUFFICES ASSUME ServiceInv, [ServiceNext]_serviceVars PROVE ServiceInv'
  OBVIOUS
<1>1. CASE UNCHANGED serviceVars
  <2>1. UNCHANGED masterVars /\ UNCHANGED <<managerVars, clientVars, crashes>>
    BY <1>1 DEF serviceVars
  <2> QED
    BY <2>1, MasterFrame, ManagerFrame, ClientFrame, PartsInv DEF ServiceInv, ServiceTypeOK
<1>2. CASE StartStep
  BY <1>2, StartStepInv
<1>3. CASE \/ \E m \in Managers : CrashManager(m)
           \/ \E c \in Clients : CrashClient(c)
  BY <1>3, CrashManagerInv, CrashClientInv
<1>4. CASE (\E o \in Operators : Operate(o)) \/ (\E v \in Viewers : Look(v))
  BY <1>4, OperateInv, LookInv
<1>5. CASE \E t \in Calls : BeginCall(t) \/ CallStep(t)
  BY <1>5, CallStepInv
<1>6. CASE \E t \in Threads : MasterStep(t) \/ ForwardRule(t)
  BY <1>6, MasterStepInv, ForwardRuleInv DEF MasterStep
<1>7. CASE (Terminate \/ MasterStart) /\ UNCHANGED <<managerVars, clientVars, crashes>>
  BY <1>7, MasterStepInv
<1> QED
  BY <1>1, <1>2, <1>3, <1>4, <1>5, <1>6, <1>7 DEF ServiceNext

(* ServiceInv holds of every behaviour of the service, whatever managers,  *)
(* clients, calls, rules and crashes there are (storage_master.cc,         *)
(* storage_manager.cc, storage_client.cc: every handler).                  *)
THEOREM ServiceInvariant == ServiceSpec => []ServiceInv
BY ServiceInitInv, ServiceNextInv, PTL DEF ServiceSpec

(* The service is well typed (storage_service.proto, and the state of the  *)
(* three servers).                                                         *)
THEOREM ServiceTypeCorrect == ServiceSpec => []ServiceTypeOK
<1>1. ServiceInv => ServiceTypeOK
  BY DEF ServiceInv
<1> QED
  BY <1>1, ServiceInvariant, PTL

(* The master's invariant holds of the master that is called by clients    *)
(* whose rules some master filled in (storage_master.cc: StorageChange;    *)
(* storage_client.cc: the report at the end of Get and Put).               *)
THEOREM ServiceMasterInv == ServiceSpec => []MasterInv
<1>1. ServiceInv => MasterInv
  BY DEF ServiceInv
<1> QED
  BY <1>1, ServiceInvariant, PTL

(* Every uri at which a client carries out an action of a rule is one at   *)
(* which a manager of the action's name introduced itself, whatever        *)
(* restarts and crashes there were in between (FillInRule, RuleDb,         *)
(* Execute...Action).                                                      *)
THEOREM ServiceClientsRouteTrue == ServiceSpec => []ClientsRouteTrue
<1>1. ServiceInv => ClientsRouteTrue
  BY DEF ServiceInv, ClientInv, CallInv, Installed, ClientsRouteTrue
<1> QED
  BY <1>1, ServiceInvariant, PTL

(* The callers that StorageService models send the master only what the    *)
(* environment of MasterSpec may: the master's properties hold in the      *)
(* service, too (StorageChange reports only names of the rule).            *)
THEOREM ServiceMasterProperties ==
  ServiceSpec => [](OrphansComeFromOldRules /\ GetViewAnswers /\ RoutesAreTrue)
BY ServiceMasterInv, MasterInvImplies, PTL

=============================================================================
