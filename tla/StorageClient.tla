---------------------------- MODULE StorageClient ----------------------------
(***************************************************************************)
(* The storage clients: RuleDb, and the Get and Put handlers that carry    *)
(* out the actions of a rule one RPC at a time and then report them to the *)
(* master.  A call of an application is the thread that serves it; it is a *)
(* record [client, op, key, value], and it is made once.                   *)
(*                                                                         *)
(* An assert that fails ends the client's process (Abort).  The empty      *)
(* StorageChange of ExecutePutAction changes nothing anywhere and its      *)
(* status is not looked at: it is left out.                                *)
(***************************************************************************)
EXTENDS StorageMaster, StorageManager

CONSTANT Calls

VARIABLES
  rule_db,       \* client -> RuleDb: <<op_type, key>> -> rule with its uris
  client_state,  \* client -> state of its process
  call           \* call -> progress of the handler that serves it

clientVars == <<rule_db, client_state, call>>

RuleKeys == {"GET", "PUT"} \X Keys

FilledRules == UNION {[rule: {r}, uri: UriMaps(r)] : r \in Rules}

NotMade == [pc |-> "not_made"]

Running == [pc: {"action", "copying", "fallthrough", "reporting"},
            rule: FilledRules, idx: Nat, change: Seq(Actions)]

Returned == [pc: {"returned"}, status: Statuses, value: Contents]

Return(status, value) == [pc |-> "returned", status |-> status, value |-> value]

CallStates ==
  {NotMade} \cup [pc: {"has_rule", "get_rule"}] \cup Running \cup Returned
    \cup [pc: {"last"}, rule: FilledRules]

ASSUME ClientAssumption ==
  /\ Calls \subseteq [client: Clients, op: {"GET", "PUT"}, key: Keys, value: Contents]
  /\ Calls \subseteq Threads

ClientTypeOK ==
  /\ DOMAIN rule_db = Clients
  /\ \A c \in Clients : /\ DOMAIN rule_db[c] \subseteq RuleKeys
                       /\ rule_db[c] \in [DOMAIN rule_db[c] -> FilledRules]
  /\ client_state \in [Clients -> {"stopped", "introducing", "serving"}]
  /\ call \in [Calls -> CallStates]

ClientInit ==
  /\ rule_db = [c \in Clients |-> EmptyMap]
  /\ client_state = [c \in Clients |-> "stopped"]
  /\ call = [t \in Calls |-> NotMade]

-----------------------------------------------------------------------------
InProgress(t) == call[t].pc \notin {"not_made", "returned"}

Goto(t, state) ==
  /\ call' = [call EXCEPT ![t] = state]
  /\ UNCHANGED <<rule_db, client_state>>

-----------------------------------------------------------------------------
(* The action that a call is at: Put executes all, Get all but the last.   *)

(* Mutant: Get executes its last action in the loop, too. *)
LimitOfAll(t) == Len(call[t].rule.rule.action)

Limit(t) == LET size == Len(call[t].rule.rule.action) IN IF t.op = "PUT" THEN size ELSE size - 1

CurrentAction(t) == call[t].rule.rule.action[call[t].idx]

(* Mutant: every action goes to the manager of the first one. *)
UriOfFirst(t, j) == call[t].rule.uri[<<1, j>>]

(* The uri that the master has filled in for the j-th manager of the       *)
(* current action.                                                         *)
UriOf(t, j) == call[t].rule.uri[<<call[t].idx, j>>]

AtAction(t, types) ==
  call[t].pc = "action" /\ call[t].idx <= Limit(t) /\ CurrentAction(t).type \in types

PutAllowed(t) == t.op = "PUT" /\ AtAction(t, {"put"}) /\ CurrentAction(t).key = t.key

(* The RPC to a manager that call t may have sent and that has not begun.  *)
Sent(t) ==
  LET a == CurrentAction(t)
      listening == ListeningAt(UriOf(t, 1)) IN
  CASE AtAction(t, {"copy_from"}) -> {FetchWork(m, a.key, UriOf(t, 2)) : m \in listening}
    [] AtAction(t, {"remove"}) -> {RemoveWork(m, a.key) : m \in listening}
    [] PutAllowed(t) -> {WriteWork(m, t.key, t.value) : m \in listening}
    [] OTHER -> {}

(* The client's process ends, and its calls fail.  What it has sent goes   *)
(* on where it arrives, if it does.                                        *)
Abort(c) ==
  LET aborted == {t \in Calls : t.client = c /\ InProgress(t)} IN
  /\ client_state' = [client_state EXCEPT ![c] = "stopped"]
  /\ rule_db' = [rule_db EXCEPT ![c] = EmptyMap]
  /\ call' = [t \in Calls |-> IF t \in aborted THEN Return("UNAVAILABLE", "") ELSE call[t]]
  /\ \E late \in SUBSET aborted : \E sent \in [late -> UNION {Sent(t) : t \in late}] :
       /\ \A t \in late : sent[t] \in Sent(t)
       /\ work' = [t \in Threads |-> IF t \in late THEN sent[t] ELSE work[t]]
  /\ UNCHANGED <<store, manager_state>>

-----------------------------------------------------------------------------
(* RuleDb. *)

(* Mutant: the type of the operation is not part of the key. *)
AddRuleForKey(c, r) ==
  rule_db' = [rule_db EXCEPT ![c] = Bind(Bind(@, <<"GET", r.rule.key>>, r), <<"PUT", r.rule.key>>, r)]

AddRule(c, r) ==
  rule_db' = [rule_db EXCEPT ![c] = Bind(@, <<r.rule.op_type, r.rule.key>>, r)]

EraseRule(c, r) ==
  rule_db' = [rule_db EXCEPT ![c] = Unbind(@, <<r.rule.op_type, r.rule.key>>)]

HasRule(t) == <<t.op, t.key>> \in DOMAIN rule_db[t.client]

(* The master's handler h reaches its client: InstallRule and RemoveRule. *)
ClientRuleHandler(h) ==
  LET r == [rule |-> h.rule, uri |-> h.uri] IN
  /\ \/ h.rpc = "InstallRule" /\ AddRule(h.to, r)
     \/ h.rpc = "RemoveRule" /\ EraseRule(h.to, r)
  /\ UNCHANGED <<client_state, call>>

-----------------------------------------------------------------------------
(* The prologue of Get and Put.  Applications call for a key that has a    *)
(* rule ("currently there must be a rule already").                        *)

MakeCall(t) ==
  /\ call[t] = NotMade
  /\ client_state[t.client] = "serving"
  /\ HasRule(t)
  /\ Goto(t, [pc |-> "has_rule"])
  /\ UNCHANGED <<masterVars, managerVars>>

HasMatchingRule(t) ==
  /\ call[t].pc = "has_rule"
  /\ \/ HasRule(t) /\ Goto(t, [pc |-> "get_rule"]) /\ UNCHANGED managerVars
     \/ ~HasRule(t) /\ Abort(t.client)
  /\ UNCHANGED masterVars

(* rule_db_.at throws when the rule has been removed since it was looked   *)
(* for.                                                                    *)
GetMatchingRule(t) ==
  /\ call[t].pc = "get_rule"
  /\ \/ /\ HasRule(t)
        /\ Goto(t, [pc |-> "action", rule |-> rule_db[t.client][<<t.op, t.key>>], idx |-> 1,
                    change |-> <<>>])
        /\ UNCHANGED managerVars
     \/ ~HasRule(t) /\ Goto(t, Return("UNKNOWN", "")) /\ UNCHANGED managerVars
     \/ ~HasRule(t) /\ Abort(t.client)
  /\ UNCHANGED masterVars

-----------------------------------------------------------------------------
(* The loop over the actions. *)

NextAction(t) == [call[t] EXCEPT !.pc = "action", !.idx = @ + 1]

(* Mutants: the action is not reported; the actions are reported backwards. *)
ExecutedUnreported(t) == NextAction(t)

ExecutedBackwards(t) == [NextAction(t) EXCEPT !.change = <<CurrentAction(t)>> \o @]

(* The action is done, as far as the client can tell. *)
Executed(t) ==
  IF CurrentAction(t).type = "remove" /\ t.op = "PUT"
  THEN [call[t] EXCEPT !.pc = "fallthrough", !.change = Append(@, CurrentAction(t))]
  ELSE [NextAction(t) EXCEPT !.change = Append(@, CurrentAction(t))]

(* Calls to a manager wait until one listens at the uri.  While the client *)
(* lives, a Put or Remove is the one step in which the medium changes: what *)
(* the RPC does before and after it nobody can tell.                       *)

(* Mutant: the client does not wait for the end of the copy. *)
ExecuteCopyActionUnawaited(t) ==
  /\ AtAction(t, {"copy_from"})
  /\ \E m \in ListeningAt(UriOf(t, 1)) : BeginCopyFrom(t, m, CurrentAction(t).key, UriOf(t, 2))
  /\ Goto(t, Executed(t))
  /\ UNCHANGED masterVars

ExecuteCopyAction(t) ==
  /\ AtAction(t, {"copy_from"})
  /\ \E m \in ListeningAt(UriOf(t, 1)) : BeginCopyFrom(t, m, CurrentAction(t).key, UriOf(t, 2))
  /\ Goto(t, [call[t] EXCEPT !.pc = "copying"])
  /\ UNCHANGED masterVars

ExecuteRemoveAction(t) ==
  /\ AtAction(t, {"remove"})
  /\ \E m \in ListeningAt(UriOf(t, 1)) : ManagerRemove(m, CurrentAction(t).key)
  /\ Goto(t, Executed(t))
  /\ UNCHANGED <<masterVars, manager_state, work>>

ExecutePutAction(t) ==
  /\ PutAllowed(t)
  /\ \E m \in ListeningAt(UriOf(t, 1)) : ManagerPut(m, t.key, t.value)
  /\ Goto(t, Executed(t))
  /\ UNCHANGED <<masterVars, manager_state, work>>

SkipAction(t) ==
  /\ AtAction(t, {"not_set"})
  /\ Goto(t, NextAction(t))
  /\ UNCHANGED <<masterVars, managerVars>>

(* What the asserts in the two switches reject.  The remove case of Put    *)
(* has no break: it runs into the put case, where the put_action of a      *)
(* remove action is empty and its key is not the key of the request.       *)
RejectAction(t) ==
  /\ \/ AtAction(t, {"get"})
     \/ AtAction(t, {"put"}) /\ ~PutAllowed(t)
     \/ call[t].pc = "fallthrough"
  /\ Abort(t.client)
  /\ UNCHANGED masterVars

(* The manager ends what it writes, for a call that waits for its CopyFrom *)
(* or for one whose client is gone.                                        *)
FinishWrite(t) ==
  /\ EndWrite(t)
  /\ \/ call[t].pc = "copying" /\ Goto(t, Executed(t))
     \/ call[t].pc # "copying" /\ UNCHANGED clientVars
  /\ UNCHANGED masterVars

(* What else a client that is gone has sent to managers.                   *)
BelatedWork(t) ==
  /\ BeginFetch(t) \/ EndRemove(t)
  /\ UNCHANGED <<masterVars, clientVars>>

-----------------------------------------------------------------------------
(* The report to the master, which the client insists on. *)

Report(t) ==
  /\ call[t].pc = "action"
  /\ call[t].idx > Limit(t)
  /\ \/ /\ ReceiveStorageChange(t, call[t].change)
        /\ Goto(t, [call[t] EXCEPT !.pc = "reporting"])
        /\ UNCHANGED managerVars
     \/ ~master_up /\ Abort(t.client) /\ UNCHANGED masterVars

LastAction(t) ==
  LET actions == call[t].rule.rule.action IN actions[Len(actions)]

LastIsGet(t) ==
  /\ call[t].rule.rule.action # <<>>
  /\ LastAction(t).type = "get"
  /\ LastAction(t).key = t.key

Reported(t) ==
  /\ call[t].pc = "reporting"
  /\ Consume(t)
  /\ \/ /\ handler[t] = Replied("OK")
        /\ \/ t.op = "PUT" /\ Goto(t, Return("OK", ""))
           \/ t.op = "GET" /\ LastIsGet(t) /\ Goto(t, [pc |-> "last", rule |-> call[t].rule])
        /\ UNCHANGED managerVars
     \/ handler[t] = Replied("OK") /\ t.op = "GET" /\ ~LastIsGet(t) /\ Abort(t.client)
     \/ handler[t] # Replied("OK") /\ Abort(t.client)

LastUri(t) == call[t].rule.uri[<<Len(call[t].rule.rule.action), 1>>]

ExecuteGetAction(t) ==
  /\ call[t].pc = "last"
  /\ \E m \in ListeningAt(LastUri(t)) : Goto(t, Return("OK", ManagerGet(m, t.key)))
  /\ UNCHANGED <<masterVars, managerVars>>

(* The uri of the manager that the call waits for or has called.           *)
CalledUris(t) ==
  IF call[t].pc = "copying" \/ AtAction(t, {"copy_from", "remove"}) \/ PutAllowed(t)
  THEN {UriOf(t, 1)}
  ELSE IF call[t].pc = "last" THEN {LastUri(t)} ELSE {}

(* Mutant: the client goes on waiting for the manager that is gone. *)
AfterFailureWaiting(t) == call[t]

(* What a call goes on with when its RPC fails: the status of the RPC is   *)
(* not looked at.                                                          *)
AfterFailure(t) == IF call[t].pc = "last" THEN Return("OK", "") ELSE Executed(t)

=============================================================================
