------------------------- MODULE ServiceThreadProofs -------------------------
(***************************************************************************)
(* Proofs about StorageService: ThreadsInv is invariant, and with it the   *)
(* service implements MasterSpec, whose environment sends the master every *)
(* request that managers, clients, operators and viewers may send.         *)
(***************************************************************************)
EXTENDS StorageServiceProofs, FiniteSetTheorems

-----------------------------------------------------------------------------
(* What every thread is doing.  The handler of a manager or client adds it *)
(* to the master, as does the one it leaves behind when it is killed; that *)
(* of an operator passes its rule on, that of a viewer reads the view, and *)
(* that of a call applies a report of actions of one rule, whether or not  *)
(* the call's client is still there.                                       *)
MadeOf(change, action) == \A i \in DOMAIN change : \E j \in DOMAIN action : change[i] = action[j]

Serves(t, h) ==
  /\ h.pc \in {"AddPeer", "AddingPeer", "AddManager", "AddFiles"} =>
       (t \in Peers /\ h.peer = t) \/ (t \in Abandoned /\ h.peer = t.killed)
  /\ h.pc \in {"AddManager", "AddFiles"} => h.peer \in Managers
  /\ h.pc \in {"PopulateFiles", "PopulateUris", "viewed"} => t \in Viewers
  /\ h.pc \in {"FindClient", "FillInRule"} =>
       t \in Operators /\ h.rpc = t.rpc /\ h.client = t.client /\ h.rule = t.rule
  /\ h.pc \in {"StorageChange", "RemoveFromDst"} =>
       t \in Calls /\ \E r \in Rules : MadeOf(h.change, r.action)

(* A call carries out a rule for its operation and its key, and reports    *)
(* the actions before the current one that are set, in their order.        *)
Follows(t, c) ==
  LET action == c.rule.rule.action IN
  /\ HasARule(c) => c.rule.rule.op_type = t.op /\ c.rule.rule.key = t.key
  /\ c.pc \in {"action", "copying", "reporting"} =>
       c.idx <= Len(action) + 1 /\ c.change \in Selections(action, c.idx - 1)
  /\ c.pc = "copying" => action[c.idx].type = "copy_from"
  /\ c.pc = "reporting" => c.idx >= Len(action) /\ (t.op = "PUT" => c.idx > Len(action))
  /\ c.pc = "last" => t.op = "GET"

RulesFiled ==
  \A c \in Clients : \A k \in DOMAIN rule_db[c] :
    rule_db[c][k].rule.op_type = k[1] /\ rule_db[c][k].rule.key = k[2]

(* A manager or client calls the master only inside its Start, and a call  *)
(* is in progress only while its client serves.                            *)
PeersIntroduce ==
  /\ \A m \in Managers : handler[m] # Idle => manager_state[m] = "introducing"
  /\ \A c \in Clients : handler[c] # Idle => client_state[c] = "introducing"

CallersServe == \A t \in Calls : InProgress(t) => client_state[t.client] = "serving"

ThreadsInv ==
  /\ \A t \in Threads : Serves(t, handler[t])
  /\ PeersIntroduce
  /\ CallersServe
  /\ RulesFiled
  /\ \A t \in Calls : Follows(t, call[t])
  /\ \A t \in Calls :
       call[t].pc = "reporting" /\ handler[t].pc \in {"StorageChange", "RemoveFromDst"} =>
         MadeOf(handler[t].change, call[t].rule.rule.action)

(* Every request that was sent to a client is that of another operator,    *)
(* which has its answer: MasterSpec's bound on them is never in the way.   *)
ForwardsInv ==
  /\ IsFiniteSet(forwarded)
  /\ Cardinality(forwarded) <= Cardinality({o \in Operators : Answered(o)})

-----------------------------------------------------------------------------
(* Handlers. *)

Applying == {"StorageChange", "RemoveFromDst"}

(* The handler of thread t goes on from state g to state h. *)
Advances(t, g, h) ==
  /\ g # Idle /\ Serves(t, h)
  /\ g.pc \in Applying =>
       \/ h.pc \in Applying /\ \A action : MadeOf(g.change, action) => MadeOf(h.change, action)
       \/ h = Replied("OK")
  /\ g.pc \notin Applying => h.pc \notin Applying

LEMMA MadeOfTail ==
  ASSUME NEW change \in Seq(Actions), change # <<>>, NEW action, MadeOf(change, action)
  PROVE  MadeOf(Tail(change), action)
<1>1. \A i \in DOMAIN Tail(change) : i + 1 \in DOMAIN change /\ Tail(change)[i] = change[i + 1]
  OBVIOUS
<1> QED
  BY <1>1 DEF MadeOf

LEMMA RepliedServes ==
  ASSUME NEW t, NEW status
  PROVE  /\ Serves(t, Replied(status)) /\ Replied(status).pc \notin Applying
         /\ Serves(t, Idle) /\ Idle.pc \notin Applying
         /\ Replied(status) # Idle
BY DEF Serves, Replied, Idle, Applying

LEMMA IntroduceAdvances ==
  ASSUME MasterTypeOK, NEW t \in Threads, Serves(t, handler[t]),
         \/ LockTracker(t) \/ AddPeer(t) \/ AddManager(t) \/ AddFile(t) \/ FinishIntroduce(t)
  PROVE  \E h : Advances(t, handler[t], h) /\ Become(t, h)
<1> PICK g : g = handler[t]
  OBVIOUS
<1>1. /\ g \in IntroduceHandlers /\ g # Idle
      /\ (t \in Peers /\ g.peer = t) \/ (t \in Abandoned /\ g.peer = t.killed)
  BY HandlerFields DEF MasterTypeOK, Serves, LockTracker, AddPeer, AddManager, AddFile, FinishIntroduce, Idle
<1>2. \A pc, file :
         LET h == [pc |-> pc, peer |-> g.peer, file |-> file]
         IN  pc \in {"AddingPeer", "AddManager", "AddFiles"}
               /\ (pc # "AddingPeer" => g.peer \in Managers) => Advances(t, g, h)
  BY <1>1 DEF Advances, Serves, Applying, IntroduceHandlers
<1>3. g = [pc |-> g.pc, peer |-> g.peer, file |-> g.file]
  BY <1>1 DEF IntroduceHandlers
<1>4. \A status : Advances(t, g, Replied(status))
  BY <1>1, RepliedServes DEF Advances, IntroduceHandlers, Applying
<1>5. CASE LockTracker(t)
  <2>1. [g EXCEPT !.pc = "AddingPeer"] = [pc |-> "AddingPeer", peer |-> g.peer, file |-> g.file]
    BY <1>3
  <2> QED
    BY <1>2, <1>5, <2>1 DEF LockTracker
<1>6. CASE AddPeer(t)
  <2>1. [g EXCEPT !.pc = "AddManager"] = [pc |-> "AddManager", peer |-> g.peer, file |-> g.file]
    BY <1>3
  <2> QED
    BY <1>2, <1>4, <1>6, <2>1 DEF AddPeer
<1>7. CASE AddManager(t)
  <2>1. [g EXCEPT !.pc = "AddFiles"] = [pc |-> "AddFiles", peer |-> g.peer, file |-> g.file]
    BY <1>3
  <2>2. g.peer \in Managers
    BY <1>7 DEF AddManager, Serves
  <2> QED
    BY <1>2, <1>7, <2>1, <2>2 DEF AddManager
<1>8. CASE AddFile(t)
  <2> PICK key : Become(t, [g EXCEPT !.file = @ \ {key}])
    BY <1>8 DEF AddFile
  <2> PICK file : file = g.file \ {key}
    OBVIOUS
  <2>1. Become(t, [g EXCEPT !.file = file])
    OBVIOUS
  <2>2. [g EXCEPT !.file = file] = [pc |-> "AddFiles", peer |-> g.peer, file |-> file]
    BY <1>3, <1>8 DEF AddFile
  <2>3. g.peer \in Managers
    BY <1>8 DEF AddFile, Serves
  <2> QED
    BY <1>2, <2>1, <2>2, <2>3
<1>9. CASE FinishIntroduce(t)
  BY <1>4, <1>9 DEF FinishIntroduce
<1> QED
  BY <1>5, <1>6, <1>7, <1>8, <1>9

LEMMA ChangeAdvances ==
  ASSUME MasterInv, NEW t \in Threads, Serves(t, handler[t]),
         ApplyChange(t) \/ RemoveFromDst(t) \/ FinishStorageChange(t)
  PROVE  \E h : Advances(t, handler[t], h) /\ Become(t, h)
<1> PICK g : g = handler[t]
  OBVIOUS
<1>1. /\ g.pc \in Applying /\ g = [pc |-> g.pc, change |-> g.change]
      /\ g.change \in Seq(Actions) /\ g # Idle
      /\ g.pc = "RemoveFromDst" => g.change # <<>>
  BY HandlerFields
     DEF MasterInv, MasterTypeOK, HandlerInv, ApplyChange, RemoveFromDst, FinishStorageChange,
         Applying, Idle
<1>2. t \in Calls /\ \E r \in Rules : MadeOf(g.change, r.action)
  BY <1>1 DEF Serves, Applying
<1>3. \A pc \in Applying : Advances(t, g, [pc |-> pc, change |-> g.change])
  BY <1>1, <1>2 DEF Advances, Serves, Applying
<1>4. g.change # <<>> => Advances(t, g, ChangeHandler(Tail(g.change)))
  <2> SUFFICES ASSUME g.change # <<>> PROVE Advances(t, g, ChangeHandler(Tail(g.change)))
    OBVIOUS
  <2> PICK h : h = ChangeHandler(Tail(g.change))
    OBVIOUS
  <2>1. h.pc = "StorageChange" /\ h.change = Tail(g.change)
    BY DEF ChangeHandler
  <2>2. \A action : MadeOf(g.change, action) => MadeOf(h.change, action)
    BY <1>1, <2>1, MadeOfTail
  <2>3. Serves(t, h)
    BY <1>2, <2>1, <2>2 DEF Serves
  <2> QED
    BY <1>1, <2>1, <2>2, <2>3 DEF Advances, Applying
<1>5. Advances(t, g, Replied("OK"))
  BY <1>1, RepliedServes DEF Advances
<1>6. CASE ApplyChange(t)
  <2>1. g.change # <<>>
    BY <1>6 DEF ApplyChange
  <2>2. Become(t, [g EXCEPT !.pc = "RemoveFromDst"]) \/ Become(t, ChangeHandler(Tail(g.change)))
    BY <1>6 DEF ApplyChange
  <2>3. [g EXCEPT !.pc = "RemoveFromDst"] = [pc |-> "RemoveFromDst", change |-> g.change]
    BY <1>1
  <2> QED
    BY <1>3, <1>4, <2>1, <2>2, <2>3 DEF Applying
<1>7. CASE RemoveFromDst(t)
  BY <1>1, <1>4, <1>7 DEF RemoveFromDst
<1>8. CASE FinishStorageChange(t)
  BY <1>5, <1>8 DEF FinishStorageChange
<1> QED
  BY <1>6, <1>7, <1>8

LEMMA ThrowAdvances ==
  ASSUME NEW t \in Threads, Throw(t), handler[t] # Idle, handler[t].pc \notin Applying
  PROVE  Terminate \/ \E h : Advances(t, handler[t], h) /\ Become(t, h)
<1>1. Advances(t, handler[t], Replied("UNKNOWN"))
  BY RepliedServes DEF Advances
<1> QED
  BY <1>1 DEF Throw

LEMMA RuleAdvances ==
  ASSUME MasterTypeOK, NEW t \in Threads, Serves(t, handler[t]), FindClient(t) \/ FillInRule(t)
  PROVE  Terminate \/ \E h : Advances(t, handler[t], h) /\ Become(t, h)
<1> PICK g : g = handler[t]
  OBVIOUS
<1>1. /\ g \in RuleHandlers /\ g # Idle /\ g.pc \notin Applying /\ t \in Operators
      /\ g.rpc = t.rpc /\ g.client = t.client /\ g.rule = t.rule
  BY HandlerFields DEF MasterTypeOK, Serves, FindClient, FillInRule, Idle, Applying
<1>2. \A to, uri :
         Advances(t, g, [pc |-> "FillInRule", rpc |-> g.rpc, client |-> g.client, to |-> to,
                         rule |-> g.rule, uri |-> uri])
  BY <1>1 DEF Advances, Serves, Applying
<1>3. CASE FindClient(t)
  BY <1>1, <1>2, <1>3, ThrowAdvances DEF FindClient
<1>4. CASE FillInRule(t)
  <2>1. g = [pc |-> "FillInRule", rpc |-> g.rpc, client |-> g.client, to |-> g.to,
             rule |-> g.rule, uri |-> g.uri]
    BY <1>1, <1>4 DEF FillInRule, RuleHandlers
  <2>2. \A uri : [g EXCEPT !.uri = uri] =
           [pc |-> "FillInRule", rpc |-> g.rpc, client |-> g.client, to |-> g.to,
            rule |-> g.rule, uri |-> uri]
    BY <2>1
  <2>3. (\E uri : Become(t, [g EXCEPT !.uri = uri])) \/ Throw(t)
    BY <1>4 DEF FillInRule
  <2>4. ASSUME NEW uri, Become(t, [g EXCEPT !.uri = uri])
        PROVE  \E h : Advances(t, g, h) /\ Become(t, h)
    <3> PICK h : h = [pc |-> "FillInRule", rpc |-> g.rpc, client |-> g.client, to |-> g.to,
                      rule |-> g.rule, uri |-> uri]
      OBVIOUS
    <3>1. h = [g EXCEPT !.uri = uri] /\ Advances(t, g, h)
      BY <1>2, <2>2
    <3> QED
      BY <2>4, <3>1
  <2> QED
    BY <1>1, <2>3, <2>4, ThrowAdvances
<1> QED
  BY <1>3, <1>4

LEMMA ViewAdvances ==
  ASSUME NEW t \in Threads, Serves(t, handler[t]), PopulateFiles(t) \/ PopulateUris(t)
  PROVE  Terminate \/ \E h : Advances(t, handler[t], h) /\ Become(t, h)
<1>1. handler[t].pc \in {"PopulateFiles", "PopulateUris"} /\ handler[t] # Idle
  BY DEF PopulateFiles, PopulateUris, Idle
<1>2. \A pc, view : pc \in {"PopulateUris", "viewed"} =>
         Advances(t, handler[t], [pc |-> pc, view |-> view])
  <2>1. t \in Viewers
    BY <1>1 DEF Serves
  <2> QED
    BY <1>1, <2>1 DEF Advances, Serves, Applying
<1> QED
  BY <1>1, <1>2, ThrowAdvances DEF PopulateFiles, PopulateUris, Applying

(* What a step of the master's handler for thread t does to the handlers.  *)
LEMMA HandlerAdvances ==
  ASSUME MasterInv, NEW t \in Threads, Serves(t, handler[t]), HandlerStep(t)
  PROVE  Terminate \/ \E h : Advances(t, handler[t], h) /\ Become(t, h)
BY IntroduceAdvances, ChangeAdvances, RuleAdvances, ViewAdvances DEF HandlerStep, MasterInv

-----------------------------------------------------------------------------
(* What a call has to report. *)

LEMMA SelectionBy ==
  ASSUME NEW action, NEW k, NEW n \in 0..k, NEW pos \in Positions(action, k, n)
  PROVE  [j \in 1..n |-> action[pos[j]]] \in Selections(action, k)
BY DEF Selections

LEMMA SelectionStart ==
  ASSUME NEW action
  PROVE  <<>> \in Selections(action, 0)
<1> DEFINE pos == [j \in 1..0 |-> 1]
<1>1. <<>> = [j \in 1..0 |-> action[pos[j]]]
  OBVIOUS
<1>2. pos \in Positions(action, 0, 0)
  BY DEF Positions
<1>3. 0 \in 0..0
  OBVIOUS
<1> HIDE DEF pos
<1> QED
  BY <1>1, <1>2, <1>3, SelectionBy

LEMMA SelectionSkip ==
  ASSUME NEW action, NEW k \in Nat, NEW change \in Selections(action, k),
         action[k + 1].type = "not_set"
  PROVE  change \in Selections(action, k + 1)
<1> PICK n \in 0..k : \E pos \in Positions(action, k, n) : change = [j \in 1..n |-> action[pos[j]]]
  BY DEF Selections
<1> PICK pos \in Positions(action, k, n) : change = [j \in 1..n |-> action[pos[j]]]
  OBVIOUS
<1>1. /\ pos \in [1..n -> 1..k]
      /\ \A i, j \in 1..n : i < j => pos[i] < pos[j]
      /\ \A i \in 1..k : action[i].type # "not_set" <=> \E j \in 1..n : pos[j] = i
  BY DEF Positions
<1>2. n \in 0..(k + 1) /\ pos \in [1..n -> 1..(k + 1)]
  BY <1>1
<1>3. \A i \in 1..(k + 1) : action[i].type # "not_set" <=> \E j \in 1..n : pos[j] = i
  <2> TAKE i \in 1..(k + 1)
  <2>1. CASE i = k + 1
    <3>1. \A j \in 1..n : pos[j] # k + 1
      BY <1>1
    <3> QED
      BY <2>1, <3>1
  <2>2. CASE i # k + 1
    <3>1. i \in 1..k
      BY <2>2
    <3> QED
      BY <1>1, <3>1
  <2> QED
    BY <2>1, <2>2
<1>4. pos \in Positions(action, k + 1, n)
  BY <1>1, <1>2, <1>3 DEF Positions
<1> QED
  BY <1>2, <1>4, SelectionBy

LEMMA SelectionAppend ==
  ASSUME NEW action, NEW k \in Nat, NEW change \in Selections(action, k), change \in Seq(Actions),
         action[k + 1].type # "not_set", action[k + 1] \in Actions
  PROVE  Append(change, action[k + 1]) \in Selections(action, k + 1)
<1> PICK n \in 0..k : \E pos \in Positions(action, k, n) : change = [j \in 1..n |-> action[pos[j]]]
  BY DEF Selections
<1> PICK pos \in Positions(action, k, n) : change = [j \in 1..n |-> action[pos[j]]]
  OBVIOUS
<1>0. /\ pos \in [1..n -> 1..k]
      /\ \A i, j \in 1..n : i < j => pos[i] < pos[j]
      /\ \A i \in 1..k : action[i].type # "not_set" <=> \E j \in 1..n : pos[j] = i
  BY DEF Positions
<1> DEFINE next == [j \in 1..(n + 1) |-> IF j <= n THEN pos[j] ELSE k + 1]
<1>1. n \in Nat /\ n + 1 \in 0..(k + 1) /\ next \in [1..(n + 1) -> 1..(k + 1)]
  BY <1>0
<1>2. \A i, j \in 1..(n + 1) : i < j => next[i] < next[j]
  <2> SUFFICES ASSUME NEW i \in 1..(n + 1), NEW j \in 1..(n + 1), i < j PROVE next[i] < next[j]
    OBVIOUS
  <2>1. i \in 1..n /\ pos[i] \in 1..k /\ next[i] = pos[i]
    BY <1>0
  <2>2. CASE j \in 1..n
    BY <1>0, <2>1, <2>2
  <2>3. CASE j = n + 1
    BY <2>1, <2>3
  <2> QED
    BY <2>2, <2>3
<1>3. \A i \in 1..(k + 1) : action[i].type # "not_set" <=> \E j \in 1..(n + 1) : next[j] = i
  <2> TAKE i \in 1..(k + 1)
  <2>1. CASE i = k + 1
    <3>1. next[n + 1] = k + 1 /\ n + 1 \in 1..(n + 1)
      OBVIOUS
    <3> QED
      BY <2>1, <3>1
  <2>2. CASE i # k + 1
    <3>1. i \in 1..k
      BY <2>2
    <3>2. \A j \in 1..n : j \in 1..(n + 1) /\ next[j] = pos[j]
      OBVIOUS
    <3>3. \A j \in 1..(n + 1) : next[j] = i => j \in 1..n
      BY <2>2
    <3> HIDE DEF next
    <3> QED
      BY <1>0, <3>1, <3>2, <3>3
  <2> QED
    BY <2>1, <2>2
<1>4. Append(change, action[k + 1]) = [j \in 1..(n + 1) |-> action[next[j]]]
  <2>1. Len(change) = n
    OBVIOUS
  <2>2. Append(change, action[k + 1]) =
          [j \in 1..(n + 1) |-> IF j <= n THEN change[j] ELSE action[k + 1]]
    BY <2>1
  <2>3. \A j \in 1..(n + 1) :
           (IF j <= n THEN change[j] ELSE action[k + 1]) = action[next[j]]
    OBVIOUS
  <2> QED
    BY <2>2, <2>3
<1> HIDE DEF next
<1>5. next \in Positions(action, k + 1, n + 1)
  BY <1>1, <1>2, <1>3 DEF Positions
<1> QED
  <2> PICK m, l : m = n + 1 /\ l = k + 1
    OBVIOUS
  <2>1. [j \in 1..m |-> action[next[j]]] \in Selections(action, l)
    BY <1>1, <1>5, SelectionBy
  <2> QED
    BY <1>4, <2>1

-----------------------------------------------------------------------------
(* Calls. *)

LEMMA NotRunningFollows ==
  ASSUME NEW t
  PROVE  /\ Follows(t, NotMade) /\ NotMade.pc # "reporting"
         /\ \A pc \in {"has_rule", "get_rule"} : Follows(t, [pc |-> pc])
         /\ \A status, value : /\ Follows(t, Return(status, value))
                              /\ Return(status, value).pc # "reporting"
BY DEF Follows, HasARule, NotMade, Return

LEMMA FirstPosition ==
  ASSUME NEW S, NEW seq \in Seq(S)
  PROVE  1 <= Len(seq) + 1
<1>1. Len(seq) \in Nat
  OBVIOUS
<1> QED
  BY <1>1

LEMMA StartedFollows ==
  ASSUME ThreadsInv, NEW t \in Calls, HasRule(t),
         rule_db[t.client][<<t.op, t.key>>] \in FilledRules
  PROVE  Follows(t, [pc |-> "action", rule |-> rule_db[t.client][<<t.op, t.key>>], idx |-> 1,
                     change |-> <<>>])
<1> PICK r : r = rule_db[t.client][<<t.op, t.key>>]
  OBVIOUS
<1>1. r.rule.op_type = t.op /\ r.rule.key = t.key
  BY CallFields DEF ThreadsInv, RulesFiled, HasRule
<1>2. r.rule.action \in Seq(Actions)
  BY FilledFields
<1>3. 1 <= Len(r.rule.action) + 1
  BY <1>2, FirstPosition
<1> PICK change : change = <<>>
  OBVIOUS
<1>4. change \in Selections(r.rule.action, 0)
  BY SelectionStart
<1> PICK s : s = [pc |-> "action", rule |-> r, idx |-> 1, change |-> change]
  OBVIOUS
<1>5. s.pc = "action" /\ s.rule = r /\ s.idx = 1 /\ s.idx - 1 = 0 /\ s.change = change
  OBVIOUS
<1>6. Follows(t, s)
  BY <1>1, <1>3, <1>4, <1>5 DEF Follows
<1> QED
  BY <1>6

(* The types of the actions that a call can execute.                       *)
LEMMA ExecutedFollows ==
  ASSUME ServiceInv, ThreadsInv, NEW t \in Calls, call[t].pc \in {"action", "copying"},
         call[t].idx <= Len(call[t].rule.rule.action), CurrentAction(t).type # "not_set"
  PROVE  /\ Follows(t, Executed(t)) /\ Executed(t).pc \in {"action", "fallthrough"}
         /\ Executed(t).change = Append(call[t].change, CurrentAction(t))
<1> PICK s : s = call[t]
  OBVIOUS
<1> PICK e : e = Executed(t)
  OBVIOUS
<1>1. /\ e.rule = s.rule /\ e.pc \in {"action", "fallthrough"}
      /\ e.pc = "action" => e.idx = s.idx + 1
  BY ExecutedInv DEF ServiceInv, ServiceTypeOK
<1>2. /\ s = [pc |-> s.pc, rule |-> s.rule, idx |-> s.idx, change |-> s.change]
      /\ s.idx \in Nat /\ s.idx >= 1 /\ s.change \in Seq(Actions)
      /\ s.rule.rule.action \in Seq(Actions)
  BY RunningFields DEF ServiceInv, ServiceTypeOK
<1>3. CurrentAction(t) \in Actions /\ CurrentAction(t) = s.rule.rule.action[s.idx]
  BY CurrentActionType DEF ServiceInv, ServiceTypeOK, CurrentAction
<1>4. e.change = Append(s.change, CurrentAction(t))
  <2> PICK change : change = Append(s.change, CurrentAction(t))
    OBVIOUS
  <2>1. CASE CurrentAction(t).type = "remove" /\ t.op = "PUT"
    <3>1. e = [s EXCEPT !.pc = "fallthrough", !.change = change]
      BY <2>1 DEF Executed
    <3> QED
      BY <1>2, <3>1
  <2>2. CASE ~(CurrentAction(t).type = "remove" /\ t.op = "PUT")
    <3> PICK n : n = NextAction(t)
      OBVIOUS
    <3>1. n = [pc |-> "action", rule |-> s.rule, idx |-> s.idx + 1, change |-> s.change]
      BY NextActionInv DEF ServiceInv, ServiceTypeOK
    <3>2. e = [n EXCEPT !.change = Append(@, CurrentAction(t))]
      BY <2>2 DEF Executed
    <3>3. n.change = s.change
      BY <3>1
    <3>4. e = [n EXCEPT !.change = change]
      BY <3>2, <3>3
    <3> QED
      BY <3>1, <3>4
  <2> QED
    BY <2>1, <2>2
<1>5. /\ s.rule.rule.op_type = t.op /\ s.rule.rule.key = t.key
      /\ s.change \in Selections(s.rule.rule.action, s.idx - 1)
  BY DEF ThreadsInv, Follows, HasARule
<1>6. e.pc = "action" =>
        /\ e.idx <= Len(e.rule.rule.action) + 1
        /\ e.change \in Selections(e.rule.rule.action, e.idx - 1)
  <2> PICK k : k = s.idx - 1
    OBVIOUS
  <2>1. k \in Nat /\ s.idx = k + 1
    BY <1>2
  <2>2. Append(s.change, s.rule.rule.action[k + 1]) \in Selections(s.rule.rule.action, k + 1)
    BY <1>2, <1>3, <1>5, <2>1, SelectionAppend
  <2>3. Len(s.rule.rule.action) \in Nat
    BY <1>2
  <2>4. e.change \in Selections(e.rule.rule.action, s.idx)
    BY <1>1, <1>3, <1>4, <2>1, <2>2
  <2>5. e.pc = "action" => e.idx - 1 = s.idx /\ e.idx <= Len(s.rule.rule.action) + 1
    BY <1>1, <1>2, <2>3
  <2> QED
    BY <1>1, <2>4, <2>5
<1> QED
  BY <1>1, <1>4, <1>5, <1>6 DEF Follows

LEMMA SkippedFollows ==
  ASSUME ServiceInv, ThreadsInv, NEW t \in Calls, SkipAction(t)
  PROVE  Follows(t, NextAction(t)) /\ NextAction(t).pc = "action"
<1> PICK s : s = call[t]
  OBVIOUS
<1> PICK n : n = NextAction(t)
  OBVIOUS
<1>1. s.pc = "action" /\ s.idx <= Len(s.rule.rule.action)
  BY AtActionFields DEF ServiceInv, ServiceTypeOK, SkipAction
<1>2. n = [pc |-> "action", rule |-> s.rule, idx |-> s.idx + 1, change |-> s.change]
  BY <1>1, NextActionInv DEF ServiceInv, ServiceTypeOK
<1>3. s.idx \in Nat /\ s.idx >= 1 /\ s.rule.rule.action \in Seq(Actions)
  BY <1>1, RunningFields DEF ServiceInv, ServiceTypeOK
<1>4. s.rule.rule.action[s.idx].type = "not_set"
  BY DEF SkipAction, AtAction, CurrentAction
<1>5. /\ s.rule.rule.op_type = t.op /\ s.rule.rule.key = t.key
      /\ s.change \in Selections(s.rule.rule.action, s.idx - 1)
  BY <1>1 DEF ThreadsInv, Follows, HasARule
<1>6. s.change \in Selections(s.rule.rule.action, s.idx)
  <2> PICK k : k = s.idx - 1
    OBVIOUS
  <2>1. k \in Nat /\ s.idx = k + 1
    BY <1>3
  <2> QED
    BY <1>4, <1>5, <2>1, SelectionSkip
<1>7. /\ n.pc = "action" /\ n.rule = s.rule /\ n.idx = s.idx + 1 /\ n.change = s.change
      /\ n.idx - 1 = s.idx /\ n.idx <= Len(n.rule.rule.action) + 1
  BY <1>1, <1>2, <1>3
<1> QED
  BY <1>5, <1>6, <1>7 DEF Follows

-----------------------------------------------------------------------------
(* ThreadsInv after a step, from what the step does to each thread.        *)

(* The handler of thread t stays, is new or done, or goes on.              *)
Handled(t) ==
  /\ Serves(t, handler'[t])
  /\ \/ handler'[t] = handler[t] \/ handler'[t].pc \notin Applying
     \/ Advances(t, handler[t], handler'[t])

(* Call t stays, or goes to a state in which it does not wait for a report. *)
Went(t) ==
  /\ Follows(t, call'[t])
  /\ call'[t] = call[t] \/ call'[t].pc # "reporting"
  /\ InProgress(t)' => client_state'[t.client] = "serving"

LEMMA ThreadsStep ==
  ASSUME ThreadsInv, \A t \in Threads : Handled(t), \A t \in Calls : Went(t),
         PeersIntroduce', RulesFiled'
  PROVE  ThreadsInv'
<1>1. ASSUME NEW t \in Calls, call'[t].pc = "reporting", handler'[t].pc \in Applying
      PROVE  MadeOf(handler'[t].change, call'[t].rule.rule.action)
  <2>1. t \in Threads /\ call'[t] = call[t]
    BY <1>1, CallFields DEF Went
  <2>2. CASE handler'[t] = handler[t]
    BY <1>1, <2>1, <2>2 DEF ThreadsInv, Applying
  <2>3. CASE Advances(t, handler[t], handler'[t])
    <3>1. handler[t].pc \in Applying
      BY <1>1, <2>3 DEF Advances
    <3>2. \A action : MadeOf(handler[t].change, action) => MadeOf(handler'[t].change, action)
      BY <1>1, <2>3, <3>1, RepliedServes DEF Advances
    <3> QED
      BY <1>1, <2>1, <3>1, <3>2 DEF ThreadsInv, Applying
  <2> QED
    BY <1>1, <2>1, <2>2, <2>3 DEF Handled
<1>2. CallersServe'
  BY DEF Went, CallersServe
<1> QED
  BY <1>1, <1>2 DEF ThreadsInv, Handled, Went, Serves, Follows, MadeOf, HasARule, Applying

LEMMA HandlersStay ==
  ASSUME ThreadsInv, UNCHANGED handler
  PROVE  \A t \in Threads : Handled(t)
BY DEF ThreadsInv, Handled

LEMMA CallsStayPut ==
  ASSUME ThreadsInv, UNCHANGED <<call, rule_db>>,
         \A c \in Clients : client_state[c] = "serving" => client_state'[c] = "serving"
  PROVE  (\A t \in Calls : Went(t)) /\ RulesFiled'
BY CallFields DEF ThreadsInv, Went, RulesFiled, CallersServe, InProgress

LEMMA BecomeHandled ==
  ASSUME MasterTypeOK, ThreadsInv, NEW t \in Threads, NEW h, Become(t, h), Serves(t, h),
         h.pc \notin Applying \/ Advances(t, handler[t], h)
  PROVE  \A u \in Threads : Handled(u)
<1>1. \A u \in Threads : handler'[u] = IF u = t THEN h ELSE handler[u]
  BY DEF MasterTypeOK, Become
<1> QED
  BY <1>1 DEF ThreadsInv, Handled

LEMMA TerminateHandled ==
  ASSUME ThreadsInv, Terminate
  PROVE  /\ \A u \in Threads : Handled(u)
         /\ UNCHANGED <<manager_state, client_state>> => PeersIntroduce'
<1>1. \A u \in Threads :
         \/ handler'[u] = handler[u]
         \/ handler[u] # Idle /\ handler'[u] = Replied("UNAVAILABLE")
  BY DEF Terminate
<1>2. \A u \in Threads : Handled(u)
  BY <1>1, RepliedServes DEF ThreadsInv, Handled
<1>3. UNCHANGED <<manager_state, client_state>> => PeersIntroduce'
  BY <1>1, PeerThreads DEF ThreadsInv, PeersIntroduce
<1> QED
  BY <1>2, <1>3

LEMMA GotoWent ==
  ASSUME ClientTypeOK, ThreadsInv, NEW t \in Calls, NEW s, Goto(t, s), Follows(t, s),
         s.pc # "reporting", client_state[t.client] = "serving"
  PROVE  (\A u \in Calls : Went(u)) /\ RulesFiled'
<1>1. \A u \in Calls : call'[u] = IF u = t THEN s ELSE call[u]
  BY DEF ClientTypeOK, Goto
<1>2. UNCHANGED <<rule_db, client_state>>
  BY DEF Goto
<1> QED
  BY <1>1, <1>2 DEF ThreadsInv, Went, RulesFiled, CallersServe, InProgress

LEMMA AbortWent ==
  ASSUME ClientTypeOK, ThreadsInv, NEW c \in Clients, Abort(c)
  PROVE  (\A u \in Calls : Went(u)) /\ RulesFiled'
<1>1. \A u \in Calls : call'[u] = Return("UNAVAILABLE", "") \/ call'[u] = call[u]
  BY DEF Abort
<1>2. ASSUME NEW u \in Calls PROVE Went(u)
  <2>1. InProgress(u)' => InProgress(u) /\ u.client # c
    BY DEF Abort, InProgress, Return
  <2>2. u.client # c => client_state'[u.client] = client_state[u.client]
    BY CallFields DEF Abort, ClientTypeOK
  <2>3. InProgress(u)' => client_state'[u.client] = "serving"
    BY <2>1, <2>2 DEF ThreadsInv, CallersServe
  <2>4. Follows(u, call'[u]) /\ (call'[u] = call[u] \/ call'[u].pc # "reporting")
    BY <1>1, NotRunningFollows DEF ThreadsInv
  <2> QED
    BY <2>3, <2>4 DEF Went
<1>3. ASSUME NEW d \in Clients, NEW k \in DOMAIN rule_db'[d]
      PROVE  k \in DOMAIN rule_db[d] /\ rule_db'[d][k] = rule_db[d][k]
  BY DEF Abort, ClientTypeOK, EmptyMap
<1> QED
  BY <1>2, <1>3 DEF ThreadsInv, RulesFiled

(* RuleDb files a rule under its operation and its key.                    *)
LEMMA RuleHandlerFiled ==
  ASSUME ClientTypeOK, ThreadsInv, NEW h, h.to \in Clients, ClientRuleHandler(h)
  PROVE  (\A u \in Calls : Went(u)) /\ RulesFiled'
<1> DEFINE r == [rule |-> h.rule, uri |-> h.uri]
           k == <<h.rule.op_type, h.rule.key>>
           db == rule_db[h.to]
           Filed(map) == \A j \in DOMAIN map : map[j].rule.op_type = j[1] /\ map[j].rule.key = j[2]
<1>1. Filed(db)
  BY DEF ThreadsInv, RulesFiled
<1>2. r.rule.op_type = k[1] /\ r.rule.key = k[2]
  OBVIOUS
<1>3. \/ rule_db' = [rule_db EXCEPT ![h.to] = Bind(db, k, r)]
      \/ rule_db' = [rule_db EXCEPT ![h.to] = Unbind(db, k)]
  BY DEF ClientRuleHandler, AddRule, EraseRule
<1> HIDE DEF r, k
<1>4. Filed(Bind(db, k, r))
  BY <1>1, <1>2 DEF Bind
<1>5. Filed(Unbind(db, k))
  BY <1>1 DEF Unbind, Restrict
<1>6. \A c \in Clients : Filed(rule_db'[c])
  <2>1. \A c \in Clients : \/ c = h.to /\ (rule_db'[c] = Bind(db, k, r) \/ rule_db'[c] = Unbind(db, k))
                           \/ rule_db'[c] = rule_db[c]
    BY <1>3 DEF ClientTypeOK
  <2> HIDE DEF db
  <2> QED
    BY <1>4, <1>5, <2>1 DEF ThreadsInv, RulesFiled
<1>7. RulesFiled'
  BY <1>6 DEF RulesFiled
<1>8. \A u \in Calls : Went(u)
  BY DEF ClientRuleHandler, ThreadsInv, Went, CallersServe, InProgress
<1> QED
  BY <1>7, <1>8

-----------------------------------------------------------------------------
(* The steps of the service preserve ThreadsInv. *)

LEMMA StartStepThreads ==
  ASSUME ServiceInv, ThreadsInv, StartStep
  PROVE  ThreadsInv'
<1> USE DEF ServiceInv, ServiceTypeOK
<1>1. UNCHANGED <<call, rule_db>>
  BY DEF StartStep, BeginManagerStart, EndManagerStart, BeginClientStart, EndClientStart, clientVars
<1>2. \A file : \A p \in Peers :
         /\ Serves(p, [pc |-> "AddPeer", peer |-> p, file |-> file])
         /\ [pc |-> "AddPeer", peer |-> p, file |-> file].pc \notin Applying
  BY DEF Serves, Applying
<1>3. ASSUME NEW p \in Peers, p \in Threads, (\E file : ReceiveIntroduce(p, p, file)) \/ Consume(p)
      PROVE  \A u \in Threads : Handled(u)
  <2>1. (\E file : Become(p, [pc |-> "AddPeer", peer |-> p, file |-> file])) \/ Become(p, Idle)
    BY <1>3 DEF ReceiveIntroduce, Receive, Consume
  <2>2. ASSUME NEW file, Become(p, [pc |-> "AddPeer", peer |-> p, file |-> file])
        PROVE  \A u \in Threads : Handled(u)
    <3> PICK h : h = [pc |-> "AddPeer", peer |-> p, file |-> file]
      OBVIOUS
    <3>1. Serves(p, h) /\ h.pc \notin Applying /\ Become(p, h)
      BY <1>2, <2>2
    <3> QED
      BY <1>3, <3>1, BecomeHandled DEF MasterInv
  <2> QED
    BY <1>3, <2>1, <2>2, RepliedServes, BecomeHandled DEF MasterInv
<1>4. ASSUME NEW m \in Managers, BeginManagerStart(m) \/ EndManagerStart(m)
      PROVE  ThreadsInv'
  <2>1. m \in Peers /\ m \in Threads
    BY PeerThreads DEF Peers
  <2>2. \A u \in Threads : Handled(u)
    BY <1>3, <1>4, <2>1 DEF BeginManagerStart, EndManagerStart
  <2>3. /\ \A n \in Managers \ {m} :
             handler'[n] = handler[n] /\ manager_state'[n] = manager_state[n]
        /\ handler'[m] = Idle \/ manager_state'[m] = "introducing"
    BY <1>4, <2>1, PeerThreads
       DEF BeginManagerStart, EndManagerStart, ReceiveIntroduce, Receive, Consume, Become,
           ManagerTypeOK, MasterInv, MasterTypeOK
  <2>4. \A c \in Clients : handler'[c] = handler[c] /\ client_state'[c] = client_state[c]
    BY <1>4, <2>1, PeerThreads
       DEF BeginManagerStart, EndManagerStart, ReceiveIntroduce, Receive, Consume, Become,
           clientVars, MasterInv, MasterTypeOK, Managers, Clients
  <2>5. PeersIntroduce'
    BY <2>3, <2>4 DEF ThreadsInv, PeersIntroduce
  <2> QED
    BY <1>1, <2>2, <2>4, <2>5, CallsStayPut, ThreadsStep
<1>5. ASSUME NEW c \in Clients, BeginClientStart(c) \/ EndClientStart(c)
      PROVE  ThreadsInv'
  <2>1. c \in Peers /\ c \in Threads /\ c \notin Managers
    BY PeerThreads DEF Peers, Managers, Clients
  <2>2. \A u \in Threads : Handled(u)
    BY <1>3, <1>5, <2>1, HandlersStay DEF BeginClientStart, EndClientStart, masterVars
  <2>3. \A u \in Threads \ {c} : handler'[u] = handler[u]
    BY <1>5, <2>1
       DEF BeginClientStart, EndClientStart, ReceiveIntroduce, Receive, Consume, Become,
           masterVars, MasterInv, MasterTypeOK
  <2>4. UNCHANGED manager_state
    BY <1>5 DEF BeginClientStart, EndClientStart, managerVars
  <2>5. /\ \A d \in Clients \ {c} : client_state'[d] = client_state[d]
        /\ handler'[c] = Idle \/ client_state'[c] = "introducing"
        /\ client_state[c] # "serving"
    <3>1. CASE \E file : ReceiveIntroduce(c, c, file) /\ client_state' = [client_state EXCEPT ![c] = "introducing"]
      BY <1>5, <3>1 DEF BeginClientStart, EndClientStart, ClientTypeOK
    <3>2. CASE Consume(c)
      BY <1>5, <2>1, <3>2
         DEF BeginClientStart, EndClientStart, ClientTypeOK, Consume, Become, MasterInv, MasterTypeOK
    <3>3. CASE BeginClientStart(c) /\ UNCHANGED masterVars
      BY <3>3 DEF BeginClientStart, ClientTypeOK, masterVars, ThreadsInv, PeersIntroduce
    <3> QED
      BY <1>5, <3>1, <3>2, <3>3 DEF BeginClientStart, EndClientStart
  <2>6. PeersIntroduce'
    BY <2>1, <2>3, <2>4, <2>5, PeerThreads DEF ThreadsInv, PeersIntroduce
  <2> QED
    BY <1>1, <2>2, <2>5, <2>6, CallsStayPut, ThreadsStep
<1> QED
  BY <1>4, <1>5 DEF StartStep

LEMMA PeersStayPut ==
  ASSUME ThreadsInv, \A p \in Peers : handler'[p] = handler[p],
         UNCHANGED manager_state,
         \A c \in Clients : client_state'[c] = client_state[c] \/ handler[c] = Idle
  PROVE  PeersIntroduce'
BY DEF ThreadsInv, PeersIntroduce, Peers

(* A step of the handler for a thread that is not a peer's.                *)
LEMMA OthersHandler ==
  ASSUME MasterTypeOK, ThreadsInv, UNCHANGED manager_state,
         \A c \in Clients : client_state'[c] = client_state[c] \/ handler[c] = Idle,
         NEW t \in Calls \cup Operators \cup Viewers, NEW h, Become(t, h)
  PROVE  PeersIntroduce'
<1>1. \A p \in Peers : handler'[p] = handler[p]
  BY ServiceAssumption DEF Peers, MasterTypeOK, Become
<1> QED
  BY <1>1, PeersStayPut

(* A client that a call ends is not inside its Start.                      *)
LEMMA AbortStates ==
  ASSUME ClientTypeOK, ThreadsInv, NEW t \in Calls, InProgress(t), Abort(t.client)
  PROVE  \A c \in Clients : client_state'[c] = client_state[c] \/ handler[c] = Idle
<1>1. handler[t.client] = Idle
  BY CallFields DEF ThreadsInv, PeersIntroduce, CallersServe
<1>2. \A c \in Clients \ {t.client} : client_state'[c] = client_state[c]
  BY DEF Abort, ClientTypeOK
<1> QED
  BY <1>1, <1>2

LEMMA OperateThreads ==
  ASSUME ServiceInv, ThreadsInv, NEW o \in Operators, Operate(o)
  PROVE  ThreadsInv'
<1> PICK h : h = [pc |-> "FindClient", rpc |-> o.rpc, client |-> o.client, rule |-> o.rule]
  OBVIOUS
<1>1. Become(o, h) /\ o \in Threads /\ UNCHANGED <<call, rule_db, manager_state, client_state>>
  BY PeerThreads DEF Operate, ReceiveRule, Receive, managerVars, clientVars
<1>2. Serves(o, h) /\ h.pc \notin Applying
  BY DEF Serves, Applying
<1> QED
  BY <1>1, <1>2, BecomeHandled, OthersHandler, CallsStayPut, ThreadsStep
     DEF ServiceInv, ServiceTypeOK

LEMMA LookThreads ==
  ASSUME ServiceInv, ThreadsInv, NEW v \in Viewers, Look(v)
  PROVE  ThreadsInv'
<1> PICK h : h = [pc |-> "PopulateFiles"]
  OBVIOUS
<1>1. Become(v, h) /\ v \in Threads /\ UNCHANGED <<call, rule_db, manager_state, client_state>>
  BY PeerThreads DEF Look, ReceiveGetView, Receive, managerVars, clientVars
<1>2. Serves(v, h) /\ h.pc \notin Applying
  BY DEF Serves, Applying
<1> QED
  BY <1>1, <1>2, BecomeHandled, OthersHandler, CallsStayPut, ThreadsStep
     DEF ServiceInv, ServiceTypeOK

LEMMA ForwardRuleThreads ==
  ASSUME ServiceInv, ThreadsInv, NEW t \in Threads, ForwardRule(t)
  PROVE  ThreadsInv'
<1> USE DEF ServiceInv, ServiceTypeOK
<1>1. PICK status : Forward(t, status)
  BY DEF ForwardRule
<1>2. t \in Operators /\ Become(t, Replied(status)) /\ UNCHANGED <<manager_state, client_state>>
  BY <1>1 DEF ThreadsInv, Serves, Forward, ForwardRule, ClientRuleHandler, managerVars, clientVars
<1>3. (\A u \in Calls : Went(u)) /\ RulesFiled'
  BY RuleHandlerFiled, CallsStayPut DEF ForwardRule, clientVars
<1> QED
  BY <1>2, <1>3, RepliedServes, BecomeHandled, OthersHandler, ThreadsStep

(* The introduction of a process that dies goes on, and serves nobody.     *)
LEMMA LeaveHandled ==
  ASSUME ServiceInv, ThreadsInv, NEW p \in Peers, NEW s, Kill(p), LeaveIntroduction(p, s)
  PROVE  /\ \A u \in Threads : Handled(u)
         /\ \A q \in Peers \ {p} : handler'[q] = handler[q]
         /\ handler'[p] = IF s = "introducing" THEN Idle ELSE handler[p]
<1> PICK o : o = [killed |-> p, as |-> crashes + 1]
  OBVIOUS
<1>1. crashes + 1 \in 1..MaxCrashes /\ p \in Crashing /\ MasterTypeOK
  BY ServiceAssumption DEF ServiceInv, ServiceTypeOK, Kill
<1>2. o \in Abandoned /\ o \in Threads /\ p \in Threads /\ o.killed = p
  BY <1>1, PeerThreads DEF Abandoned, Peers
<1>3. o \notin Peers /\ o # p
  BY <1>2, ServiceAssumption
<1>4. CASE s # "introducing"
  <2>1. UNCHANGED handler
    BY <1>4 DEF LeaveIntroduction, masterVars
  <2> QED
    BY <1>4, <2>1, HandlersStay
<1>5. CASE s = "introducing" /\ Consume(p)
  <2>1. Become(p, Idle)
    BY <1>5 DEF Consume
  <2>2. \A u \in Threads : handler'[u] = IF u = p THEN Idle ELSE handler[u]
    BY <1>1, <2>1 DEF Become, MasterTypeOK
  <2> QED
    BY <1>1, <1>2, <1>5, <2>1, <2>2, BecomeHandled, RepliedServes, PeerThreads DEF Peers
<1>6. CASE s = "introducing" /\ Abandon(p, o)
  <2> PICK g : g = handler[p]
    OBVIOUS
  <2>1. \A u \in Threads :
           handler'[u] = IF u = p THEN Idle ELSE IF u = o THEN g ELSE handler[u]
    BY <1>1, <1>2, <1>3, <1>6 DEF Abandon, MasterTypeOK
  <2>2. Serves(p, g)
    BY <1>2 DEF ThreadsInv
  <2>3. p \notin Calls \cup Operators \cup Viewers \cup Abandoned
    BY ServiceAssumption
  <2>4. Serves(o, g) /\ g.pc \notin Applying
    BY <1>2, <2>2, <2>3 DEF Serves, Applying
  <2>5. \A u \in Threads : Handled(u)
    BY <1>2, <2>1, <2>4, RepliedServes DEF ThreadsInv, Handled
  <2> QED
    BY <1>2, <1>3, <1>6, <2>1, <2>5, PeerThreads DEF Peers
<1> QED
  BY <1>4, <1>5, <1>6 DEF LeaveIntroduction

(* Everything else stays.                                                  *)
LEMMA LeaveFrame ==
  ASSUME ServiceInv, NEW p \in Peers, NEW s, Kill(p), LeaveIntroduction(p, s)
  PROVE  /\ UNCHANGED <<manager_views, master_up, epoch, forwarded>>
         /\ \A u \in Threads : handler'[u] = handler[u] \/ u = p \/ u \in Abandoned
         /\ \A u \in Abandoned : handler'[u] = handler[u] \/ handler[u] = Idle
<1> PICK o : o = [killed |-> p, as |-> crashes + 1]
  OBVIOUS
<1>1. o \in Abandoned /\ MasterTypeOK
  BY ServiceAssumption DEF ServiceInv, ServiceTypeOK, Kill, Abandoned
<1>2. p \notin Abandoned /\ p \in Threads /\ Abandoned \subseteq Threads
  BY ServiceAssumption
<1>3. CASE UNCHANGED masterVars
  BY <1>3 DEF masterVars, processVars
<1>4. CASE Consume(p)
  BY <1>1, <1>2, <1>4 DEF Consume, Become, MasterTypeOK, processVars
<1>5. CASE Abandon(p, o)
  BY <1>1, <1>2, <1>5 DEF Abandon, MasterTypeOK, processVars
<1> QED
  BY <1>3, <1>4, <1>5 DEF LeaveIntroduction

LEMMA CrashThreads ==
  ASSUME ServiceInv, ThreadsInv,
         (\E m \in Managers : CrashManager(m)) \/ (\E c \in Clients : CrashClient(c))
  PROVE  ThreadsInv'
<1> USE DEF ServiceInv, ServiceTypeOK
<1>1. ASSUME NEW m \in Managers, CrashManager(m)
      PROVE  ThreadsInv'
  <2>1. PICK failed \in SUBSET {t \in Calls : InProgress(t) /\ CalledUris(t) # {}} :
          call' = [t \in Calls |-> IF t \in failed THEN AfterFailure(t) ELSE call[t]]
    BY <1>1 DEF CrashManager
  <2>2. ASSUME NEW t \in failed
        PROVE  Follows(t, AfterFailure(t)) /\ AfterFailure(t).pc # "reporting"
    <3>1. CASE call[t].pc = "last"
      BY <3>1, NotRunningFollows DEF AfterFailure
    <3>2. CASE call[t].pc = "copying"
      <4>1. call[t].idx <= Len(call[t].rule.rule.action) /\ CurrentAction(t).type = "copy_from"
        BY <3>2 DEF ClientInv, CallInv, ThreadsInv, Follows, CurrentAction
      <4> QED
        BY <3>2, <4>1, ExecutedFollows DEF AfterFailure
    <3>3. CASE AtAction(t, {"copy_from", "remove"}) \/ PutAllowed(t)
      <4>1. /\ call[t].pc = "action" /\ call[t].idx <= Len(call[t].rule.rule.action)
            /\ CurrentAction(t).type # "not_set"
        BY <3>3, AtActionFields DEF PutAllowed, AtAction
      <4> QED
        BY <4>1, ExecutedFollows DEF AfterFailure
    <3> QED
      BY <3>1, <3>2, <3>3 DEF CalledUris
  <2>3. UNCHANGED <<rule_db, client_state>>
    BY <1>1 DEF CrashManager
  <2>4. \A t \in Calls : Went(t)
    BY <2>1, <2>2, <2>3 DEF ThreadsInv, Went, CallersServe, InProgress
  <2>5. RulesFiled'
    BY <2>3 DEF ThreadsInv, RulesFiled
  <2>6. /\ \A u \in Threads : Handled(u)
        /\ \A q \in Peers \ {m} : handler'[q] = handler[q]
        /\ handler'[m] = IF manager_state[m] = "introducing" THEN Idle ELSE handler[m]
    BY <1>1, LeaveHandled DEF CrashManager, Peers
  <2>7. PeersIntroduce'
    <3>1. handler'[m] = Idle
      BY <2>6 DEF ThreadsInv, PeersIntroduce
    <3>2. \A n \in Managers \ {m} : manager_state'[n] = manager_state[n]
      BY <1>1 DEF CrashManager, ManagerCrash, ManagerTypeOK
    <3>3. m \notin Clients
      BY DEF Managers, Clients
    <3> QED
      BY <2>3, <2>6, <3>1, <3>2, <3>3 DEF ThreadsInv, PeersIntroduce, Peers
  <2> QED
    BY <2>4, <2>5, <2>6, <2>7, ThreadsStep
<1>2. ASSUME NEW c \in Clients, CrashClient(c)
      PROVE  ThreadsInv'
  <2>1. /\ \A u \in Threads : Handled(u)
        /\ \A q \in Peers \ {c} : handler'[q] = handler[q]
        /\ handler'[c] = IF client_state[c] = "introducing" THEN Idle ELSE handler[c]
    BY <1>2, LeaveHandled DEF CrashClient, Peers
  <2>2. (\A t \in Calls : Went(t)) /\ RulesFiled' /\ UNCHANGED manager_state
    BY <1>2, AbortWent, AbortWork DEF CrashClient
  <2>3. PeersIntroduce'
    <3>1. handler'[c] = Idle
      BY <2>1 DEF ThreadsInv, PeersIntroduce
    <3>2. \A d \in Clients \ {c} : client_state'[d] = client_state[d]
      BY <1>2 DEF CrashClient, Abort, ClientTypeOK
    <3>3. c \notin Managers
      BY DEF Managers, Clients
    <3> QED
      BY <2>1, <2>2, <3>1, <3>2, <3>3 DEF ThreadsInv, PeersIntroduce, Peers
  <2> QED
    BY <2>1, <2>2, <2>3, ThreadsStep
<1> QED
  BY <1>1, <1>2

LEMMA MasterStepThreads ==
  ASSUME ServiceInv, ThreadsInv, UNCHANGED <<managerVars, clientVars>>,
         \/ \E t \in Threads : HandlerStep(t)
         \/ Terminate \/ MasterStart
  PROVE  ThreadsInv'
<1>1. UNCHANGED <<call, rule_db, manager_state, client_state>>
  BY DEF managerVars, clientVars
<1>2. CASE Terminate
  BY <1>1, <1>2, TerminateHandled, CallsStayPut, ThreadsStep
<1>3. CASE MasterStart
  <2>1. UNCHANGED handler
    BY <1>3 DEF MasterStart
  <2> QED
    BY <1>1, <2>1, HandlersStay, PeersStayPut, CallsStayPut, ThreadsStep
<1>4. ASSUME NEW t \in Threads, HandlerStep(t), ~Terminate
      PROVE  ThreadsInv'
  <2>1. Serves(t, handler[t]) /\ MasterInv /\ MasterTypeOK
    BY DEF ThreadsInv, ServiceInv, MasterInv
  <2>2. PICK h : Advances(t, handler[t], h) /\ Become(t, h)
    BY <1>4, <2>1, HandlerAdvances
  <2>3. \A u \in Threads : Handled(u)
    BY <2>1, <2>2, BecomeHandled DEF Advances
  <2>4. PeersIntroduce'
    <3>1. \A u \in Threads : u # t => handler'[u] = handler[u]
      BY <2>1, <2>2 DEF MasterTypeOK, Become
    <3> QED
      BY <1>1, <2>2, <3>1, PeerThreads DEF Advances, ThreadsInv, PeersIntroduce
  <2> QED
    BY <1>1, <2>3, <2>4, CallsStayPut, ThreadsStep
<1> QED
  BY <1>2, <1>3, <1>4

(* A report consists of actions of the call's rule.                        *)
LEMMA ReportMadeOf ==
  ASSUME ServiceInv, ThreadsInv, NEW t \in Calls, call[t].pc \in {"action", "copying", "reporting"}
  PROVE  /\ MadeOf(call[t].change, call[t].rule.rule.action)
         /\ \E k \in 0..Len(call[t].rule.rule.action) :
              call[t].change \in Selections(call[t].rule.rule.action, k)
<1> PICK s : s = call[t]
  OBVIOUS
<1>1. s.idx \in Nat /\ s.idx >= 1 /\ s.rule.rule.action \in Seq(Actions)
  BY RunningFields DEF ServiceInv, ServiceTypeOK
<1>2. /\ s.idx <= Len(s.rule.rule.action) + 1
      /\ s.change \in Selections(s.rule.rule.action, s.idx - 1)
  BY DEF ThreadsInv, Follows
<1> PICK k : k = s.idx - 1
  OBVIOUS
<1>3. Len(s.rule.rule.action) \in Nat
  BY <1>1
<1>4. k \in 0..Len(s.rule.rule.action) /\ s.change \in Selections(s.rule.rule.action, k)
  BY <1>1, <1>2, <1>3
<1>5. MadeOf(s.change, s.rule.rule.action)
  BY <1>1, <1>4, SelectionActions DEF MadeOf
<1> QED
  BY <1>4, <1>5

LEMMA ReportThreads ==
  ASSUME ServiceInv, ThreadsInv, NEW t \in Calls,
         ReceiveStorageChange(t, call[t].change), Goto(t, [call[t] EXCEPT !.pc = "reporting"]),
         call[t].pc = "action", call[t].idx > Limit(t), UNCHANGED managerVars
  PROVE  ThreadsInv'
<1> USE DEF ServiceInv, ServiceTypeOK
<1> PICK s : s = [call[t] EXCEPT !.pc = "reporting"]
  OBVIOUS
<1> PICK h : h = ChangeHandler(call[t].change)
  OBVIOUS
<1>1. /\ call[t].rule.rule \in Rules
      /\ call[t].idx \in Nat /\ call[t].rule.rule.action \in Seq(Actions)
      /\ call[t] = [pc |-> call[t].pc, rule |-> call[t].rule, idx |-> call[t].idx,
                    change |-> call[t].change]
  BY RunningFields
<1>2. MadeOf(call[t].change, call[t].rule.rule.action)
  BY ReportMadeOf
<1>3. /\ s.pc = "reporting" /\ s.rule = call[t].rule /\ s.idx = call[t].idx
      /\ s.change = call[t].change
  BY <1>1
<1>4. h.pc = "StorageChange" /\ h.change = call[t].change /\ Serves(t, h)
  BY <1>1, <1>2 DEF ChangeHandler, Serves
<1>5. Follows(t, s)
  <2>1. Follows(t, call[t])
    BY DEF ThreadsInv
  <2>2. Len(call[t].rule.rule.action) \in Nat
    BY <1>1
  <2>3. /\ call[t].idx >= Len(call[t].rule.rule.action)
        /\ t.op = "PUT" => call[t].idx > Len(call[t].rule.rule.action)
    BY <1>1, <2>2 DEF Limit
  <2> QED
    BY <1>3, <2>1, <2>3 DEF Follows, HasARule
<1>6. /\ \A u \in Threads : handler'[u] = IF u = t THEN h ELSE handler[u]
      /\ \A u \in Calls : call'[u] = IF u = t THEN s ELSE call[u]
      /\ UNCHANGED rule_db
  BY CallFields DEF MasterInv, MasterTypeOK, ClientTypeOK, ReceiveStorageChange, Receive, Become, Goto
<1>7. (\A u \in Threads : Serves(u, handler[u]))' /\ (\A u \in Calls : Follows(u, call[u]))'
  <2>1. \A u \in Threads : Serves(u, handler'[u])
    BY <1>4, <1>6 DEF ThreadsInv
  <2>2. \A u \in Calls : Follows(u, call'[u])
    BY <1>5, <1>6 DEF ThreadsInv
  <2> QED
    BY <2>1, <2>2 DEF Serves, MadeOf, Follows, HasARule
<1>8. PeersIntroduce' /\ CallersServe'
  <2>1. UNCHANGED <<manager_state, client_state>>
    BY DEF managerVars, Goto
  <2>2. PeersIntroduce'
    BY <2>1, CallFields, OthersHandler DEF ReceiveStorageChange, Receive, MasterInv
  <2>3. CallersServe'
    BY <1>6, <2>1 DEF ThreadsInv, CallersServe, InProgress
  <2> QED
    BY <2>2, <2>3
<1>9. RulesFiled'
  BY <1>6 DEF ThreadsInv, RulesFiled
<1>10. ASSUME NEW u \in Calls, call'[u].pc = "reporting", handler'[u].pc \in Applying
       PROVE  MadeOf(handler'[u].change, call'[u].rule.rule.action)
  <2>1. CASE u = t
    BY <1>2, <1>3, <1>4, <1>6, <2>1, CallFields
  <2>2. CASE u # t
    BY <1>6, <1>10, <2>2, CallFields DEF ThreadsInv, Applying
  <2> QED
    BY <2>1, <2>2
<1> QED
  BY <1>7, <1>8, <1>9, <1>10 DEF ThreadsInv, MadeOf, Applying

(* Steps of a call that leave its handler at the master alone.             *)
LEMMA GotoThreads ==
  ASSUME ServiceInv, ThreadsInv, NEW t \in Calls, NEW s, Goto(t, s), Follows(t, s),
         s.pc # "reporting", UNCHANGED <<handler, manager_state>>,
         InProgress(t) \/ client_state[t.client] = "serving"
  PROVE  ThreadsInv'
<1>1. client_state[t.client] = "serving" /\ UNCHANGED client_state
  BY DEF ThreadsInv, CallersServe, Goto
<1> QED
  BY <1>1, GotoWent, HandlersStay, PeersStayPut, ThreadsStep DEF ServiceInv, ServiceTypeOK

LEMMA AbortThreads ==
  ASSUME ServiceInv, ThreadsInv, NEW t \in Calls, InProgress(t), Abort(t.client), UNCHANGED handler
  PROVE  ThreadsInv'
<1>1. UNCHANGED manager_state
  BY AbortWork
<1> QED
  BY <1>1, CallFields, AbortWent, AbortStates, HandlersStay, PeersStayPut, ThreadsStep
     DEF ServiceInv, ServiceTypeOK

LEMMA PrologueThreads ==
  ASSUME ServiceInv, ThreadsInv, NEW t \in Calls,
         MakeCall(t) \/ HasMatchingRule(t) \/ GetMatchingRule(t)
  PROVE  ThreadsInv'
<1>1. /\ UNCHANGED <<handler, manager_state>>
      /\ InProgress(t) \/ client_state[t.client] = "serving"
  BY AbortWork
     DEF MakeCall, HasMatchingRule, GetMatchingRule, InProgress, masterVars, managerVars
<1>2. \A pc \in {"has_rule", "get_rule"} : Goto(t, [pc |-> pc]) => ThreadsInv'
  <2> TAKE pc \in {"has_rule", "get_rule"}
  <2> PICK s : s = [pc |-> pc]
    OBVIOUS
  <2>1. Follows(t, s) /\ s.pc # "reporting"
    BY NotRunningFollows
  <2> QED
    BY <1>1, <2>1, GotoThreads
<1>3. Goto(t, Return("UNKNOWN", "")) => ThreadsInv'
  BY <1>1, NotRunningFollows, GotoThreads
<1>4. InProgress(t) /\ Abort(t.client) => ThreadsInv'
  BY <1>1, AbortThreads
<1>5. ASSUME HasRule(t),
             Goto(t, [pc |-> "action", rule |-> rule_db[t.client][<<t.op, t.key>>], idx |-> 1,
                      change |-> <<>>])
      PROVE  ThreadsInv'
  <2> PICK s : s = [pc |-> "action", rule |-> rule_db[t.client][<<t.op, t.key>>], idx |-> 1,
                    change |-> <<>>]
    OBVIOUS
  <2>1. rule_db[t.client][<<t.op, t.key>>] \in FilledRules
    BY <1>5, CallFields DEF ServiceInv, ServiceTypeOK, ClientTypeOK, HasRule
  <2>2. Follows(t, s) /\ s.pc = "action"
    BY <1>5, <2>1, StartedFollows
  <2> QED
    BY <1>1, <1>5, <2>2, GotoThreads
<1> QED
  BY <1>2, <1>3, <1>4, <1>5 DEF MakeCall, HasMatchingRule, GetMatchingRule, InProgress

LEMMA ExecuteThreads ==
  ASSUME ServiceInv, ThreadsInv, NEW t \in Calls,
         \/ ExecuteCopyAction(t) \/ FinishWrite(t) \/ ExecuteRemoveAction(t)
         \/ ExecutePutAction(t) \/ SkipAction(t) \/ BelatedWork(t)
  PROVE  ThreadsInv'
<1> USE DEF ServiceInv, ServiceTypeOK
<1>1. UNCHANGED <<handler, manager_state>>
  BY DEF ExecuteCopyAction, FinishWrite, ExecuteRemoveAction, ExecutePutAction, SkipAction,
         BelatedWork, BeginFetch, BeginCopyFrom, EndWrite, EndRemove, masterVars, managerVars
<1>2. CASE ExecuteCopyAction(t)
  <2> PICK s : s = [call[t] EXCEPT !.pc = "copying"]
    OBVIOUS
  <2>1. /\ call[t].pc = "action" /\ call[t].rule.rule.action[call[t].idx].type = "copy_from"
        /\ Goto(t, s)
    BY <1>2 DEF ExecuteCopyAction, AtAction, CurrentAction
  <2>2. /\ s.pc = "copying" /\ s.rule = call[t].rule /\ s.idx = call[t].idx
        /\ s.change = call[t].change
    BY <2>1, RunningFields
  <2>3. Follows(t, s)
    BY <2>1, <2>2 DEF ThreadsInv, Follows, HasARule
  <2> QED
    BY <1>1, <2>1, <2>2, <2>3, GotoThreads DEF InProgress
<1>3. ASSUME call[t].pc \in {"action", "copying"}, call[t].idx <= Len(call[t].rule.rule.action),
             CurrentAction(t).type # "not_set", Goto(t, Executed(t))
      PROVE  ThreadsInv'
  <2> PICK s : s = Executed(t)
    OBVIOUS
  <2>1. Follows(t, s) /\ s.pc # "reporting"
    BY <1>3, ExecutedFollows
  <2> QED
    BY <1>1, <1>3, <2>1, GotoThreads DEF InProgress
<1>4. CASE FinishWrite(t)
  <2>1. CASE call[t].pc = "copying" /\ Goto(t, Executed(t))
    <3>1. call[t].idx <= Len(call[t].rule.rule.action) /\ CurrentAction(t).type = "copy_from"
      BY <2>1 DEF ClientInv, CallInv, ThreadsInv, Follows, CurrentAction
    <3> QED
      BY <1>3, <2>1, <3>1
  <2>2. CASE UNCHANGED clientVars
    BY <1>1, <2>2, HandlersStay, PeersStayPut, CallsStayPut, ThreadsStep DEF clientVars
  <2> QED
    BY <1>4, <2>1, <2>2 DEF FinishWrite
<1>5. CASE ExecuteRemoveAction(t) \/ ExecutePutAction(t)
  <2>1. /\ call[t].pc = "action" /\ call[t].idx <= Len(call[t].rule.rule.action)
        /\ CurrentAction(t).type # "not_set" /\ Goto(t, Executed(t))
    BY <1>5, AtActionFields DEF ExecuteRemoveAction, ExecutePutAction, PutAllowed, AtAction
  <2> QED
    BY <1>3, <2>1
<1>6. CASE SkipAction(t)
  <2> PICK s : s = NextAction(t)
    OBVIOUS
  <2>1. Follows(t, s) /\ s.pc # "reporting" /\ Goto(t, s) /\ InProgress(t)
    BY <1>6, SkippedFollows DEF SkipAction, AtAction, InProgress
  <2> QED
    BY <1>1, <2>1, GotoThreads
<1>7. CASE BelatedWork(t)
  <2>1. UNCHANGED <<call, rule_db, client_state>>
    BY <1>7 DEF BelatedWork, clientVars
  <2> QED
    BY <1>1, <2>1, HandlersStay, PeersStayPut, CallsStayPut, ThreadsStep
<1> QED
  BY <1>2, <1>4, <1>5, <1>6, <1>7

LEMMA ReportedThreads ==
  ASSUME ServiceInv, ThreadsInv, NEW t \in Calls, Reported(t)
  PROVE  ThreadsInv'
<1> USE DEF ServiceInv, ServiceTypeOK
<1>1. /\ Become(t, Idle) /\ UNCHANGED manager_state /\ InProgress(t)
      /\ client_state[t.client] = "serving"
      /\ Abort(t.client) \/ UNCHANGED client_state
  BY AbortWork DEF Reported, Consume, managerVars, InProgress, Goto, ThreadsInv, CallersServe
<1>2. (\A u \in Calls : Went(u)) /\ RulesFiled'
  <2>1. CASE Abort(t.client)
    BY <2>1, CallFields, AbortWent
  <2>2. CASE Goto(t, Return("OK", ""))
    BY <1>1, <2>2, NotRunningFollows, GotoWent
  <2>3. CASE t.op = "GET" /\ LastIsGet(t) /\ Goto(t, [pc |-> "last", rule |-> call[t].rule])
    <3> PICK s : s = [pc |-> "last", rule |-> call[t].rule]
      OBVIOUS
    <3>1. Follows(t, call[t]) /\ call[t].pc = "reporting"
      BY DEF ThreadsInv, Reported
    <3>2. Follows(t, s)
      BY <2>3, <3>1 DEF Follows, HasARule
    <3> QED
      BY <1>1, <2>3, <3>2, GotoWent
  <2> QED
    BY <2>1, <2>2, <2>3 DEF Reported
<1>3. (\A u \in Threads : Handled(u)) /\ PeersIntroduce'
  BY <1>1, CallFields, RepliedServes, BecomeHandled, OthersHandler, AbortStates DEF MasterInv
<1> QED
  BY <1>2, <1>3, ThreadsStep

LEMMA CallStepThreads ==
  ASSUME ServiceInv, ThreadsInv, NEW t \in Calls, BeginCall(t) \/ CallStep(t)
  PROVE  ThreadsInv'
<1>1. CASE RejectAction(t)
  BY <1>1, AbortThreads DEF RejectAction, AtAction, InProgress, masterVars
<1>2. CASE Report(t)
  BY <1>2, ReportThreads, AbortThreads DEF Report, InProgress, masterVars
<1>3. CASE ExecuteGetAction(t)
  BY <1>3, NotRunningFollows, GotoThreads DEF ExecuteGetAction, InProgress, masterVars, managerVars
<1> QED
  BY <1>1, <1>2, <1>3, PrologueThreads, ExecuteThreads, ReportedThreads DEF BeginCall, CallStep

LEMMA ThreadsInit == ServiceInit => ThreadsInv
<1> SUFFICES ASSUME ServiceInit PROVE ThreadsInv
  OBVIOUS
<1>1. \A t \in Threads : handler[t] = Idle
  BY DEF ServiceInit, MasterInit
<1>2. \A t \in Calls : call[t] = NotMade
  BY DEF ServiceInit, ClientInit
<1>3. \A c \in Clients : DOMAIN rule_db[c] = {}
  BY DEF ServiceInit, ClientInit, EmptyMap
<1> QED
  BY <1>1, <1>2, <1>3, RepliedServes, NotRunningFollows, PeerThreads
     DEF ThreadsInv, PeersIntroduce, CallersServe, InProgress, NotMade, RulesFiled

LEMMA ThreadsNext == ServiceInv /\ ThreadsInv /\ [ServiceNext]_serviceVars => ThreadsInv'
<1> SUFFICES ASSUME ServiceInv, ThreadsInv, [ServiceNext]_serviceVars PROVE ThreadsInv'
  OBVIOUS
<1>1. CASE UNCHANGED serviceVars
  <2>1. UNCHANGED <<handler, manager_state, client_state, call, rule_db>>
    BY <1>1 DEF serviceVars, masterVars, managerVars, clientVars
  <2> QED
    BY <2>1, HandlersStay, PeersStayPut, CallsStayPut, ThreadsStep
<1>2. CASE (\E m \in Managers : CrashManager(m)) \/ (\E c \in Clients : CrashClient(c))
  BY <1>2, CrashThreads
<1>3. CASE \E t \in Threads : MasterStep(t) \/ ForwardRule(t)
  BY <1>3, MasterStepThreads, ForwardRuleThreads DEF MasterStep
<1>4. CASE (Terminate \/ MasterStart) /\ UNCHANGED <<managerVars, clientVars, crashes>>
  BY <1>4, MasterStepThreads
<1> QED
  BY <1>1, <1>2, <1>3, <1>4, StartStepThreads, OperateThreads, LookThreads, CallStepThreads
     DEF ServiceNext

(* ThreadsInv holds of every behaviour of the service.  The master serves  *)
(* the thread of a manager or client only while that process is inside its *)
(* Start, and an operator's or viewer's only with what that asked for; the *)
(* handlers that killed processes leave behind are introductions of        *)
(* processes that may be killed.  A call is in progress only while its     *)
(* client serves; its thread at the master applies nothing but actions of  *)
(* one rule, also when the client is gone, and those of the call's rule    *)
(* while the call waits (storage_master.cc, storage_manager.cc: Start,     *)
(* storage_client.cc: Start, Get and Put).                                 *)
THEOREM ThreadsInvariant == ServiceSpec => [](ServiceInv /\ ThreadsInv)
<1>1. ServiceInit => ServiceInv /\ ThreadsInv
  BY ServiceInitInv, ThreadsInit
<1>2. (ServiceInv /\ ThreadsInv) /\ [ServiceNext]_serviceVars => (ServiceInv /\ ThreadsInv)'
  BY ServiceNextInv, ThreadsNext
<1> QED
  BY <1>1, <1>2, PTL DEF ServiceSpec

-----------------------------------------------------------------------------
(* The service implements the master with every legal caller. *)

LEMMA AnsweredNow ==
  ASSUME IsFiniteSet(forwarded), NEW t \in Operators, NEW f, ~Answered(t), Answered(t)',
         forwarded' = forwarded \cup {f},
         Cardinality(forwarded) <= Cardinality({o \in Operators : Answered(o)}),
         \A o \in Operators : Answered(o) => Answered(o)'
  PROVE  ForwardsInv'
<1> DEFINE before == {o \in Operators : Answered(o)}
           now == {o \in Operators : Answered(o)'}
<1>1. IsFiniteSet(Operators)
  BY ServiceAssumption
<1>2. IsFiniteSet(before) /\ IsFiniteSet(now)
  BY <1>1, FS_Subset
<1>3. /\ Cardinality(before \cup {t}) = Cardinality(before) + 1
      /\ Cardinality(before) \in Nat
  BY <1>2, FS_AddElement, FS_CardinalityType
<1>4. Cardinality(before \cup {t}) <= Cardinality(now)
  <2>1. before \cup {t} \subseteq now
    OBVIOUS
  <2> QED
    BY <1>2, <2>1, FS_Subset
<1>5. /\ IsFiniteSet(forwarded')
      /\ Cardinality(forwarded') = Cardinality(forwarded)
           \/ Cardinality(forwarded') = Cardinality(forwarded) + 1
  BY FS_AddElement
<1>6. Cardinality(forwarded) \in Nat /\ Cardinality(now) \in Nat
  BY <1>2, FS_CardinalityType
<1>7. Cardinality(forwarded) <= Cardinality(before)
  OBVIOUS
<1> HIDE DEF before, now
<1>8. Cardinality(forwarded') <= Cardinality(now)
  BY <1>3, <1>4, <1>5, <1>6, <1>7
<1> QED
  BY <1>5, <1>8 DEF ForwardsInv, now

LEMMA AnsweredAsBefore ==
  ASSUME ForwardsInv, UNCHANGED forwarded, \A o \in Operators : Answered(o) => Answered(o)'
  PROVE  ForwardsInv'
<1> DEFINE before == {o \in Operators : Answered(o)}
           now == {o \in Operators : Answered(o)'}
<1>1. before \subseteq now /\ IsFiniteSet(now)
  BY ServiceAssumption, FS_Subset
<1>2. Cardinality(before) <= Cardinality(now) /\ IsFiniteSet(before)
  BY <1>1, FS_Subset
<1>3. Cardinality(before) \in Nat /\ Cardinality(now) \in Nat /\ Cardinality(forwarded) \in Nat
  BY <1>1, <1>2, FS_CardinalityType DEF ForwardsInv
<1>4. Cardinality(forwarded) <= Cardinality(before) /\ IsFiniteSet(forwarded')
  BY DEF ForwardsInv
<1> HIDE DEF before, now
<1>5. Cardinality(forwarded') <= Cardinality(now)
  BY <1>2, <1>3, <1>4
<1> QED
  BY <1>4, <1>5 DEF ForwardsInv, now

(* A step of one handler leaves the operators' answers alone.              *)
LEMMA BecomeAnswered ==
  ASSUME MasterTypeOK, NEW t \in Threads, NEW h, Become(t, h), t \notin Operators \/ ~Answered(t)
  PROVE  \A o \in Operators : Answered(o) => Answered(o)'
<1>1. \A u \in Threads : u # t => handler'[u] = handler[u]
  BY DEF MasterTypeOK, Become
<1> QED
  BY <1>1, PeerThreads DEF Answered

LEMMA TerminateAnswered ==
  ASSUME Terminate
  PROVE  \A o \in Operators : Answered(o) => Answered(o)'
BY PeerThreads DEF Terminate, Answered

LEMMA HandlerStepAnswered ==
  ASSUME MasterInv, ThreadsInv, NEW t \in Threads, HandlerStep(t)
  PROVE  \A o \in Operators : Answered(o) => Answered(o)'
<1>1. ~Answered(t)
  BY DEF HandlerStep, LockTracker, AddPeer, AddManager, AddFile, FinishIntroduce, ApplyChange,
         RemoveFromDst, FinishStorageChange, FindClient, FillInRule, PopulateFiles, PopulateUris,
         Answered
<1>2. Terminate \/ \E h : Become(t, h)
  BY HandlerAdvances DEF ThreadsInv
<1> QED
  BY <1>1, <1>2, TerminateAnswered, BecomeAnswered DEF MasterInv

LEMMA PeersAndCalls ==
  Managers \cap Operators = {} /\ Clients \cap Operators = {} /\ Calls \cap Operators = {}
BY ServiceAssumption DEF Peers

LEMMA CallStepMaster ==
  ASSUME NEW t \in Calls, BeginCall(t) \/ CallStep(t)
  PROVE  \/ UNCHANGED masterVars
         \/ Report(t) /\ ReceiveStorageChange(t, call[t].change)
         \/ Reported(t) /\ Consume(t)
BY DEF BeginCall, CallStep, MakeCall, HasMatchingRule, GetMatchingRule, ExecuteCopyAction,
       FinishWrite, BelatedWork, ExecuteRemoveAction, ExecutePutAction, SkipAction, RejectAction,
       Report, Reported, ExecuteGetAction

LEMMA StartStepMaster ==
  ASSUME ManagerTypeOK, StartStep
  PROVE  \/ UNCHANGED masterVars
         \/ \E m \in Managers : \E file \in SUBSET Keys : ReceiveIntroduce(m, m, file)
         \/ \E c \in Clients : ReceiveIntroduce(c, c, {})
         \/ \E p \in Managers \cup Clients : Consume(p)
<1>1. \A m \in Managers : DOMAIN store[m] \in SUBSET Keys
  BY FilesAreMaps DEF ManagerTypeOK
<1> QED
  BY <1>1 DEF StartStep, BeginManagerStart, EndManagerStart, BeginClientStart, EndClientStart

(* A process that dies leaves its introduction to the master at most.      *)
LEMMA CrashMaster ==
  ASSUME ServiceInv,
         (\E m \in Managers : CrashManager(m)) \/ (\E c \in Clients : CrashClient(c))
  PROVE  \/ UNCHANGED masterVars
         \/ \E p \in Managers \cup Clients : Consume(p)
         \/ \E p \in Managers \cup Clients : \E o \in Abandoned : Abandon(p, o)
<1>1. ASSUME NEW p \in Managers \cup Clients, NEW s, Kill(p), LeaveIntroduction(p, s)
      PROVE  \/ UNCHANGED masterVars
             \/ \E q \in Managers \cup Clients : Consume(q)
             \/ \E q \in Managers \cup Clients : \E o \in Abandoned : Abandon(q, o)
  <2> PICK o : o = [killed |-> p, as |-> crashes + 1]
    OBVIOUS
  <2>1. o \in Abandoned
    BY <1>1, ServiceAssumption DEF ServiceInv, ServiceTypeOK, Kill, Abandoned
  <2> QED
    BY <1>1, <2>1 DEF LeaveIntroduction
<1> QED
  BY <1>1 DEF CrashManager, CrashClient

LEMMA ForwardsNext ==
  ServiceInv /\ ThreadsInv /\ ForwardsInv /\ [ServiceNext]_serviceVars => ForwardsInv'
<1> SUFFICES ASSUME ServiceInv, ThreadsInv, ForwardsInv, [ServiceNext]_serviceVars
             PROVE  ForwardsInv'
  OBVIOUS
<1>1. MasterInv /\ MasterTypeOK /\ ManagerTypeOK
  BY DEF ServiceInv, ServiceTypeOK, MasterInv
<1>2. CASE UNCHANGED masterVars
  BY <1>2, AnsweredAsBefore DEF masterVars, Answered
<1>3. ASSUME NEW t \in Threads, t \notin Operators,
             (\E s : Receive(t, s)) \/ Consume(t)
      PROVE  ForwardsInv'
  <2>1. UNCHANGED forwarded /\ \E h : Become(t, h)
    BY <1>3 DEF Receive, Consume
  <2> QED
    BY <1>1, <1>3, <2>1, BecomeAnswered, AnsweredAsBefore
<1>4. CASE StartStep
  BY <1>1, <1>2, <1>3, <1>4, StartStepMaster, PeerThreads, PeersAndCalls DEF ReceiveIntroduce
<1>5. CASE \E t \in Calls : BeginCall(t) \/ CallStep(t)
  BY <1>2, <1>3, <1>5, CallStepMaster, PeerThreads, PeersAndCalls DEF ReceiveStorageChange
<1>6. ASSUME NEW o \in Operators, Operate(o)
      PROVE  ForwardsInv'
  <2>1. /\ UNCHANGED forwarded /\ ~Answered(o) /\ o \in Threads
        /\ \E h : Become(o, h)
    BY <1>6, PeerThreads DEF Operate, ReceiveRule, Receive, Answered, Idle
  <2> QED
    BY <1>1, <2>1, BecomeAnswered, AnsweredAsBefore
<1>7. ASSUME NEW t \in Threads, HandlerStep(t)
      PROVE  ForwardsInv'
  BY <1>1, <1>7, SentBySteps, HandlerStepAnswered, AnsweredAsBefore
<1>8. ASSUME NEW t \in Threads, ForwardRule(t)
      PROVE  ForwardsInv'
  <2>1. PICK status : Forward(t, status)
    BY <1>8 DEF ForwardRule
  <2>2. t \in Operators /\ ~Answered(t)
    BY <2>1 DEF Forward, ThreadsInv, Serves, Answered
  <2>3. Answered(t)' /\ \A o \in Operators : Answered(o) => Answered(o)'
    <3>1. Become(t, Replied(status))
      BY <2>1 DEF Forward
    <3>2. handler'[t] = Replied(status)
      BY <1>1, <3>1 DEF MasterTypeOK, Become
    <3> QED
      BY <1>1, <2>2, <3>1, <3>2, BecomeAnswered DEF Answered, Replied
  <2>4. \E f : forwarded' = forwarded \cup {f}
    BY <2>1 DEF Forward
  <2> QED
    BY <2>2, <2>3, <2>4, AnsweredNow DEF ForwardsInv
<1>9. CASE Terminate \/ MasterStart
  <2>1. UNCHANGED forwarded /\ \A o \in Operators : Answered(o) => Answered(o)'
    BY <1>9, TerminateAnswered DEF Terminate, MasterStart, Answered
  <2> QED
    BY <2>1, AnsweredAsBefore
<1>10. ASSUME NEW p \in Managers \cup Clients, NEW o \in Abandoned, Abandon(p, o)
       PROVE  ForwardsInv'
  <2>1. p \notin Operators /\ o \notin Operators
    BY ServiceAssumption DEF Peers
  <2>2. UNCHANGED forwarded /\ \A u \in Operators : handler'[u] = handler[u]
    BY <1>1, <1>10, <2>1, PeerThreads DEF Abandon, MasterTypeOK
  <2> QED
    BY <2>2, AnsweredAsBefore DEF Answered
<1>11. CASE (\E m \in Managers : CrashManager(m)) \/ (\E c \in Clients : CrashClient(c))
  BY <1>2, <1>3, <1>10, <1>11, CrashMaster, PeerThreads, PeersAndCalls
<1>12. ASSUME NEW v \in Viewers, Look(v)
       PROVE  ForwardsInv'
  <2>1. v \in Threads /\ v \notin Operators /\ \E s : Receive(v, s)
    BY <1>12, ServiceAssumption, PeerThreads DEF Look, ReceiveGetView
  <2> QED
    BY <1>3, <2>1
<1> QED
  BY <1>2, <1>4, <1>5, <1>6, <1>7, <1>8, <1>9, <1>11, <1>12 DEF ServiceNext, serviceVars, MasterStep

LEMMA ForwardsInit == ServiceInit => ForwardsInv
<1> SUFFICES ASSUME ServiceInit PROVE ForwardsInv
  OBVIOUS
<1>1. forwarded = {}
  BY DEF ServiceInit, MasterInit
<1>2. IsFiniteSet({o \in Operators : Answered(o)})
  BY ServiceAssumption, FS_Subset
<1>3. Cardinality({o \in Operators : Answered(o)}) \in Nat
  BY <1>2, FS_CardinalityType
<1> QED
  BY <1>1, <1>3, FS_EmptySet DEF ForwardsInv

(* MasterSpec's environment has room for one more request of an operator.  *)
LEMMA RoomToForward ==
  ASSUME ForwardsInv, NEW o \in Operators, handler[o] = Idle
  PROVE  Cardinality(forwarded) < MaxForwards
<1> DEFINE answered == {u \in Operators : Answered(u)}
<1>1. answered \subseteq Operators \ {o}
  BY DEF Answered, Idle
<1>2. /\ IsFiniteSet(Operators \ {o})
      /\ Cardinality(Operators \ {o}) = Cardinality(Operators) - 1
  BY ServiceAssumption, FS_RemoveElement
<1>3. Cardinality(answered) <= Cardinality(Operators \ {o}) /\ IsFiniteSet(answered)
  BY <1>1, <1>2, FS_Subset
<1>4. /\ Cardinality(answered) \in Nat /\ Cardinality(forwarded) \in Nat
      /\ Cardinality(Operators) \in Nat
  BY <1>3, ServiceAssumption, FS_CardinalityType DEF ForwardsInv
<1>5. Cardinality(forwarded) <= Cardinality(answered) /\ Cardinality(Operators) <= MaxForwards
  BY ServiceAssumption DEF ForwardsInv
<1> HIDE DEF answered
<1> QED
  BY <1>2, <1>3, <1>4, <1>5, MasterAssumption

(* Every step of the service is a step of MasterSpec, or leaves the master *)
(* alone.                                                                  *)
LEMMA ServiceStepsMaster ==
  ServiceInv /\ ThreadsInv /\ ForwardsInv /\ [ServiceNext]_serviceVars => [MasterNext]_masterVars
<1> SUFFICES ASSUME ServiceInv, ThreadsInv, ForwardsInv, [ServiceNext]_serviceVars
             PROVE  [MasterNext]_masterVars
  OBVIOUS
<1>1. \A t \in Threads :
         MasterRequest(t) \/ Consume(t) \/ (\E o \in Threads : Abandon(t, o)) => MasterNext
  BY DEF MasterNext
<1>2. CASE StartStep
  <2>1. ASSUME NEW p \in Managers \cup Clients, NEW file \in SUBSET Keys, p \in Managers \/ file = {},
               ReceiveIntroduce(p, p, file)
        PROVE  MasterNext
    <3>1. p \in Introducers /\ p \in Threads
      BY PeerThreads DEF Managers, Clients
    <3> QED
      BY <1>1, <2>1, <3>1 DEF MasterRequest, ReceiveIntroduce, Receive
  <2> QED
    BY <1>1, <1>2, <2>1, PeerThreads, StartStepMaster DEF ServiceInv, ServiceTypeOK
<1>3. ASSUME NEW o \in Operators, Operate(o)
      PROVE  MasterNext
  <2>1. handler[o] = Idle /\ ReceiveRule(o, o.rpc, o.client, o.rule)
    BY <1>3 DEF Operate, ReceiveRule, Receive
  <2>2. o.rpc \in RuleRpcs /\ o.client \in Addressees /\ o.rule \in Rules /\ o \in Threads
    BY ServiceAssumption, PeerThreads
  <2> QED
    BY <1>1, <2>1, <2>2, RoomToForward DEF MasterRequest
<1>4. ASSUME NEW t \in Calls, BeginCall(t) \/ CallStep(t)
      PROVE  [MasterNext]_masterVars
  <2>1. CASE Report(t) /\ ReceiveStorageChange(t, call[t].change)
    <3>1. call[t].pc = "action"
      BY <2>1 DEF Report
    <3>2. PICK f \in forwarded : f.rpc = "InstallRule" /\ f.rule = call[t].rule.rule
      BY <3>1, RunningFields DEF ServiceInv, ServiceTypeOK, Installed
    <3>3. PICK k \in 0..Len(f.rule.action) : call[t].change \in Selections(f.rule.action, k)
      BY <3>1, <3>2, ReportMadeOf
    <3> QED
      BY <1>1, <2>1, <3>2, <3>3, CallFields DEF MasterRequest, ReceiveStorageChange, Receive
  <2> QED
    BY <1>1, <1>4, <2>1, CallStepMaster, CallFields
<1>5. CASE \E t \in Threads : MasterStep(t) \/ ForwardRule(t)
  BY <1>5 DEF MasterStep, ForwardRule, MasterNext
<1>6. CASE (\E m \in Managers : CrashManager(m)) \/ (\E c \in Clients : CrashClient(c))
  BY <1>1, <1>6, CrashMaster, PeerThreads
<1>7. ASSUME NEW v \in Viewers, Look(v)
      PROVE  MasterNext
  BY <1>1, <1>7, PeerThreads DEF Look, MasterRequest, ReceiveGetView, Receive
<1> QED
  BY <1>2, <1>3, <1>4, <1>5, <1>6, <1>7 DEF ServiceNext, serviceVars, MasterNext

(* The service implements the abstract master with every legal caller:     *)
(* managers, clients, operators and viewers send the master nothing that the *)
(* environment of MasterSpec does not, in whatever order their threads run *)
(* (storage_manager.cc, storage_client.cc: Start, Get and Put).            *)
THEOREM ServiceImplementsMaster == ServiceSpec => MasterSpec
<1> DEFINE Inv == ServiceInv /\ ThreadsInv /\ ForwardsInv
<1>1. ServiceInit => Inv /\ MasterInit
  BY ServiceInitInv, ThreadsInit, ForwardsInit DEF ServiceInit
<1>2. Inv /\ [ServiceNext]_serviceVars => Inv'
  BY ServiceNextInv, ThreadsNext, ForwardsNext
<1>3. Inv /\ [ServiceNext]_serviceVars => [MasterNext]_masterVars
  BY ServiceStepsMaster
<1> QED
  BY <1>1, <1>2, <1>3, PTL DEF ServiceSpec, MasterSpec

=============================================================================
