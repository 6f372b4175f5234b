------------------------- MODULE StorageMasterProofs -------------------------
(***************************************************************************)
(* Proofs about StorageMaster: MasterInv is inductive, and it implies the  *)
(* master's safety properties.                                             *)
(***************************************************************************)
EXTENDS StorageMaster, ProtocolProofs

-----------------------------------------------------------------------------
(* Handler states. *)

LEMMA SlotNames ==
  ASSUME NEW rule \in Rules, NEW s \in Slots(rule)
  PROVE  NameAt(rule, s) \in Names
<1>1. rule.action \in Seq(Actions)
  BY RulesAssumption
<1>2. s[1] \in DOMAIN rule.action /\ s[2] \in DOMAIN rule.action[s[1]].mgrs
  BY DEF Slots
<1>3. rule.action[s[1]] \in Actions
  BY <1>1, <1>2
<1> QED
  BY <1>2, <1>3 DEF NameAt, Actions

LEMMA RuleNames ==
  ASSUME NEW rule, rule.action \in Seq(Actions), NEW i \in DOMAIN rule.action,
         NEW j \in DOMAIN rule.action[i].mgrs
  PROVE  rule.action[i].mgrs[j] \in NamesOf(rule)
<1>1. rule.action[i] \in Actions
  OBVIOUS
<1>2. j \in 1..2
  BY <1>1 DEF Actions
<1>3. <<i, j>> \in Slots(rule)
  BY <1>2 DEF Slots
<1> QED
  BY <1>3 DEF NamesOf, NameAt

(* What a handler's pc says about the rest of its state. *)
LEMMA HandlerFields ==
  ASSUME NEW h \in HandlerStates
  PROVE  /\ h.pc \in {"AddPeer", "AddingPeer", "AddManager", "AddFiles"} => h \in IntroduceHandlers
         /\ h.pc \in {"FindClient", "FillInRule"} => h \in RuleHandlers
         /\ h.pc \in {"StorageChange", "RemoveFromDst"} =>
              /\ h = [pc |-> h.pc, change |-> h.change]
              /\ h.change \in Seq(Actions)
         /\ h.pc = "PopulateUris" => h.view \in FileViews
         /\ h.pc = "viewed" => h.view \in ViewReplies
BY DEF HandlerStates, Idle, Replied, IntroduceHandlers, RuleHandlers

-----------------------------------------------------------------------------
(* Most steps of a handler leave the peers alone. *)

QuietStep(t, h) ==
  /\ Become(t, h)
  /\ UNCHANGED <<trackerVars, processVars, forwarded>>

LEMMA QuietKnown ==
  ASSUME MasterTypeOK, NEW t \in Threads, NEW h \in HandlerStates, QuietStep(t, h),
         handler[t].pc # "AddingPeer", h.pc # "AddingPeer"
  PROVE  /\ Known' = Known
         /\ \A n : Vouched(n)' <=> Vouched(n)
         /\ \A u \in Threads : handler'[u] = IF u = t THEN h ELSE handler[u]
         /\ handler' \in [Threads -> HandlerStates]
<1>1. /\ handler' \in [Threads -> HandlerStates]
      /\ \A u \in Threads : handler'[u] = IF u = t THEN h ELSE handler[u]
  BY DEF MasterTypeOK, QuietStep, Become
<1>2. BeingAdded' = BeingAdded
  BY <1>1 DEF BeingAdded
<1>3. Known' = Known
  BY <1>2 DEF Known, QuietStep, trackerVars
<1>4. \A n : Vouched(n)' <=> Vouched(n)
  BY <1>3 DEF Vouched, QuietStep, processVars
<1> QED
  BY <1>1, <1>3, <1>4

(* A quiet step preserves the invariant when the handler's new state and   *)
(* the view it writes, if any, are vouched for.                            *)
LEMMA QuietInv ==
  ASSUME MasterInv, NEW t \in Threads, NEW h \in HandlerStates, QuietStep(t, h),
         handler[t].pc # "AddingPeer", h.pc # "AddingPeer", HandlerInv(h),
         \/ UNCHANGED manager_views
         \/ \E n \in Names, files \in SUBSET Keys :
              Vouched(n) /\ manager_views' = Bind(manager_views, n, files)
  PROVE  MasterInv'
<1> USE DEF MasterInv
<1>1. /\ Known' = Known
      /\ \A n : Vouched(n)' <=> Vouched(n)
      /\ \A u \in Threads : handler'[u] = IF u = t THEN h ELSE handler[u]
      /\ handler' \in [Threads -> HandlerStates]
  BY QuietKnown
<1>2. /\ DOMAIN manager_views' \subseteq Names
      /\ manager_views' \in [DOMAIN manager_views' -> SUBSET Keys]
      /\ \A n \in DOMAIN manager_views' : Vouched(n)
  <2>1. CASE UNCHANGED manager_views
    BY <2>1 DEF MasterTypeOK
  <2>2. ASSUME NEW n \in Names, NEW files \in SUBSET Keys, Vouched(n),
               manager_views' = Bind(manager_views, n, files)
        PROVE  /\ DOMAIN manager_views' \subseteq Names
               /\ manager_views' \in [DOMAIN manager_views' -> SUBSET Keys]
               /\ \A m \in DOMAIN manager_views' : Vouched(m)
    <3>1. DOMAIN manager_views' = DOMAIN manager_views \cup {n}
      BY <2>2, BindDomain
    <3>2. manager_views \in [DOMAIN manager_views -> SUBSET Keys]
      BY DEF MasterTypeOK
    <3>3. manager_views' \in [DOMAIN manager_views' -> SUBSET Keys]
      BY <2>2, <3>2, BindType
    <3> QED
      BY <2>2, <3>1, <3>3 DEF MasterTypeOK
  <2> QED
    BY <2>1, <2>2
<1>3. MasterTypeOK'
  BY <1>1, <1>2 DEF MasterTypeOK, QuietStep, trackerVars, processVars
<1>4. \A n \in DOMAIN name_to_peer' : GenerateName(name_to_peer'[n]) = n
  BY DEF QuietStep, trackerVars
<1>5. \A g : HandlerInv(g)' <=> HandlerInv(g)
  BY <1>1 DEF HandlerInv, QuietStep, trackerVars
<1>6. \A f \in forwarded' : ForwardedInv(f)'
  BY <1>1 DEF ForwardedInv, QuietStep, processVars
<1> QED
  BY <1>1, <1>2, <1>3, <1>4, <1>5, <1>6

-----------------------------------------------------------------------------
(* Introduce. *)

LEMMA ReceiveIntroduceInv ==
  ASSUME MasterInv, NEW t \in Threads, NEW i, NEW file \in SUBSET Keys,
         ReceiveIntroduce(t, i, file)
  PROVE  MasterInv'
<1> DEFINE h == IF i \in Peers THEN [pc |-> "AddPeer", peer |-> i, file |-> file]
                ELSE Replied("OK")
<1>1. h \in HandlerStates /\ h.pc # "AddingPeer" /\ HandlerInv(h)
  BY DEF HandlerStates, IntroduceHandlers, Replied, Statuses, HandlerInv
<1>2. handler[t].pc # "AddingPeer"
  BY DEF ReceiveIntroduce, Receive, Idle
<1>3. QuietStep(t, h) /\ UNCHANGED manager_views
  BY DEF ReceiveIntroduce, Receive, QuietStep, processVars
<1> QED
  BY <1>1, <1>2, <1>3, QuietInv

LEMMA LockTrackerInv ==
  ASSUME MasterInv, NEW t \in Threads, LockTracker(t)
  PROVE  MasterInv'
<1> USE DEF MasterInv
<1> PICK h : h = [handler[t] EXCEPT !.pc = "AddingPeer"]
  OBVIOUS
<1>1. handler[t] \in IntroduceHandlers
  BY HandlerFields DEF MasterTypeOK, LockTracker
<1>2. h \in HandlerStates /\ h.pc = "AddingPeer" /\ HandlerInv(h)
  BY <1>1 DEF HandlerStates, IntroduceHandlers, HandlerInv
<1>3. /\ handler' \in [Threads -> HandlerStates]
      /\ \A u \in Threads : handler'[u] = IF u = t THEN h ELSE handler[u]
  BY <1>2 DEF MasterTypeOK, LockTracker, Become
<1>4. Known \subseteq Known'
  BY <1>3 DEF Known, BeingAdded, LockTracker
<1>5. \A n : Vouched(n) => Vouched(n)'
  BY <1>4 DEF Vouched, LockTracker, processVars
<1>6. MasterTypeOK'
  BY <1>2, <1>3, MasterAssumption DEF MasterTypeOK, LockTracker, processVars
<1>7. (\A u \in Threads : HandlerInv(handler[u]))'
  <2>1. \A g : HandlerInv(g) => HandlerInv(g)'
    BY <1>4, <1>5 DEF HandlerInv, LockTracker
  <2> QED
    BY <1>2, <1>3, <2>1
<1>8. \A f \in forwarded' : ForwardedInv(f)'
  BY <1>4 DEF ForwardedInv, LockTracker, processVars
<1> QED
  BY <1>5, <1>6, <1>7, <1>8 DEF LockTracker

LEMMA AddPeerInv ==
  ASSUME MasterInv, NEW t \in Threads, AddPeer(t)
  PROVE  MasterInv'
<1> USE DEF MasterInv
<1> PICK p : p = handler[t].peer
  OBVIOUS
<1> PICK h : h = IF p \in Managers THEN [handler[t] EXCEPT !.pc = "AddManager"] ELSE Replied("OK")
  OBVIOUS
<1>1. handler[t] \in IntroduceHandlers /\ handler[t].pc = "AddingPeer"
  BY HandlerFields DEF MasterTypeOK, AddPeer
<1>2. p \in Peers /\ GenerateName(p) \in Names
  BY <1>1, NamesAssumption DEF IntroduceHandlers, Peers, Managers, Clients
<1>3. /\ DOMAIN name_to_peer' = DOMAIN name_to_peer \cup {GenerateName(p)}
      /\ \A n \in DOMAIN name_to_peer' :
           name_to_peer'[n] = IF n = GenerateName(p) THEN p ELSE name_to_peer[n]
  BY DEF AddPeer, Bind
<1>4. /\ DOMAIN connection_to_peer' \subseteq Peers
      /\ \A c \in DOMAIN connection_to_peer' : connection_to_peer'[c] = c
  BY <1>2 DEF AddPeer, Bind, MasterTypeOK
<1>5. h \in HandlerStates /\ h.pc # "AddingPeer" /\ HandlerInv(h)'
  BY <1>1, <1>3 DEF HandlerStates, IntroduceHandlers, Replied, Statuses, HandlerInv
<1>6. /\ handler' \in [Threads -> HandlerStates]
      /\ \A u \in Threads : handler'[u] = IF u = t THEN h ELSE handler[u]
  BY <1>5 DEF MasterTypeOK, AddPeer, Become
<1>7. Known \subseteq Known'
  <2>1. \A q \in BeingAdded : q \in BeingAdded' \/ q = p
    BY <1>6 DEF BeingAdded
  <2> QED
    BY <1>3, <2>1 DEF Known
<1>8. \A n : Vouched(n) => Vouched(n)'
  BY <1>7 DEF Vouched, AddPeer, processVars
<1>9. MasterTypeOK'
  BY <1>1, <1>2, <1>3, <1>4, <1>5, <1>6, MasterAssumption DEF MasterTypeOK, AddPeer, processVars
<1>10. (\A u \in Threads : HandlerInv(handler[u]))'
  <2>1. \A g : HandlerInv(g) => HandlerInv(g)'
    BY <1>3, <1>7, <1>8 DEF HandlerInv
  <2> QED
    BY <1>5, <1>6, <2>1
<1>11. \A f \in forwarded' : ForwardedInv(f)'
  BY <1>7 DEF ForwardedInv, AddPeer, processVars
<1> QED
  BY <1>3, <1>8, <1>9, <1>10, <1>11 DEF AddPeer

LEMMA ViewOfType ==
  ASSUME MasterTypeOK, NEW n
  PROVE  ViewOf(n) \in SUBSET Keys
BY DEF MasterTypeOK, ViewOf

LEMMA AddManagerInv ==
  ASSUME MasterInv, NEW t \in Threads, AddManager(t)
  PROVE  MasterInv'
<1> DEFINE h == [handler[t] EXCEPT !.pc = "AddFiles"]
           n == GenerateName(handler[t].peer)
<1>1. handler[t] \in IntroduceHandlers /\ handler[t].pc = "AddManager"
  BY HandlerFields DEF MasterInv, MasterTypeOK, AddManager
<1>2. n \in Names /\ n \in DOMAIN name_to_peer
  BY <1>1 DEF MasterInv, MasterTypeOK, HandlerInv
<1>3. h \in HandlerStates /\ h.pc # "AddingPeer" /\ HandlerInv(h)
  BY <1>1, <1>2 DEF HandlerStates, IntroduceHandlers, HandlerInv
<1>4. QuietStep(t, h) /\ manager_views' = Bind(manager_views, n, {})
  BY DEF AddManager, QuietStep
<1>5. Vouched(n)
  BY <1>2 DEF Vouched, Known
<1> HIDE DEF h, n
<1> QED
  BY <1>1, <1>2, <1>3, <1>4, <1>5, QuietInv

LEMMA AddFileInv ==
  ASSUME MasterInv, NEW t \in Threads, AddFile(t)
  PROVE  MasterInv'
<1> PICK key \in handler[t].file :
      /\ AddFileToManager(GenerateName(handler[t].peer), key)
      /\ Become(t, [handler[t] EXCEPT !.file = @ \ {key}])
  BY DEF AddFile
<1> DEFINE h == [handler[t] EXCEPT !.file = @ \ {key}]
           n == GenerateName(handler[t].peer)
<1>1. handler[t] \in IntroduceHandlers /\ handler[t].pc = "AddFiles"
  BY HandlerFields DEF MasterInv, MasterTypeOK, AddFile
<1>2. n \in Names /\ n \in DOMAIN name_to_peer
  BY <1>1 DEF MasterInv, MasterTypeOK, HandlerInv
<1>3. h \in HandlerStates /\ h.pc # "AddingPeer" /\ HandlerInv(h)
  BY <1>1, <1>2 DEF HandlerStates, IntroduceHandlers, HandlerInv
<1>4. QuietStep(t, h) /\ manager_views' = Bind(manager_views, n, ViewOf(n) \cup {key})
  BY DEF AddFile, QuietStep, AddFileToManager
<1>5. Vouched(n)
  BY <1>2 DEF Vouched, Known
<1>6. ViewOf(n) \cup {key} \in SUBSET Keys
  BY <1>1, ViewOfType DEF MasterInv, IntroduceHandlers
<1> HIDE DEF h, n
<1> QED
  BY <1>1, <1>2, <1>3, <1>4, <1>5, <1>6, QuietInv

(* A handler that answers with a status. *)
LEMMA ReplyInv ==
  ASSUME MasterInv, NEW t \in Threads, NEW status \in Statuses, handler[t].pc # "AddingPeer",
         QuietStep(t, Replied(status)), UNCHANGED manager_views
  PROVE  MasterInv'
<1>1. /\ Replied(status) \in HandlerStates /\ Replied(status).pc # "AddingPeer"
      /\ HandlerInv(Replied(status))
  BY DEF HandlerStates, Replied, HandlerInv
<1> QED
  BY <1>1, QuietInv

LEMMA ConsumeInv ==
  ASSUME MasterInv, NEW t \in Threads, Consume(t)
  PROVE  MasterInv'
<1>1. Idle \in HandlerStates /\ Idle.pc # "AddingPeer" /\ HandlerInv(Idle)
  BY DEF HandlerStates, Idle, HandlerInv
<1>2. QuietStep(t, Idle) /\ handler[t].pc # "AddingPeer" /\ UNCHANGED manager_views
  BY DEF Consume, QuietStep, Answered
<1> QED
  BY <1>1, <1>2, QuietInv

LEMMA AbandonInv ==
  ASSUME MasterInv, NEW t \in Threads, NEW o \in Threads, Abandon(t, o)
  PROVE  MasterInv'
<1> USE DEF MasterInv
<1>1. Idle \in HandlerStates /\ Idle.pc # "AddingPeer" /\ HandlerInv(Idle) /\ t # o
  BY DEF HandlerStates, Idle, HandlerInv, Abandon
<1>2. /\ handler' \in [Threads -> HandlerStates]
      /\ \A u \in Threads :
           handler'[u] = IF u = t THEN Idle ELSE IF u = o THEN handler[t] ELSE handler[u]
  BY <1>1 DEF MasterTypeOK, Abandon
<1>3. BeingAdded' = BeingAdded
  <2>1. handler[o].pc # "AddingPeer"
    BY <1>1 DEF Abandon
  <2>2. \A u \in Threads : handler'[u].pc = "AddingPeer" =>
          \E v \in Threads : handler[v].pc = "AddingPeer" /\ handler[v] = handler'[u]
    BY <1>1, <1>2
  <2>3. \A u \in Threads : handler[u].pc = "AddingPeer" =>
          \E v \in Threads : handler'[v].pc = "AddingPeer" /\ handler'[v] = handler[u]
    <3> SUFFICES ASSUME NEW u \in Threads, handler[u].pc = "AddingPeer"
                 PROVE  \E v \in Threads : handler'[v].pc = "AddingPeer" /\ handler'[v] = handler[u]
      OBVIOUS
    <3>1. CASE u = t
      BY <1>1, <1>2, <3>1
    <3>2. CASE u # t
      BY <1>2, <2>1, <3>2
    <3> QED
      BY <3>1, <3>2
  <2>4. \A p : p \in BeingAdded <=> \E u \in Threads : handler[u].pc = "AddingPeer" /\ p = handler[u].peer
    BY DEF BeingAdded
  <2>5. \A p : p \in BeingAdded' <=> \E u \in Threads : handler'[u].pc = "AddingPeer" /\ p = handler'[u].peer
    BY DEF BeingAdded
  <2>6. ASSUME NEW p \in BeingAdded PROVE p \in BeingAdded'
    BY <2>3, <2>4, <2>5, <2>6
  <2>7. ASSUME NEW p \in BeingAdded' PROVE p \in BeingAdded
    BY <2>2, <2>4, <2>5, <2>7
  <2> QED
    BY <2>6, <2>7
<1>4. Known' = Known
  BY <1>3 DEF Known, Abandon
<1>5. \A n : Vouched(n)' <=> Vouched(n)
  BY <1>4 DEF Vouched, Abandon, processVars
<1>6. MasterTypeOK'
  <2>1. \A u \in Threads : tracker_mutex' = u <=> handler'[u].pc = "AddingPeer"
    BY <1>1, <1>2, MasterAssumption DEF Abandon, MasterTypeOK
  <2> QED
    BY <1>2, <2>1 DEF MasterTypeOK, Abandon, processVars
<1>7. \A h : HandlerInv(h)' <=> HandlerInv(h)
  BY <1>4, <1>5 DEF HandlerInv, Abandon
<1>8. \A f \in forwarded' : ForwardedInv(f)'
  BY <1>4 DEF ForwardedInv, Abandon, processVars
<1>9. (\A u \in Threads : HandlerInv(handler[u]))'
  BY <1>1, <1>2, <1>7
<1> QED
  BY <1>5, <1>6, <1>8, <1>9 DEF Abandon

-----------------------------------------------------------------------------
(* StorageChange. *)

LEMMA ChangeState ==
  ASSUME NEW change \in Seq(Actions), \A n \in NamesIn(change) : Vouched(n)
  PROVE  /\ ChangeHandler(change) \in HandlerStates
         /\ ChangeHandler(change).pc # "AddingPeer"
         /\ HandlerInv(ChangeHandler(change))
BY DEF ChangeHandler, HandlerStates, HandlerInv

LEMMA ReceiveStorageChangeInv ==
  ASSUME MasterInv, NEW t \in Threads, NEW change \in Seq(Actions),
         \A n \in NamesIn(change) : Vouched(n),
         ReceiveStorageChange(t, change)
  PROVE  MasterInv'
<1>1. QuietStep(t, ChangeHandler(change)) /\ UNCHANGED manager_views
  BY DEF ReceiveStorageChange, Receive, QuietStep, processVars
<1>2. handler[t].pc # "AddingPeer"
  BY DEF ReceiveStorageChange, Receive, Idle
<1> QED
  BY <1>1, <1>2, ChangeState, QuietInv

(* What a handler that has a change left to apply knows about it. *)
LEMMA HeadAndTail ==
  ASSUME NEW change \in Seq(Actions), change # <<>>, \A n \in NamesIn(change) : Vouched(n)
  PROVE  /\ Head(change) \in Actions
         /\ Tail(change) \in Seq(Actions)
         /\ \A n \in NamesIn(Tail(change)) : Vouched(n)
         /\ \A j \in DOMAIN Head(change).mgrs : Vouched(Head(change).mgrs[j])
<1>1. Head(change) = change[1] /\ 1 \in DOMAIN change /\ Head(change) \in Actions
  OBVIOUS
<1>2. /\ Tail(change) \in Seq(Actions)
      /\ \A i \in DOMAIN Tail(change) : i + 1 \in DOMAIN change /\ Tail(change)[i] = change[i + 1]
  OBVIOUS
<1>3. NamesIn(Tail(change)) \subseteq NamesIn(change)
  BY <1>2 DEF NamesIn
<1>4. \A j \in DOMAIN Head(change).mgrs : Head(change).mgrs[j] \in NamesIn(change)
  BY <1>1 DEF NamesIn
<1> QED
  BY <1>1, <1>2, <1>3, <1>4

LEMMA ActionNames ==
  ASSUME NEW a \in Actions, NEW j \in DOMAIN a.mgrs
  PROVE  a.mgrs[j] \in Names /\ a.key \in Keys
BY DEF Actions

LEMMA ApplyChangeInv ==
  ASSUME MasterInv, NEW t \in Threads, ApplyChange(t)
  PROVE  MasterInv'
<1> DEFINE change == handler[t].change
           a == Head(change)
           n == a.mgrs[1]
<1>1. /\ handler[t].pc = "StorageChange"
      /\ handler[t] = [pc |-> "StorageChange", change |-> change]
      /\ change \in Seq(Actions) /\ change # <<>>
      /\ \A m \in NamesIn(change) : Vouched(m)
  BY HandlerFields DEF MasterInv, MasterTypeOK, HandlerInv, ApplyChange
<1>2. /\ a \in Actions /\ Tail(change) \in Seq(Actions)
      /\ \A m \in NamesIn(Tail(change)) : Vouched(m)
      /\ \A j \in DOMAIN a.mgrs : Vouched(a.mgrs[j])
  BY <1>1, HeadAndTail
<1>3. ViewOf(n) \in SUBSET Keys
  BY ViewOfType DEF MasterInv
<1>4. CASE a.type = "copy_from"
  <2> DEFINE h == [handler[t] EXCEPT !.pc = "RemoveFromDst"]
  <2>1. 1 \in DOMAIN a.mgrs
    BY <1>2, <1>4 DEF Actions
  <2>2. n \in Names /\ a.key \in Keys /\ Vouched(n)
    BY <1>2, <2>1, ActionNames
  <2>3. h = [pc |-> "RemoveFromDst", change |-> change]
    BY <1>1
  <2>4. h \in HandlerStates /\ h.pc # "AddingPeer" /\ HandlerInv(h)
    BY <1>1, <1>4, <2>3 DEF HandlerStates, HandlerInv
  <2>5. /\ QuietStep(t, h)
        /\ manager_views' = Bind(manager_views, n, ViewOf(n) \cup {a.key})
    BY <1>4 DEF ApplyChange, QuietStep, AddFileToManager
  <2>6. ViewOf(n) \cup {a.key} \in SUBSET Keys
    BY <1>3, <2>2
  <2> HIDE DEF h, n, a, change
  <2> QED
    BY <1>1, <2>2, <2>4, <2>5, <2>6, QuietInv
<1>5. CASE a.type \in {"remove", "put"}
  <2> DEFINE h == ChangeHandler(Tail(change))
             files == IF a.type = "put" THEN ViewOf(n) \cup {a.key} ELSE ViewOf(n) \ {a.key}
  <2>1. 1 \in DOMAIN a.mgrs
    BY <1>2, <1>5 DEF Actions
  <2>2. n \in Names /\ a.key \in Keys /\ Vouched(n)
    BY <1>2, <2>1, ActionNames
  <2>3. h \in HandlerStates /\ h.pc # "AddingPeer" /\ HandlerInv(h)
    BY <1>2, ChangeState
  <2>4. QuietStep(t, h) /\ manager_views' = Bind(manager_views, n, files)
    BY <1>5 DEF ApplyChange, QuietStep, AddFileToManager, RemoveFileFromManager
  <2>5. files \in SUBSET Keys
    BY <1>3, <2>2
  <2> HIDE DEF h, files, n, a, change
  <2> QED
    BY <1>1, <2>2, <2>3, <2>4, <2>5, QuietInv
<1>6. CASE a.type \in {"get", "not_set"}
  <2>1. QuietStep(t, ChangeHandler(Tail(change))) /\ UNCHANGED manager_views
    BY <1>6 DEF ApplyChange, QuietStep
  <2> HIDE DEF a, change
  <2> QED
    BY <1>1, <1>2, <2>1, ChangeState, QuietInv
<1> QED
  BY <1>4, <1>5, <1>6 DEF ApplyChange

LEMMA RemoveFromDstInv ==
  ASSUME MasterInv, NEW t \in Threads, RemoveFromDst(t)
  PROVE  MasterInv'
<1> DEFINE change == handler[t].change
           a == Head(change)
           n == a.mgrs[2]
           h == ChangeHandler(Tail(change))
           files == ViewOf(n) \ {a.key}
<1>1. /\ handler[t].pc = "RemoveFromDst"
      /\ change \in Seq(Actions) /\ change # <<>> /\ a.type = "copy_from"
      /\ \A m \in NamesIn(change) : Vouched(m)
  BY HandlerFields DEF MasterInv, MasterTypeOK, HandlerInv, RemoveFromDst
<1>2. /\ a \in Actions /\ Tail(change) \in Seq(Actions)
      /\ \A m \in NamesIn(Tail(change)) : Vouched(m)
      /\ \A j \in DOMAIN a.mgrs : Vouched(a.mgrs[j])
  BY <1>1, HeadAndTail
<1>3. 2 \in DOMAIN a.mgrs
  BY <1>1, <1>2 DEF Actions
<1>4. n \in Names /\ a.key \in Keys /\ Vouched(n)
  BY <1>2, <1>3, ActionNames
<1>5. h \in HandlerStates /\ h.pc # "AddingPeer" /\ HandlerInv(h)
  BY <1>2, ChangeState
<1>6. QuietStep(t, h) /\ manager_views' = Bind(manager_views, n, files)
  BY DEF RemoveFromDst, QuietStep, RemoveFileFromManager
<1>7. files \in SUBSET Keys
  BY ViewOfType DEF MasterInv
<1> HIDE DEF h, files, n, a, change
<1> QED
  BY <1>1, <1>4, <1>5, <1>6, <1>7, QuietInv

-----------------------------------------------------------------------------
(* An exception, or a crash. *)

LEMMA TerminateInv ==
  ASSUME MasterInv, Terminate
  PROVE  MasterInv'
<1> USE DEF MasterInv
<1> DEFINE Next(u) == IF handler[u] = Idle \/ Answered(u) THEN handler[u]
                      ELSE Replied("UNAVAILABLE")
<1>1. /\ handler' \in [Threads -> HandlerStates]
      /\ \A u \in Threads : handler'[u] = Next(u)
  <2>1. \A u \in Threads : Next(u) \in HandlerStates
    BY DEF MasterTypeOK, HandlerStates, Replied, Statuses
  <2> QED
    BY <2>1 DEF Terminate
<1>2. \A u \in Threads : handler'[u].pc \in {"idle", "replied", "viewed"}
  BY <1>1 DEF Answered, Idle, Replied
<1>3. /\ DOMAIN name_to_peer' = {} /\ DOMAIN connection_to_peer' = {}
      /\ DOMAIN manager_views' = {} /\ manager_views' \in [{} -> SUBSET Keys]
  BY DEF Terminate, EmptyMap
<1>4. epoch' = epoch + 1 /\ epoch \in Nat /\ epoch' \in 0..MaxRestarts
  BY MasterAssumption DEF MasterTypeOK, Terminate
<1>5. MasterTypeOK'
  <2>1. \A f \in forwarded' : f.epoch \in 0..epoch'
    BY <1>4 DEF MasterTypeOK, Terminate
  <2> QED
    BY <1>1, <1>2, <1>3, <1>4, <2>1, MasterAssumption DEF MasterTypeOK, Terminate
<1>6. (\A u \in Threads : HandlerInv(handler[u]))'
  <2>1. \A u \in Threads : handler'[u].pc = "viewed" => handler'[u] = handler[u]
    BY <1>1 DEF Replied
  <2> QED
    BY <1>2, <2>1 DEF HandlerInv
<1>7. \A f \in forwarded' : ForwardedInv(f)'
  <2>1. \A f \in forwarded : f.epoch \in 0..epoch
    BY DEF MasterTypeOK
  <2>2. \A f \in forwarded' : f.epoch # epoch'
    BY <1>4, <2>1 DEF Terminate
  <2> QED
    BY <2>2 DEF ForwardedInv, Terminate
<1> QED
  BY <1>3, <1>5, <1>6, <1>7

LEMMA ThrowInv ==
  ASSUME MasterInv, NEW t \in Threads, handler[t].pc # "AddingPeer", Throw(t)
  PROVE  MasterInv'
<1>1. CASE Terminate
  BY <1>1, TerminateInv
<1>2. CASE ~Terminate
  <2>1. QuietStep(t, Replied("UNKNOWN")) /\ UNCHANGED manager_views
    BY <1>2 DEF Throw, QuietStep
  <2> QED
    BY <2>1, ReplyInv DEF Statuses
<1> QED
  BY <1>1, <1>2

LEMMA MasterStartInv ==
  ASSUME MasterInv, MasterStart
  PROVE  MasterInv'
<1> USE DEF MasterStart, trackerVars
<1>1. MasterTypeOK'
  BY DEF MasterInv, MasterTypeOK
<1>2. Known' = Known
  BY DEF Known, BeingAdded
<1>3. \A n : Vouched(n)' <=> Vouched(n)
  BY <1>2 DEF Vouched
<1>4. \A g : HandlerInv(g)' <=> HandlerInv(g)
  BY <1>2, <1>3 DEF HandlerInv
<1>5. \A f : ForwardedInv(f)' <=> ForwardedInv(f)
  BY <1>2 DEF ForwardedInv
<1> QED
  BY <1>1, <1>3, <1>4, <1>5 DEF MasterInv

-----------------------------------------------------------------------------
(* InstallRule and RemoveRule. *)

LEMMA FoundPeers ==
  ASSUME MasterInv, NEW n, NEW p \in PeersFound(n)
  PROVE  p \in Peers /\ GenerateName(p) = n /\ n \in Known /\ Uri(p) \in Uris
<1>1. CASE p \in BeingAdded
  <2>1. p \in Peers
    BY <1>1, HandlerFields DEF MasterInv, MasterTypeOK, BeingAdded, IntroduceHandlers
  <2>2. GenerateName(p) = n
    BY <1>1 DEF PeersFound, MasterInv
  <2> QED
    BY <1>1, <2>1, <2>2 DEF Known, Uris, Peers
<1>2. CASE n \in DOMAIN name_to_peer /\ p = name_to_peer[n]
  BY <1>2 DEF MasterInv, MasterTypeOK, Known, Uris, Peers
<1> QED
  BY <1>1, <1>2 DEF PeersFound

LEMMA FillingState ==
  ASSUME MasterInv, NEW rpc \in RuleRpcs, NEW client \in Names, NEW to \in Peers,
         NEW rule \in Rules, NEW uri \in UriMaps(rule),
         GenerateName(to) = client,
         \A s \in DOMAIN uri : NameAt(rule, s) \in Known /\ RouteOf(NameAt(rule, s), uri[s])
  PROVE  LET h == [pc |-> "FillInRule", rpc |-> rpc, client |-> client, to |-> to,
                   rule |-> rule, uri |-> uri]
         IN  h \in HandlerStates /\ h.pc # "AddingPeer" /\ HandlerInv(h)
BY DEF HandlerStates, RuleHandlers, HandlerInv

LEMMA ReceiveRuleInv ==
  ASSUME MasterInv, NEW t \in Threads, NEW rpc \in RuleRpcs, NEW client \in Names,
         NEW rule \in Rules, ReceiveRule(t, rpc, client, rule)
  PROVE  MasterInv'
<1> DEFINE h == [pc |-> "FindClient", rpc |-> rpc, client |-> client, rule |-> rule]
<1>1. h \in HandlerStates /\ h.pc # "AddingPeer" /\ HandlerInv(h)
  BY DEF HandlerStates, RuleHandlers, HandlerInv
<1>2. handler[t].pc # "AddingPeer" /\ QuietStep(t, h) /\ UNCHANGED manager_views
  BY DEF ReceiveRule, Receive, Idle, QuietStep, processVars
<1> HIDE DEF h
<1> QED
  BY <1>1, <1>2, QuietInv

LEMMA FindClientInv ==
  ASSUME MasterInv, NEW t \in Threads, FindClient(t)
  PROVE  MasterInv'
<1>1. handler[t] \in RuleHandlers /\ handler[t].pc = "FindClient"
  BY HandlerFields DEF MasterInv, MasterTypeOK, FindClient
<1>2. /\ handler[t].rpc \in RuleRpcs /\ handler[t].client \in Names /\ handler[t].rule \in Rules
      /\ EmptyMap \in UriMaps(handler[t].rule) /\ DOMAIN EmptyMap = {}
  <2>1. EmptyMap \in [{} -> Uris] /\ DOMAIN EmptyMap = {}
    BY DEF EmptyMap
  <2> QED
    BY <1>1, <2>1 DEF RuleHandlers, UriMaps
<1>3. ASSUME NEW p \in PeersFound(handler[t].client),
             Become(t, [pc |-> "FillInRule", rpc |-> handler[t].rpc,
                        client |-> handler[t].client, to |-> p, rule |-> handler[t].rule,
                        uri |-> EmptyMap]),
             UNCHANGED <<trackerVars, manager_views, processVars, forwarded>>
      PROVE  MasterInv'
  <2> DEFINE h == [pc |-> "FillInRule", rpc |-> handler[t].rpc, client |-> handler[t].client,
                   to |-> p, rule |-> handler[t].rule, uri |-> EmptyMap]
  <2>1. h \in HandlerStates /\ h.pc # "AddingPeer" /\ HandlerInv(h)
    BY <1>2, FoundPeers, FillingState
  <2>2. QuietStep(t, h)
    BY <1>3 DEF QuietStep
  <2> HIDE DEF h
  <2> QED
    BY <1>1, <1>3, <2>1, <2>2, QuietInv
<1> QED
  BY <1>1, <1>3, ThrowInv DEF FindClient

LEMMA FillInRuleInv ==
  ASSUME MasterInv, NEW t \in Threads, FillInRule(t)
  PROVE  MasterInv'
<1> DEFINE g == handler[t]
<1> PICK s \in Slots(g.rule) \ DOMAIN g.uri :
      \/ \E p \in PeersFound(NameAt(g.rule, s)) :
           /\ Become(t, [g EXCEPT !.uri = Bind(@, s, Uri(p))])
           /\ UNCHANGED <<trackerVars, manager_views, processVars, forwarded>>
      \/ MayMiss(NameAt(g.rule, s)) /\ Throw(t)
  BY DEF FillInRule
<1>1. g \in RuleHandlers /\ g.pc = "FillInRule"
  BY HandlerFields DEF MasterInv, MasterTypeOK, FillInRule
<1>2. /\ g = [pc |-> "FillInRule", rpc |-> g.rpc, client |-> g.client, to |-> g.to,
              rule |-> g.rule, uri |-> g.uri]
      /\ g.rpc \in RuleRpcs /\ g.client \in Names /\ g.to \in Peers /\ g.rule \in Rules
      /\ g.uri \in UriMaps(g.rule)
  BY <1>1 DEF RuleHandlers
<1>3. /\ GenerateName(g.to) = g.client
      /\ \A r \in DOMAIN g.uri :
           NameAt(g.rule, r) \in Known /\ RouteOf(NameAt(g.rule, r), g.uri[r])
  BY <1>1 DEF MasterInv, HandlerInv
<1>4. ASSUME NEW p \in PeersFound(NameAt(g.rule, s)),
             Become(t, [g EXCEPT !.uri = Bind(@, s, Uri(p))]),
             UNCHANGED <<trackerVars, manager_views, processVars, forwarded>>
      PROVE  MasterInv'
  <2> DEFINE uri == Bind(g.uri, s, Uri(p))
             h == [pc |-> "FillInRule", rpc |-> g.rpc, client |-> g.client, to |-> g.to,
                   rule |-> g.rule, uri |-> uri]
  <2>1. p \in Peers /\ GenerateName(p) = NameAt(g.rule, s) /\ NameAt(g.rule, s) \in Known
        /\ Uri(p) \in Uris
    BY FoundPeers
  <2>2. /\ DOMAIN uri = DOMAIN g.uri \cup {s}
        /\ uri[s] = Uri(p)
        /\ \A r \in DOMAIN g.uri \ {s} : uri[r] = g.uri[r]
    BY DEF Bind
  <2>3. uri \in UriMaps(g.rule)
    BY <1>2, <2>1 DEF UriMaps, Bind
  <2>4. \A r \in DOMAIN uri : NameAt(g.rule, r) \in Known /\ RouteOf(NameAt(g.rule, r), uri[r])
    BY <1>3, <2>1, <2>2 DEF RouteOf
  <2>5. h \in HandlerStates /\ h.pc # "AddingPeer" /\ HandlerInv(h)
    <3> HIDE DEF uri, g
    <3> QED
      BY <1>2, <1>3, <2>3, <2>4, FillingState
  <2>6. [g EXCEPT !.uri = uri] = h
    <3> HIDE DEF uri, g
    <3> QED
      BY <1>2
  <2>7. QuietStep(t, h)
    BY <1>4, <2>6 DEF QuietStep
  <2> HIDE DEF h
  <2> QED
    BY <1>1, <1>4, <2>5, <2>7, QuietInv
<1> QED
  BY <1>1, <1>4, ThrowInv

LEMMA ForwardInv ==
  ASSUME MasterInv, NEW t \in Threads, NEW status \in Statuses, Forward(t, status)
  PROVE  MasterInv'
<1> USE DEF MasterInv
<1> PICK g : g = handler[t]
  OBVIOUS
<1> PICK f : f = [rpc |-> g.rpc, client |-> g.client, to |-> g.to, rule |-> g.rule,
                  uri |-> g.uri, epoch |-> epoch]
  OBVIOUS
<1>1. /\ g.pc = "FillInRule" /\ g.rpc \in RuleRpcs /\ g.client \in Names /\ g.to \in Peers
      /\ g.rule \in Rules /\ g.uri \in UriMaps(g.rule)
      /\ g.rpc = "InstallRule" => DOMAIN g.uri = Slots(g.rule)
      /\ forwarded' = forwarded \cup {f}
  BY HandlerFields DEF MasterTypeOK, Forward, RuleHandlers
<1>2. /\ GenerateName(g.to) = g.client
      /\ \A s \in DOMAIN g.uri :
           NameAt(g.rule, s) \in Known /\ RouteOf(NameAt(g.rule, s), g.uri[s])
  BY <1>1 DEF HandlerInv
<1>3. Replied(status) \in HandlerStates /\ Replied(status).pc = "replied"
  BY DEF HandlerStates, Replied
<1>4. /\ handler' \in [Threads -> HandlerStates]
      /\ \A u \in Threads : handler'[u] = IF u = t THEN Replied(status) ELSE handler[u]
  BY <1>3 DEF MasterTypeOK, Forward, Become
<1>5. Known' = Known
  <2>1. BeingAdded' = BeingAdded
    BY <1>1, <1>3, <1>4 DEF BeingAdded
  <2> QED
    BY <2>1 DEF Known, Forward, trackerVars
<1>6. \A n : Vouched(n) => Vouched(n)'
  BY <1>1, <1>5 DEF Vouched, Forward, processVars
<1>7. MasterTypeOK'
  <2>1. f.epoch \in 0..epoch
    BY MasterAssumption DEF MasterTypeOK
  <2> QED
    BY <1>1, <1>3, <1>4, <2>1 DEF MasterTypeOK, Forward, trackerVars, processVars
<1>8. (\A u \in Threads : HandlerInv(handler[u]))'
  <2>1. \A h : HandlerInv(h) => HandlerInv(h)'
    BY <1>5, <1>6 DEF HandlerInv, Forward, trackerVars
  <2>2. HandlerInv(Replied(status))
    BY <1>3 DEF HandlerInv
  <2>3. ASSUME NEW u \in Threads PROVE HandlerInv(handler[u])'
    <3>1. PICK h : h = handler'[u]
      OBVIOUS
    <3>2. HandlerInv(h)
      BY <1>4, <2>2, <3>1
    <3> QED
      BY <2>1, <3>1, <3>2
  <2> QED
    BY <2>3
<1>9. \A e \in forwarded' : ForwardedInv(e)'
  <2>1. \A e \in forwarded : ForwardedInv(e)'
    BY <1>5 DEF ForwardedInv, Forward, processVars
  <2>2. ForwardedInv(f)'
    <3>1. g.rpc = "InstallRule" => NamesOf(g.rule) \subseteq Known
      BY <1>1, <1>2 DEF NamesOf
    <3> QED
      BY <1>2, <1>5, <3>1 DEF ForwardedInv
  <2> QED
    BY <1>1, <2>1, <2>2
<1> QED
  BY <1>6, <1>7, <1>8, <1>9 DEF Forward, trackerVars

-----------------------------------------------------------------------------
(* GetView. *)

LEMMA ReceiveGetViewInv ==
  ASSUME MasterInv, NEW t \in Threads, ReceiveGetView(t)
  PROVE  MasterInv'
<1> DEFINE h == [pc |-> "PopulateFiles"]
<1>1. h \in HandlerStates /\ h.pc # "AddingPeer" /\ HandlerInv(h)
  BY DEF HandlerStates, HandlerInv
<1>2. handler[t].pc # "AddingPeer" /\ QuietStep(t, h) /\ UNCHANGED manager_views
  BY DEF ReceiveGetView, Receive, Idle, QuietStep, processVars
<1> HIDE DEF h
<1> QED
  BY <1>1, <1>2, QuietInv

LEMMA PopulateFilesInv ==
  ASSUME MasterInv, NEW t \in Threads, PopulateFiles(t)
  PROVE  MasterInv'
<1> DEFINE h == [pc |-> "PopulateUris", view |-> manager_views]
<1>1. manager_views \in FileViews
  BY DEF MasterInv, MasterTypeOK, FileViews
<1>2. h \in HandlerStates /\ h.pc # "AddingPeer" /\ HandlerInv(h)
  BY <1>1 DEF HandlerStates, HandlerInv, MasterInv
<1>3. handler[t].pc # "AddingPeer" /\ QuietStep(t, h) /\ UNCHANGED manager_views
  BY DEF PopulateFiles, QuietStep
<1> HIDE DEF h
<1> QED
  BY <1>2, <1>3, QuietInv

LEMMA PopulateUrisInv ==
  ASSUME MasterInv, NEW t \in Threads, PopulateUris(t)
  PROVE  MasterInv'
<1> DEFINE view == handler[t].view
           reply == [n \in DOMAIN view |-> [key |-> view[n], uri |-> Uri(name_to_peer[n])]]
           h == [pc |-> "viewed", view |-> reply]
<1>1. handler[t].pc = "PopulateUris" /\ view \in FileViews
  BY HandlerFields DEF MasterInv, MasterTypeOK, PopulateUris
<1>2. CASE DOMAIN view \subseteq DOMAIN name_to_peer
  <2>1. \A n \in DOMAIN view : RouteOf(n, Uri(name_to_peer[n])) /\ Uri(name_to_peer[n]) \in Uris
    BY <1>2 DEF MasterInv, MasterTypeOK, RouteOf, Uris, Peers
  <2>2. \A n \in DOMAIN view : view[n] \in SUBSET Keys /\ n \in Names
    BY <1>1 DEF FileViews
  <2>3. reply \in ViewReplies
    BY <2>1, <2>2 DEF ViewReplies
  <2>4. h \in HandlerStates /\ h.pc # "AddingPeer" /\ HandlerInv(h)
    BY <2>1, <2>3 DEF HandlerStates, HandlerInv
  <2>5. QuietStep(t, h) /\ UNCHANGED manager_views
    BY <1>2 DEF PopulateUris, QuietStep
  <2> HIDE DEF h
  <2> QED
    BY <1>1, <2>4, <2>5, QuietInv
<1>3. CASE ~(DOMAIN view \subseteq DOMAIN name_to_peer)
  BY <1>1, <1>3, ThrowInv DEF PopulateUris
<1> QED
  BY <1>2, <1>3

-----------------------------------------------------------------------------
LEMMA MasterInitInv == MasterInit => MasterInv
<1> SUFFICES ASSUME MasterInit PROVE MasterInv
  OBVIOUS
<1>1. \A t \in Threads : handler[t] = Idle /\ Idle.pc = "idle" /\ Idle \in HandlerStates
  BY DEF MasterInit, Idle, HandlerStates
<1>2. MasterTypeOK
  <2>1. handler \in [Threads -> HandlerStates]
    BY <1>1 DEF MasterInit
  <2>2. manager_views \in [{} -> SUBSET Keys] /\ DOMAIN EmptyMap = {}
    BY DEF MasterInit, EmptyMap
  <2> QED
    BY <1>1, <2>1, <2>2, MasterAssumption DEF MasterTypeOK, MasterInit
<1>3. DOMAIN EmptyMap = {}
  BY DEF EmptyMap
<1> QED
  BY <1>1, <1>2, <1>3 DEF MasterInv, MasterInit, HandlerInv

LEMMA SequenceOf ==
  ASSUME NEW S, NEW n \in Nat, NEW f \in [1..n -> S]
  PROVE  f \in Seq(S) /\ DOMAIN f = 1..n
OBVIOUS

(* A report of the first actions of a rule consists of actions of the rule. *)
LEMMA SelectionActions ==
  ASSUME NEW action \in Seq(Actions), NEW k \in 0..Len(action), NEW change \in Selections(action, k)
  PROVE  /\ change \in Seq(Actions)
         /\ \A i \in DOMAIN change : \E j \in DOMAIN action : change[i] = action[j]
<1> PICK n \in 0..k : \E pos \in Positions(action, k, n) : change = [j \in 1..n |-> action[pos[j]]]
  BY DEF Selections
<1>1. PICK pos \in [1..n -> 1..k] : change = [j \in 1..n |-> action[pos[j]]]
  BY DEF Positions
<1>2. \A j \in 1..n : pos[j] \in DOMAIN action
  BY <1>1
<1>3. \A j \in 1..n : action[pos[j]] \in Actions
  BY <1>2
<1>4. n \in Nat
  OBVIOUS
<1>5. change \in [1..n -> Actions]
  BY <1>1, <1>3
<1>6. change \in Seq(Actions)
  BY <1>4, <1>5, SequenceOf
<1>7. \A i \in DOMAIN change : i \in 1..n /\ change[i] = action[pos[i]]
  BY <1>1
<1> QED
  BY <1>2, <1>6, <1>7

LEMMA MasterRequestInv ==
  ASSUME MasterInv, NEW t \in Threads, MasterRequest(t)
  PROVE  MasterInv'
<1>1. CASE \E i \in Introducers, file \in SUBSET Keys : ReceiveIntroduce(t, i, file)
  BY <1>1, ReceiveIntroduceInv
<1>2. ASSUME NEW f \in forwarded, f.rpc = "InstallRule", NEW k \in 0..Len(f.rule.action),
             NEW change \in Selections(f.rule.action, k), ReceiveStorageChange(t, change)
      PROVE  MasterInv'
  <2>1. f.rule \in Rules /\ f.rule.action \in Seq(Actions)
    BY RulesAssumption DEF MasterInv, MasterTypeOK
  <2>2. f.epoch < epoch \/ f.epoch = epoch
    BY MasterAssumption DEF MasterInv, MasterTypeOK
  <2>3. /\ change \in Seq(Actions)
        /\ \A i \in DOMAIN change : \E j \in DOMAIN f.rule.action : change[i] = f.rule.action[j]
    BY <2>1, SelectionActions
  <2>4. NamesIn(change) \subseteq NamesOf(f.rule)
    BY <2>1, <2>3, RuleNames DEF NamesIn
  <2>5. \A m \in NamesIn(change) : Vouched(m)
    BY <1>2, <2>2, <2>4 DEF Vouched, MasterInv, ForwardedInv
  <2> QED
    BY <1>2, <2>3, <2>5, ReceiveStorageChangeInv
<1>3. ASSUME NEW rpc \in RuleRpcs, NEW client \in Addressees, NEW rule \in Rules,
             ReceiveRule(t, rpc, client, rule)
      PROVE  MasterInv'
  <2>1. client \in Names
    BY MasterAssumption
  <2> QED
    BY <1>3, <2>1, ReceiveRuleInv
<1>4. CASE ReceiveGetView(t)
  BY <1>4, ReceiveGetViewInv
<1> QED
  BY <1>1, <1>2, <1>3, <1>4 DEF MasterRequest

LEMMA HandlerStepInv ==
  ASSUME MasterInv, NEW t \in Threads, HandlerStep(t)
  PROVE  MasterInv'
<1>1. CASE FinishIntroduce(t) \/ FinishStorageChange(t)
  <2>1. /\ QuietStep(t, Replied("OK")) /\ UNCHANGED manager_views
        /\ handler[t].pc # "AddingPeer"
    BY <1>1 DEF FinishIntroduce, FinishStorageChange, QuietStep
  <2> QED
    BY <2>1, ReplyInv DEF Statuses
<1> QED
  BY <1>1, LockTrackerInv, AddPeerInv, AddManagerInv, AddFileInv, ApplyChangeInv,
     RemoveFromDstInv, FindClientInv, FillInRuleInv, PopulateFilesInv, PopulateUrisInv
     DEF HandlerStep

LEMMA MasterNextInv == MasterInv /\ [MasterNext]_masterVars => MasterInv'
<1> SUFFICES ASSUME MasterInv, [MasterNext]_masterVars PROVE MasterInv'
  OBVIOUS
<1>1. ASSUME NEW t \in Threads,
             \/ MasterRequest(t) \/ HandlerStep(t) \/ Consume(t)
             \/ \E status \in {"OK", "UNAVAILABLE"} : Forward(t, status)
             \/ \E o \in Threads : Abandon(t, o)
      PROVE  MasterInv'
  BY <1>1, MasterRequestInv, HandlerStepInv, ForwardInv, ConsumeInv, AbandonInv DEF Statuses
<1>2. CASE Terminate \/ MasterStart
  BY <1>2, TerminateInv, MasterStartInv
<1>3. CASE UNCHANGED masterVars
  BY <1>3 DEF masterVars, trackerVars, processVars, MasterInv, MasterTypeOK, Known, BeingAdded,
     Vouched, HandlerInv, ForwardedInv
<1> QED
  BY <1>1, <1>2, <1>3 DEF MasterNext

LEMMA MasterInvImplies ==
  MasterInv => OrphansComeFromOldRules /\ GetViewAnswers /\ RoutesAreTrue
<1> SUFFICES ASSUME MasterInv
             PROVE  OrphansComeFromOldRules /\ GetViewAnswers /\ RoutesAreTrue
  OBVIOUS
<1>1. OrphansComeFromOldRules
  BY DEF MasterInv, OrphansComeFromOldRules, Vouched
<1>2. GetViewAnswers
  <2> SUFFICES ASSUME epoch = 0, NEW t \in Threads, handler[t].pc = "PopulateUris",
                      tracker_mutex = NoThread, NEW n \in DOMAIN handler[t].view
               PROVE  n \in DOMAIN name_to_peer
    BY DEF GetViewAnswers
  <2>1. Vouched(n)
    BY DEF MasterInv, HandlerInv
  <2>2. \A f \in forwarded : ~(f.epoch < epoch)
    BY DEF MasterInv, MasterTypeOK
  <2>3. BeingAdded = {}
    BY MasterAssumption DEF MasterInv, MasterTypeOK, BeingAdded
  <2> QED
    BY <2>1, <2>2, <2>3 DEF Vouched, Known
<1>3. RoutesAreTrue
  BY DEF MasterInv, RoutesAreTrue, HandlerInv, ForwardedInv, RouteOf
<1> QED
  BY <1>1, <1>2, <1>3

(* MasterInv holds of every behaviour of the master, for any managers,     *)
(* clients, keys, rules and number of threads and restarts                 *)
(* (storage_master.cc: every handler).                                     *)
THEOREM MasterInvariant == MasterSpec => []MasterInv
BY MasterInitInv, MasterNextInv, PTL DEF MasterSpec

(* The state of the master is well typed, and tracker_mutex is held by the *)
(* handler inside AddPeer only (PeerTracker::AddPeer).                     *)
THEOREM MasterTypeCorrect == MasterSpec => []MasterTypeOK
<1>1. MasterInv => MasterTypeOK
  BY DEF MasterInv
<1> QED
  BY <1>1, MasterInvariant, PTL

(* A manager that is viewed but not known was named by a rule that an      *)
(* earlier master process filled in (FillInRule, StorageChange, GetView).  *)
THEOREM MasterOrphans == MasterSpec => []OrphansComeFromOldRules
BY MasterInvariant, MasterInvImplies, PTL

(* Until the master restarts, GetView finds a peer for every viewed        *)
(* manager (PeerTracker::PopulateViewReply).                               *)
THEOREM MasterGetViewAnswers == MasterSpec => []GetViewAnswers
BY MasterInvariant, MasterInvImplies, PTL

(* Every uri the master hands out was introduced under the name it stands  *)
(* next to (FillInRule, PeerTracker::PopulateViewReply).                   *)
THEOREM MasterRoutes == MasterSpec => []RoutesAreTrue
BY MasterInvariant, MasterInvImplies, PTL

=============================================================================
