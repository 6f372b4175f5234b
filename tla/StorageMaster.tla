---------------------------- MODULE StorageMaster ----------------------------
(***************************************************************************)
(* The storage master: PeerTracker (names to peers), StorageFileView       *)
(* (managers to their files) and the RPC handlers that use them.  gRPC     *)
(* runs every handler on a thread of its own, so a handler is a sequence   *)
(* of atomic steps, one for each critical section (tracker_mutex,          *)
(* view_mutex), for each unlocked lookup and for each outgoing RPC.        *)
(*                                                                         *)
(* The actions are used twice: MasterSpec closes the module with an        *)
(* environment that sends every legal request, and StorageService has the  *)
(* modelled managers, clients and operators send them.                     *)
(***************************************************************************)
EXTENDS Protocol, FiniteSets

CONSTANTS
  NoThread,     \* no thread holds tracker_mutex
  Addressees,   \* the names that rules are addressed to, those of clients as a rule
  MaxRestarts,  \* bound: how often the master's process ends and is started again
  MaxForwards   \* bound: no rule is installed or removed after so many were

VARIABLES
  name_to_peer,        \* PeerTracker: name -> peer
  connection_to_peer,  \* PeerTracker: connection -> peer
  tracker_mutex,       \* the thread that holds PeerTracker's mutex
  manager_views,       \* StorageFileView: manager name -> files
  handler,             \* thread -> state of the handler that serves its call
  master_up,           \* the master's process is running
  epoch,               \* how many master processes have terminated
  forwarded            \* every request the masters have sent to clients

trackerVars == <<name_to_peer, connection_to_peer, tracker_mutex>>
processVars == <<master_up, epoch>>
masterVars == <<trackerVars, manager_views, handler, processVars, forwarded>>

ASSUME MasterAssumption ==
  /\ NoThread \notin Threads /\ Addressees \subseteq Names
  /\ MaxRestarts \in Nat /\ MaxForwards \in Nat

-----------------------------------------------------------------------------
(* States of a handler. *)

(* A Peer is the introduction it was made from: its name and rpc_uri are   *)
(* GenerateName and Uri of it, and its connection is its own channel.      *)
Peers == Managers \cup Clients

Statuses == {"OK", "UNKNOWN", "UNAVAILABLE"}

FileViews == UNION {[N -> SUBSET Keys] : N \in SUBSET Names}

ViewReplies == UNION {[N -> [key: SUBSET Keys, uri: Uris]] : N \in SUBSET Names}

UriMaps(rule) == UNION {[S -> Uris] : S \in SUBSET Slots(rule)}

RuleRpcs == {"InstallRule", "RemoveRule"}

Idle == [pc |-> "idle"]

Replied(status) == [pc |-> "replied", status |-> status]

Answered(t) == handler[t].pc \in {"replied", "viewed"}

IntroduceHandlers ==
  [pc: {"AddPeer", "AddingPeer", "AddManager", "AddFiles"}, peer: Peers, file: SUBSET Keys]

RuleHandlers ==
  [pc: {"FindClient"}, rpc: RuleRpcs, client: Names, rule: Rules]
    \cup UNION {[pc: {"FillInRule"}, rpc: RuleRpcs, client: Names, to: Peers, rule: {r},
                uri: UriMaps(r)] : r \in Rules}

HandlerStates ==
  {Idle} \cup {Replied(s) : s \in Statuses}
    \cup IntroduceHandlers
    \cup RuleHandlers
    \cup [pc: {"StorageChange", "RemoveFromDst"}, change: Seq(Actions)]
    \cup [pc: {"PopulateFiles"}]
    \cup [pc: {"PopulateUris"}, view: FileViews]
    \cup [pc: {"viewed"}, view: ViewReplies]

-----------------------------------------------------------------------------
MasterInit ==
  /\ name_to_peer = EmptyMap
  /\ connection_to_peer = EmptyMap
  /\ tracker_mutex = NoThread
  /\ manager_views = EmptyMap
  /\ handler = [t \in Threads |-> Idle]
  /\ master_up = TRUE
  /\ epoch = 0
  /\ forwarded = {}

Become(t, state) == handler' = [handler EXCEPT ![t] = state]

(* A request reaches the master: its handler starts. *)
Receive(t, state) ==
  /\ master_up
  /\ handler[t] = Idle
  /\ Become(t, state)
  /\ UNCHANGED <<trackerVars, manager_views, processVars, forwarded>>

(* The master's process dies: its maps are gone, and whoever waits for one *)
(* of its handlers sees the connection break.  A rule that a handler has   *)
(* sent to a client is there before the master dies, or never.             *)
Terminate ==
  /\ master_up
  /\ epoch < MaxRestarts
  /\ master_up' = FALSE
  /\ epoch' = epoch + 1
  /\ name_to_peer' = EmptyMap
  /\ connection_to_peer' = EmptyMap
  /\ tracker_mutex' = NoThread
  /\ manager_views' = EmptyMap
  /\ handler' = [t \in Threads |->
                   IF handler[t] = Idle \/ Answered(t) THEN handler[t] ELSE Replied("UNAVAILABLE")]
  /\ UNCHANGED forwarded

MasterStart ==
  /\ ~master_up
  /\ master_up' = TRUE
  /\ UNCHANGED <<trackerVars, manager_views, handler, epoch, forwarded>>

(* What an exception in a handler does is up to the gRPC build: it answers *)
(* the call with UNKNOWN, or nobody catches it.                            *)
Throw(t) ==
  \/ /\ Become(t, Replied("UNKNOWN"))
     /\ UNCHANGED <<trackerVars, manager_views, processVars, forwarded>>
  \/ Terminate

-----------------------------------------------------------------------------
(* Introduce. *)

(* Mutant: a manager gets a view and no peer. *)
ReceiveIntroduceUntracked(t, i, file) ==
  Receive(t, IF i \in Peers
             THEN [pc |-> IF i \in Managers THEN "AddManager" ELSE "AddPeer", peer |-> i, file |-> file]
             ELSE Replied("OK"))

ReceiveIntroduce(t, i, file) ==
  Receive(t, IF i \in Peers THEN [pc |-> "AddPeer", peer |-> i, file |-> file] ELSE Replied("OK"))

(* Mutant: AddPeer without the lock. *)
LockTrackerUnguarded(t) ==
  /\ handler[t].pc = "AddPeer"
  /\ tracker_mutex' = t
  /\ Become(t, [handler[t] EXCEPT !.pc = "AddingPeer"])
  /\ UNCHANGED <<name_to_peer, connection_to_peer, manager_views, processVars, forwarded>>

LockTracker(t) ==
  /\ handler[t].pc = "AddPeer"
  /\ tracker_mutex = NoThread
  /\ tracker_mutex' = t
  /\ Become(t, [handler[t] EXCEPT !.pc = "AddingPeer"])
  /\ UNCHANGED <<name_to_peer, connection_to_peer, manager_views, processVars, forwarded>>

AddPeer(t) ==
  LET p == handler[t].peer IN
  /\ handler[t].pc = "AddingPeer"
  /\ name_to_peer' = Bind(name_to_peer, GenerateName(p), p)
  /\ connection_to_peer' = Bind(connection_to_peer, p, p)
  /\ tracker_mutex' = NoThread
  /\ Become(t, IF p \in Managers THEN [handler[t] EXCEPT !.pc = "AddManager"] ELSE Replied("OK"))
  /\ UNCHANGED <<manager_views, processVars, forwarded>>

AddManager(t) ==
  /\ handler[t].pc = "AddManager"
  /\ manager_views' = Bind(manager_views, GenerateName(handler[t].peer), {})
  /\ Become(t, [handler[t] EXCEPT !.pc = "AddFiles"])
  /\ UNCHANGED <<trackerVars, processVars, forwarded>>

(* operator[] of the map gives a name that has no view an empty one. *)
ViewOf(n) == IF n \in DOMAIN manager_views THEN manager_views[n] ELSE {}

AddFileToManager(n, key) == manager_views' = Bind(manager_views, n, ViewOf(n) \cup {key})

(* Mutant: the file is removed from a copy of the view. *)
RemoveFileFromCopy(n, key) == manager_views' = Bind(manager_views, n, ViewOf(n))

RemoveFileFromManager(n, key) == manager_views' = Bind(manager_views, n, ViewOf(n) \ {key})

AddFile(t) ==
  /\ handler[t].pc = "AddFiles"
  /\ \E key \in handler[t].file :
       /\ AddFileToManager(GenerateName(handler[t].peer), key)
       /\ Become(t, [handler[t] EXCEPT !.file = @ \ {key}])
  /\ UNCHANGED <<trackerVars, processVars, forwarded>>

FinishIntroduce(t) ==
  /\ handler[t].pc = "AddFiles"
  /\ handler[t].file = {}
  /\ Become(t, Replied("OK"))
  /\ UNCHANGED <<trackerVars, manager_views, processVars, forwarded>>

-----------------------------------------------------------------------------
(* StorageChange: the view_mutex is released between any two updates. *)

ChangeHandler(change) == [pc |-> "StorageChange", change |-> change]

ReceiveStorageChange(t, change) == Receive(t, ChangeHandler(change))

ApplyChange(t) ==
  LET change == handler[t].change
      a == Head(change) IN
  /\ handler[t].pc = "StorageChange"
  /\ change # <<>>
  /\ \/ /\ a.type = "copy_from"
        /\ AddFileToManager(a.mgrs[1], a.key)
        /\ Become(t, [handler[t] EXCEPT !.pc = "RemoveFromDst"])
     \/ /\ a.type = "remove"
        /\ RemoveFileFromManager(a.mgrs[1], a.key)
        /\ Become(t, ChangeHandler(Tail(change)))
     \/ /\ a.type = "put"
        /\ AddFileToManager(a.mgrs[1], a.key)
        /\ Become(t, ChangeHandler(Tail(change)))
     \/ /\ a.type \in {"get", "not_set"}
        /\ Become(t, ChangeHandler(Tail(change)))
        /\ UNCHANGED manager_views
  /\ UNCHANGED <<trackerVars, processVars, forwarded>>

RemoveFromDst(t) ==
  LET a == Head(handler[t].change) IN
  /\ handler[t].pc = "RemoveFromDst"
  /\ RemoveFileFromManager(a.mgrs[2], a.key)
  /\ Become(t, ChangeHandler(Tail(handler[t].change)))
  /\ UNCHANGED <<trackerVars, processVars, forwarded>>

FinishStorageChange(t) ==
  /\ handler[t].pc = "StorageChange"
  /\ handler[t].change = <<>>
  /\ Become(t, Replied("OK"))
  /\ UNCHANGED <<trackerVars, manager_views, processVars, forwarded>>

-----------------------------------------------------------------------------
(* InstallRule and RemoveRule.  GetPeerFromName does not take              *)
(* tracker_mutex.  While AddPeer writes the map, a lookup may find the old *)
(* or the new peer, find nothing, or crash the process.                    *)

ReceiveRule(t, rpc, client, rule) ==
  Receive(t, [pc |-> "FindClient", rpc |-> rpc, client |-> client, rule |-> rule])

BeingAdded == {handler[u].peer : u \in {v \in Threads : handler[v].pc = "AddingPeer"}}

(* Mutant: the lookup takes any connection. *)
PeersFoundAnywhere(n) == {connection_to_peer[c] : c \in DOMAIN connection_to_peer}

PeersFound(n) ==
  {name_to_peer[m] : m \in DOMAIN name_to_peer \cap {n}}
    \cup {p \in BeingAdded : GenerateName(p) = n}

MayMiss(n) == n \notin DOMAIN name_to_peer \/ tracker_mutex # NoThread

FindClient(t) ==
  LET h == handler[t] IN
  /\ h.pc = "FindClient"
  /\ \/ \E p \in PeersFound(h.client) :
          /\ Become(t, [pc |-> "FillInRule", rpc |-> h.rpc, client |-> h.client, to |-> p,
                        rule |-> h.rule, uri |-> EmptyMap])
          /\ UNCHANGED <<trackerVars, manager_views, processVars, forwarded>>
     \/ MayMiss(h.client) /\ Throw(t)

(* The order in which FillInRule visits the slots of a rule. *)
UpTo(r, s) == r[1] < s[1] \/ (r[1] = s[1] /\ r[2] <= s[2])

(* Mutant: the peer that was looked up first is used for every slot. *)
FillInRuleReusingPeer(t) ==
  LET h == handler[t] IN
  /\ h.pc = "FillInRule"
  /\ h.rpc = "InstallRule"
  /\ \E s \in Slots(h.rule) \ DOMAIN h.uri, p \in PeersFound(NameAt(h.rule, <<1, 1>>)) :
       Become(t, [h EXCEPT !.uri = Bind(@, s, Uri(p))])
  /\ UNCHANGED <<trackerVars, manager_views, processVars, forwarded>>

FillInRule(t) ==
  LET h == handler[t]
      unfilled == Slots(h.rule) \ DOMAIN h.uri IN
  /\ h.pc = "FillInRule"
  /\ h.rpc = "InstallRule"
  /\ \E s \in unfilled :
       /\ \A r \in unfilled : UpTo(s, r)
       /\ \/ \E p \in PeersFound(NameAt(h.rule, s)) :
               /\ Become(t, [h EXCEPT !.uri = Bind(@, s, Uri(p))])
               /\ UNCHANGED <<trackerVars, manager_views, processVars, forwarded>>
          \/ MayMiss(NameAt(h.rule, s)) /\ Throw(t)

(* Mutant: the rule is sent before it is filled in. *)
ForwardUnfilled(t, status) ==
  LET h == handler[t] IN
  /\ h.pc = "FillInRule"
  /\ forwarded' = forwarded \cup
       {[rpc |-> h.rpc, client |-> h.client, to |-> h.to, rule |-> h.rule, uri |-> h.uri,
         epoch |-> epoch]}
  /\ Become(t, Replied(status))
  /\ UNCHANGED <<trackerVars, manager_views, processVars>>

(* The handler calls the client and answers with the status of that call,  *)
(* UNAVAILABLE when the client's server is not there to answer.            *)
Forward(t, status) ==
  LET h == handler[t] IN
  /\ h.pc = "FillInRule"
  /\ h.rpc = "InstallRule" => DOMAIN h.uri = Slots(h.rule)
  /\ forwarded' = forwarded \cup
       {[rpc |-> h.rpc, client |-> h.client, to |-> h.to, rule |-> h.rule, uri |-> h.uri,
         epoch |-> epoch]}
  /\ Become(t, Replied(status))
  /\ UNCHANGED <<trackerVars, manager_views, processVars>>

-----------------------------------------------------------------------------
(* GetView: the files under view_mutex, then the uris under tracker_mutex. *)

ReceiveGetView(t) == Receive(t, [pc |-> "PopulateFiles"])

PopulateFiles(t) ==
  /\ handler[t].pc = "PopulateFiles"
  /\ Become(t, [pc |-> "PopulateUris", view |-> manager_views])
  /\ UNCHANGED <<trackerVars, manager_views, processVars, forwarded>>

PopulateUris(t) ==
  LET view == handler[t].view IN
  /\ handler[t].pc = "PopulateUris"
  /\ tracker_mutex = NoThread
  /\ \/ /\ DOMAIN view \subseteq DOMAIN name_to_peer
        /\ Become(t, [pc |-> "viewed",
                      view |-> [n \in DOMAIN view |->
                                  [key |-> view[n], uri |-> Uri(name_to_peer[n])]]])
        /\ UNCHANGED <<trackerVars, manager_views, processVars, forwarded>>
     \/ ~(DOMAIN view \subseteq DOMAIN name_to_peer) /\ Throw(t)

(* The caller takes the answer. *)
Consume(t) ==
  /\ Answered(t)
  /\ Become(t, Idle)
  /\ UNCHANGED <<trackerVars, manager_views, processVars, forwarded>>

(* The caller's process dies, and another one may call as t: the handler   *)
(* goes on, as thread o, and its answer is lost.                           *)
Abandon(t, o) ==
  /\ handler[t] # Idle
  /\ handler[o] = Idle
  /\ handler' = [handler EXCEPT ![o] = handler[t], ![t] = Idle]
  /\ tracker_mutex' = IF tracker_mutex = t THEN o ELSE tracker_mutex
  /\ UNCHANGED <<name_to_peer, connection_to_peer, manager_views, processVars, forwarded>>

-----------------------------------------------------------------------------
(* The master with callers that send every request it has a handler for.   *)

HandlerStep(t) ==
  \/ LockTracker(t)
  \/ AddPeer(t)
  \/ AddManager(t)
  \/ AddFile(t)
  \/ FinishIntroduce(t)
  \/ ApplyChange(t)
  \/ RemoveFromDst(t)
  \/ FinishStorageChange(t)
  \/ FindClient(t)
  \/ FillInRule(t)
  \/ PopulateFiles(t)
  \/ PopulateUris(t)

(* The first k actions without those that are not set: n positions, and    *)
(* the sequence of the actions at them.                                    *)
Positions(action, k, n) ==
  {pos \in [1..n -> 1..k] :
     /\ \A i, j \in 1..n : i < j => pos[i] < pos[j]
     /\ \A i \in 1..k : action[i].type # "not_set" <=> \E j \in 1..n : pos[j] = i}

Selections(action, k) ==
  UNION {{[j \in 1..n |-> action[pos[j]]] : pos \in Positions(action, k, n)} : n \in 0..k}

(* A client reports the first actions of a rule it was sent, by this master *)
(* or by one before it; the actions that are not set it skips.             *)
MasterRequest(t) ==
  /\ handler[t] = Idle
  /\ \/ \E i \in Introducers, file \in SUBSET Keys :
          /\ i \in Managers \/ file = {}
          /\ ReceiveIntroduce(t, i, file)
     \/ \E f \in {g \in forwarded : g.rpc = "InstallRule"} : \E k \in 0..Len(f.rule.action) :
          \E change \in Selections(f.rule.action, k) : ReceiveStorageChange(t, change)
     \/ /\ Cardinality(forwarded) < MaxForwards
        /\ \E rpc \in RuleRpcs, client \in Addressees, rule \in Rules :
             ReceiveRule(t, rpc, client, rule)
     \/ ReceiveGetView(t)

MasterNext ==
  \/ \E t \in Threads :
       \/ HandlerStep(t)
       \/ \E status \in {"OK", "UNAVAILABLE"} : Forward(t, status)
       \/ Consume(t)
       \/ \E o \in Threads : Abandon(t, o)
       \/ MasterRequest(t)
  \/ Terminate
  \/ MasterStart

MasterSpec == MasterInit /\ [][MasterNext]_masterVars

-----------------------------------------------------------------------------
(* Every variable has its type, and tracker_mutex is held by the handler   *)
(* that is inside AddPeer, if any (code: std::lock_guard in AddPeer).      *)
MasterTypeOK ==
  /\ DOMAIN name_to_peer \subseteq Names
  /\ \A n \in DOMAIN name_to_peer : name_to_peer[n] \in Peers
  /\ DOMAIN connection_to_peer \subseteq Peers
  /\ \A c \in DOMAIN connection_to_peer : connection_to_peer[c] = c
  /\ DOMAIN manager_views \subseteq Names
  /\ manager_views \in [DOMAIN manager_views -> SUBSET Keys]
  /\ handler \in [Threads -> HandlerStates]
  /\ \A t \in Threads : tracker_mutex = t <=> handler[t].pc = "AddingPeer"
  /\ tracker_mutex \in Threads \cup {NoThread}
  /\ master_up \in BOOLEAN
  /\ epoch \in 0..MaxRestarts
  /\ \A f \in forwarded :
       /\ f = [rpc |-> f.rpc, client |-> f.client, to |-> f.to, rule |-> f.rule,
               uri |-> f.uri, epoch |-> f.epoch]
       /\ f.rpc \in RuleRpcs /\ f.client \in Names /\ f.to \in Peers /\ f.rule \in Rules
       /\ f.uri \in UriMaps(f.rule) /\ f.epoch \in 0..epoch

(* A name the running master knows, or is just being told.                 *)
Known == DOMAIN name_to_peer \cup {GenerateName(p) : p \in BeingAdded}

(* GetView looks every viewed name up with name_to_peer_.at.  A viewed     *)
(* name without a peer can only be a leftover: a client reported a change  *)
(* under a rule that was filled in by an earlier master process.           *)
OrphansComeFromOldRules ==
  \A n \in DOMAIN manager_views \ Known :
    \E f \in forwarded : f.epoch < epoch /\ n \in NamesOf(f.rule)

(* In particular GetView answers every caller as long as the master has    *)
(* never restarted: the files and the peers are read in two critical       *)
(* sections, and no interleaving with introductions, rules and changes     *)
(* makes the lookup of a viewed name throw.                                *)
GetViewAnswers ==
  epoch = 0 =>
    \A t \in Threads : handler[t].pc = "PopulateUris" /\ tracker_mutex = NoThread =>
      DOMAIN handler[t].view \subseteq DOMAIN name_to_peer

(* The uri that the master writes next to a manager's name, in a rule it   *)
(* forwards or in a view it returns, is one at which a peer of that name   *)
(* introduced itself, and a rule goes to a client of the name it was       *)
(* addressed to: lookups and introductions may interleave in any way.      *)
RoutesAreTrue ==
  /\ \A f \in forwarded :
       /\ GenerateName(f.to) = f.client
       /\ \A s \in DOMAIN f.uri :
            \E p \in Peers : GenerateName(p) = NameAt(f.rule, s) /\ Uri(p) = f.uri[s]
  /\ \A t \in Threads : handler[t].pc = "viewed" =>
       \A n \in DOMAIN handler[t].view :
         \E p \in Peers : GenerateName(p) = n /\ Uri(p) = handler[t].view[n].uri

(* The invariant behind the three above.  A name is vouched for when the   *)
(* running master knows it or an earlier one put it into a rule; every name *)
(* that can still reach manager_views is.                                  *)
Vouched(n) ==
  n \in Known \/ \E f \in forwarded : f.epoch < epoch /\ n \in NamesOf(f.rule)

RouteOf(n, uri) == \E p \in Peers : GenerateName(p) = n /\ Uri(p) = uri

HandlerInv(h) ==
  /\ h.pc \in {"AddManager", "AddFiles"} => GenerateName(h.peer) \in DOMAIN name_to_peer
  /\ h.pc \in {"StorageChange", "RemoveFromDst"} => \A n \in NamesIn(h.change) : Vouched(n)
  /\ h.pc = "RemoveFromDst" => h.change # <<>> /\ Head(h.change).type = "copy_from"
  /\ h.pc = "FillInRule" =>
       /\ GenerateName(h.to) = h.client
       /\ \A s \in DOMAIN h.uri : NameAt(h.rule, s) \in Known /\ RouteOf(NameAt(h.rule, s), h.uri[s])
  /\ h.pc = "PopulateUris" => \A n \in DOMAIN h.view : Vouched(n)
  /\ h.pc = "viewed" => \A n \in DOMAIN h.view : RouteOf(n, h.view[n].uri)

ForwardedInv(f) ==
  /\ f.epoch = epoch /\ f.rpc = "InstallRule" => NamesOf(f.rule) \subseteq Known
  /\ GenerateName(f.to) = f.client
  /\ \A s \in DOMAIN f.uri : RouteOf(NameAt(f.rule, s), f.uri[s])

MasterInv ==
  /\ MasterTypeOK
  /\ \A n \in DOMAIN name_to_peer : GenerateName(name_to_peer[n]) = n
  /\ \A n \in DOMAIN manager_views : Vouched(n)
  /\ \A t \in Threads : HandlerInv(handler[t])
  /\ \A f \in forwarded : ForwardedInv(f)

(* What storage_master.h:17 says of PeerTracker, a "Thread safe data       *)
(* structure": no handler looks a name up while another writes the map.    *)
PeerTrackerThreadSafe ==
  [][\A t \in Threads :
       handler[t].pc \in {"FindClient", "FillInRule"} /\ handler'[t] # handler[t]
         /\ handler'[t].pc = "FillInRule"
       => tracker_mutex = NoThread]_masterVars

=============================================================================
