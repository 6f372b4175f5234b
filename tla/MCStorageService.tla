-------------------------- MODULE MCStorageService --------------------------
(***************************************************************************)
(* The set-up of the end-to-end test: two managers on RocksDB, whose hosts *)
(* are spelled differently so that their names differ, one client, and     *)
(* rules for one key.  Each configuration picks the rules that are         *)
(* installed and the calls that are made.                                  *)
(***************************************************************************)
EXTENDS StorageService, TLC

Manager(host, port) ==
  [introduce_case |-> "storage_manager", storage_name |-> "EPHEMERAL",
   storage_type |-> "MANAGED", rpc_hostname |-> host, rpc_port |-> port]

Manager1 == Manager("localhost", "50055")
Manager2 == Manager("127.0.0.1", "50056")
Client == [introduce_case |-> "storage_client", rpc_hostname |-> "localhost", rpc_port |-> "50058"]

OtherClient == [Client EXCEPT !.rpc_hostname = "127.0.0.1"]

TwoManagers == {Manager1, Manager2, Client}
TwoClients == TwoManagers \cup {OtherClient}

MCNames == {GenerateName(i) : i \in Introducers}
ClientNames == {GenerateName(c) : c \in Clients}

Name1 == GenerateName(Manager1)
Name2 == GenerateName(Manager2)

-----------------------------------------------------------------------------
(* Rules. *)

Do(type, mgrs) == [type |-> type, key |-> "key1", mgrs |-> mgrs]

PutRule(actions) == [op_type |-> "PUT", key |-> "key1", action |-> actions]
GetRule(actions) == [op_type |-> "GET", key |-> "key1", action |-> actions]

CopyTo2 == Do("copy_from", <<Name2, Name1>>)
Put1 == Do("put", <<Name1>>)
Put2 == Do("put", <<Name2>>)
Remove1 == Do("remove", <<Name1>>)
Get1 == Do("get", <<Name1>>)
Get2 == Do("get", <<Name2>>)

InstallAt(c, rule) == [rpc |-> "InstallRule", client |-> GenerateName(c), rule |-> rule]
Install(rules) == {InstallAt(Client, r) : r \in rules}
Remove(rules) == {[InstallAt(Client, r) EXCEPT !.rpc = "RemoveRule"] : r \in rules}

(* Calls.  "value" also tells two Gets apart. *)
Put(value) == [client |-> Client, op |-> "PUT", key |-> "key1", value |-> value]
Get(id) == [client |-> Client, op |-> "GET", key |-> "key1", value |-> id]

MCThreads == Peers \cup Calls \cup Operators \cup Viewers \cup Abandoned

FileAt1 ==
  [m \in Managers |-> IF m = Manager1 THEN [k \in {"key1"} |-> "value0"] ELSE EmptyMap]

NoFiles == [m \in Managers |-> EmptyMap]

Refusing == {Manager2}

TheClient == {Client}
CopierAndClient == {Manager2, Client}

-----------------------------------------------------------------------------
(* The scenarios: rules, the requests to install them, and calls.          *)

(* The end-to-end test: put at one manager, move to the other when read. *)
MoveRules == {PutRule(<<Put1>>), GetRule(<<CopyTo2, Remove1, Get2>>)}
MoveInstalls == Install(MoveRules)
PutAndGet == {Put("value1"), Get("")}
TwoPutsAndGet == {Put("value0"), Put("value1"), Get("")}

(* Replicas: put at both managers, read from one. *)
BothRules == {PutRule(<<Put1, Put2>>), GetRule(<<Get1>>)}
BothInstalls == Install(BothRules)

(* The same with a client that puts and another that gets. *)
SplitInstalls ==
  {InstallAt(Client, PutRule(<<Put1, Put2>>)), InstallAt(OtherClient, GetRule(<<Get1>>))}
PutHereGetThere == {Put("value0"), Put("value1"), [Get("") EXCEPT !.client = OtherClient]}

(* A copy that leaves the original where it is. *)
CopyRules == {GetRule(<<CopyTo2, Get2>>)}
CopyInstalls == Install(CopyRules)
OneGet == {Get("")}

(* A Put that clears another manager. *)
ClearRules == {PutRule(<<Do("remove", <<Name2>>), Put1>>)}
ClearInstalls == Install(ClearRules)
OnePut == {Put("value1")}

(* Rules that the switches and asserts of Get and Put do not let through;  *)
(* they are rejected before they have changed anything.                    *)
MoveAndOddRules ==
  MoveRules \cup {PutRule(<<Do("not_set", <<>>), Get1>>), GetRule(<<Put1, Get1>>),
                  GetRule(<<CopyTo2>>)}
MoveAndOddInstalls == Install(MoveAndOddRules)

(* A copy, a Put that is rejected half-way, and the removal of a rule. *)
CopyAndFallRules == {PutRule(<<Put1, Remove1>>), GetRule(<<CopyTo2, Get2>>)}
CopyAndFallInstalls == Install(CopyAndFallRules) \cup Remove({GetRule(<<CopyTo2, Get2>>)})

-----------------------------------------------------------------------------
(* What the theorems ask of the constants holds in the set-ups whose runs  *)
(* check the same properties.                                              *)
ASSUME SetUps ==
  /\ NamesTellApart
  /\ Rules = MoveRules => FilesMoveOnce
  /\ Rules = BothRules => RulesPlace /\ (Faulty = {} => ManagersKeepFiles)
  /\ Rules \in {MoveRules, BothRules} /\ MaxRestarts = 0 => RulesAccepted
  /\ Rules = MoveAndOddRules => OneCallAtATime

=============================================================================
