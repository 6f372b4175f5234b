------------------------------ MODULE Protocol ------------------------------
(***************************************************************************)
(* The messages of proto/common.proto and proto/storage_service.proto, and *)
(* the naming scheme the storage master derives from them.  A message is a *)
(* record with the fields of its proto; the text of keys, values and       *)
(* addresses is abstracted to members of constant sets.                    *)
(***************************************************************************)
EXTENDS Naturals, Sequences, Functions

CONSTANTS
  Introducers,  \* IntroduceRequest of every process, without its file list
  Names,        \* every name a message can mention, whether or not it is known
  Keys,         \* file keys
  Rules,        \* the rules that are installed, as the caller writes them
  Threads       \* the threads that call servers, one RPC at a time

-----------------------------------------------------------------------------
(* Finite maps, for std::unordered_map. *)

EmptyMap == [x \in {} |-> x]

Bind(f, x, v) == [y \in DOMAIN f \cup {x} |-> IF y = x THEN v ELSE f[y]]

Unbind(f, x) == Restrict(f, DOMAIN f \ {x})

-----------------------------------------------------------------------------
(* The oneof of IntroduceRequest. *)

Managers == {i \in Introducers : i.introduce_case = "storage_manager"}

Clients == {i \in Introducers : i.introduce_case = "storage_client"}

(* The name of a peer leaves its port out: two managers of one medium on   *)
(* one host have the same name.                                            *)
GenerateName(i) ==
  CASE i.introduce_case = "storage_manager" ->
         <<"manager", i.storage_name, i.storage_type, i.rpc_hostname>>
    [] i.introduce_case = "storage_client" -> <<"client", i.rpc_hostname>>
    [] OTHER -> <<"INVALID">>

Uri(i) == <<i.rpc_hostname, i.rpc_port>>

Uris == {Uri(i) : i \in Managers \cup Clients}

-----------------------------------------------------------------------------
(* The oneof of Action.  "mgrs" holds the names of the Manager messages of *)
(* the action: src_mgr and dst_mgr of a copy, the one mgr of the others.   *)
Actions ==
  [type: {"get", "remove", "put"}, key: Keys, mgrs: [1..1 -> Names]]
    \cup [type: {"copy_from"}, key: Keys, mgrs: [1..2 -> Names]]
    \cup [type: {"not_set"}, key: Keys, mgrs: {<<>>}]

(* The places of a rule that name a manager: <<i, j>> is the j-th Manager  *)
(* message of its i-th action.                                             *)
Slots(rule) ==
  {s \in (DOMAIN rule.action) \X (1..2) : s[2] \in DOMAIN rule.action[s[1]].mgrs}

NameAt(rule, s) == rule.action[s[1]].mgrs[s[2]]

NamesOf(rule) == {NameAt(rule, s) : s \in Slots(rule)}

(* The names a sequence of actions mentions. *)
NamesIn(change) ==
  UNION {{change[i].mgrs[j] : j \in DOMAIN change[i].mgrs} : i \in DOMAIN change}

-----------------------------------------------------------------------------
ASSUME NamesAssumption == \A i \in Introducers : GenerateName(i) \in Names

ASSUME RulesAssumption ==
  Rules \subseteq [op_type: {"GET", "PUT"}, key: Keys, action: Seq(Actions)]

=============================================================================
