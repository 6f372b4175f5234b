--------------------------- MODULE MCStorageMaster ---------------------------
(***************************************************************************)
(* Two threads; a manager that comes back on the same host under another   *)
(* port, a second manager, one client, and a rule that copies a file from  *)
(* the first manager to the second when it is read.                        *)
(***************************************************************************)
EXTENDS StorageMaster, TLC

Manager(host, port) ==
  [introduce_case |-> "storage_manager", storage_name |-> "EPHEMERAL",
   storage_type |-> "MANAGED", rpc_hostname |-> host, rpc_port |-> port]

Client(host, port) ==
  [introduce_case |-> "storage_client", rpc_hostname |-> host, rpc_port |-> port]

OnePort ==
  {Manager("localhost", "50055"), Manager("127.0.0.1", "50056"), Client("localhost", "50058"),
   [introduce_case |-> "not_set"]}

TwoPorts == OnePort \cup {Manager("localhost", "50057")}

MCNames == {GenerateName(i) : i \in OnePort}
ClientNames == {GenerateName(Client("localhost", "50058"))}

Manager1 == GenerateName(Manager("localhost", "50055"))
Manager2 == GenerateName(Manager("127.0.0.1", "50056"))

Do(type, key, mgrs) == [type |-> type, key |-> key, mgrs |-> mgrs]

CopyRule ==
  [op_type |-> "GET", key |-> "key1",
   action |-> <<Do("copy_from", "key1", <<Manager2, Manager1>>), Do("get", "key1", <<Manager2>>)>>]

MCRules == {CopyRule}

MCSymmetry == Permutations(Threads)

=============================================================================
