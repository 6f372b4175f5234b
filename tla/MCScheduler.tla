----------------------------- MODULE MCScheduler -----------------------------
(***************************************************************************)
(* Two hosts with a client and an ephemeral manager each, and a third with *)
(* a persistent manager; an engine that comes back on another port of its  *)
(* host, and one on the other host.                                        *)
(***************************************************************************)
EXTENDS Scheduler

Manager(name, host) ==
  [introduce_case |-> "storage_manager", storage_name |-> name,
   storage_type |-> "MANAGED", rpc_hostname |-> host, rpc_port |-> "50055"]

Client(host) ==
  [introduce_case |-> "storage_client", rpc_hostname |-> host, rpc_port |-> "50058"]

ManagerA == Manager("EPHEMERAL", "host1")
ManagerB == Manager("EPHEMERAL", "host2")
Persistent == Manager("FAKE_PERSISTANT", "host3")

MCIntroducers == {ManagerA, ManagerB, Persistent, Client("host1"), Client("host2")}

MCNames == {GenerateName(i) : i \in Introducers}

Engine(host, port, tasks) ==
  [rpc_uri |-> <<host, port>>, client_rpc_uri |-> <<host, "50058">>, maximum_tasks |-> tasks]

ThreeEngines == {Engine("host1", "1", 1), Engine("host1", "2", 1), Engine("host2", "1", 2)}

OneEngine == {Engine("host1", "1", 1)}

(* The views grow, move a file, and lose a client. *)
Files(managers, key) == [m \in managers |-> IF m = Persistent THEN {} ELSE {key}]

GrowingViews ==
  {[view |-> [m \in {ManagerA} |-> {"key1"}], client |-> {}],
   [view |-> [m \in {ManagerA, Persistent} |-> {"key1"}], client |-> {Client("host1")}],
   [view |-> [m \in {ManagerB, Persistent} |-> {}], client |-> {Client("host1"), Client("host2")}]}

FullViews ==
  {[view |-> [m \in {ManagerA, ManagerB} |-> {"key1"}], client |-> {Client("host1"), Client("host2")}]}

Task(input, output) == [input_file |-> input, output_file |-> output]

MCTasks == {Task("key1", "none"), Task("none", "key2")}

=============================================================================
