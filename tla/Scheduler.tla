------------------------------ MODULE Scheduler ------------------------------
(***************************************************************************)
(* The scheduler: its owner, who calls Start and Stop in turn, the control *)
(* thread, and the Introduce handler, which writes the system view while   *)
(* the control thread reads it.                                            *)
(*                                                                         *)
(* JobView is a class of empty functions.  How many tasks GetPendingTasks  *)
(* returns, and which job and task belong to an id, is therefore an input: *)
(* Pending = {0} is the repository as it is.  So is the caller of          *)
(* ParseGetViewReply, which is missing: Refreshes = {} is the repository   *)
(* as it is.                                                               *)
(***************************************************************************)
EXTENDS ServerlessSystemView

CONSTANTS
  Tasks,         \* what GetTaskData may return: records [input_file, output_file]
  NoFile,        \* the empty file name
  Pending,       \* how many tasks GetPendingTasks may return
  Refreshes,     \* views that somebody parses into the system view
  MaxScheduled   \* bound: no tasks are pending after so many were scheduled

VARIABLES
  lifecycle,  \* how far the owner is with Start and Stop; "terminated": the process has ended
  running,    \* running_
  control     \* state of the control thread

schedulerVars == <<viewVars, lifecycle, running, control>>

ASSUME SchedulerAssumption ==
  /\ Tasks \subseteq [input_file: Keys \cup {NoFile}, output_file: Keys \cup {NoFile}]
  /\ NoFile \notin Keys
  /\ 0 \in Pending /\ Pending \subseteq Nat /\ MaxScheduled \in Nat
  /\ Refreshes \subseteq MasterViews

NoTask == [input_file |-> NoFile, output_file |-> NoFile]

EmptyDecision == [engine |-> NoName, task |-> NoTask, rules |-> <<>>]

(* The states of the control thread are the places in its loop where it    *)
(* locks something or calls somebody; tasks counts the pending ones that   *)
(* are not scheduled yet.                                                  *)
ControlStates ==
  [pc: {"none", "read_running", "fetch_view", "returned"}]
    \cup [pc: {"get_pending"}, view_reply: MasterViews]
    \cup [pc: {"get_engines"}, tasks: Nat]
    \cup [pc: {"next_engine"}, tasks: Nat, engines: SUBSET EngineNames,
          decisions: Seq({EmptyDecision})]
    \cup [pc: {"next_task"}, tasks: Nat, engines: SUBSET EngineNames,
          decisions: Seq({EmptyDecision}), available: Int]
    \cup [pc: {"count", "execute"}, decisions: Seq({EmptyDecision})]

SchedulerInit ==
  /\ ViewInit
  /\ lifecycle = "stopped"
  /\ running = FALSE
  /\ control = [pc |-> "none"]

-----------------------------------------------------------------------------
(* Start and Stop.  The server answers before the thread runs, and until   *)
(* it has been joined.                                                     *)

StartServer ==
  /\ lifecycle = "stopped"
  /\ lifecycle' = "starting"
  /\ UNCHANGED <<viewVars, running, control>>

StartThread ==
  /\ lifecycle = "starting"
  /\ lifecycle' = "started"
  /\ running' = TRUE
  /\ control' = [pc |-> "read_running"]
  /\ UNCHANGED viewVars

StopRunning ==
  /\ lifecycle = "started"
  /\ lifecycle' = "stopping"
  /\ running' = FALSE
  /\ UNCHANGED <<viewVars, control>>

(* Mutant: the thread is detached. *)
DetachThread ==
  /\ lifecycle = "stopping"
  /\ lifecycle' = "joined"
  /\ UNCHANGED <<viewVars, running, control>>

JoinThread ==
  /\ lifecycle = "stopping"
  /\ control.pc = "returned"
  /\ lifecycle' = "joined"
  /\ control' = [pc |-> "none"]
  /\ UNCHANGED <<viewVars, running>>

ShutdownServer ==
  /\ lifecycle = "joined"
  /\ lifecycle' = "stopped"
  /\ UNCHANGED <<viewVars, running, control>>

OwnerStep == StartThread \/ JoinThread \/ ShutdownServer

(* Nobody catches what is thrown on the control thread: the process ends.  *)
Throw ==
  /\ lifecycle' = "terminated"
  /\ control' = [pc |-> "none"]
  /\ UNCHANGED <<viewVars, running>>

-----------------------------------------------------------------------------
(* SubmitJob and Done only call empty functions.                           *)

Introduce(i) ==
  /\ lifecycle \notin {"stopped", "terminated"}
  /\ AddExecutionEngine(i)
  /\ UNCHANGED <<lifecycle, running, control>>

Refresh(r) ==
  /\ lifecycle # "terminated"
  /\ ParseGetViewReply(r)
  /\ UNCHANGED <<lifecycle, running, control>>

-----------------------------------------------------------------------------
(* The control thread. *)

Goto(state) == control' = state /\ UNCHANGED <<lifecycle, running>>

(* Mutant: the local copy of running_ is not read again. *)
ReadRunningOnce ==
  /\ control.pc = "read_running"
  /\ Goto([pc |-> "fetch_view"])
  /\ UNCHANGED viewVars

ReadRunning ==
  /\ control.pc = "read_running"
  /\ Goto([pc |-> IF running THEN "fetch_view" ELSE "returned"])
  /\ UNCHANGED viewVars

(* It sleeps, and calls the master.  The reply, empty if the call fails,   *)
(* is a local variable that is not used.                                   *)
FetchView ==
  /\ control.pc = "fetch_view"
  /\ \E r \in MasterViews : Goto([pc |-> "get_pending", view_reply |-> r])
  /\ UNCHANGED viewVars

GetPendingTasks ==
  /\ control.pc = "get_pending"
  /\ \E n \in Pending :
       /\ n > 0 => StateOf(NoName).running_tasks + n <= MaxScheduled
       /\ Goto(IF n > 0 THEN [pc |-> "get_engines", tasks |-> n] ELSE [pc |-> "read_running"])
  /\ UNCHANGED viewVars

(* Schedule.  The tasks are sorted by what GetJobData returns, that is in  *)
(* any order.                                                              *)
ScheduleEngines ==
  /\ control.pc = "get_engines"
  /\ Goto([pc |-> "next_engine", tasks |-> control.tasks, engines |-> GetSchedulableEngines,
           decisions |-> <<>>])
  /\ UNCHANGED viewVars

ScheduleEngine(e) ==
  LET s == engine_to_state[e] IN
  /\ control.pc = "next_engine"
  /\ e \in control.engines
  /\ \/ /\ HasEngineState(e)
        /\ Goto([pc |-> "next_task", tasks |-> control.tasks, engines |-> control.engines \ {e},
                 decisions |-> control.decisions,
                 available |-> s.maximum_tasks - s.running_tasks])
        /\ UNCHANGED viewVars
     \/ ~HasEngineState(e) /\ Throw

(* Mutant: one more task than there is. *)
HasSpotAndTaskOrNone == control.available > 0 /\ control.tasks >= 0

HasSpotAndTask == control.available > 0 /\ control.tasks > 0

(* The rules for a task need a manager that has its input, and one for its *)
(* output: for the latter, the first entry of a map.                       *)
FilesAreKnown(task) ==
  /\ task.input_file # NoFile => HasPersistentMgrForFile(task.input_file)
  /\ task.output_file # NoFile => HasPersistentMgrForPut

(* The decision is appended empty, and a copy of it is filled in.          *)
ScheduleTask ==
  /\ control.pc = "next_task"
  /\ HasSpotAndTask
  /\ \E task \in Tasks :
       \/ /\ FilesAreKnown(task)
          /\ Goto([pc |-> "next_task", tasks |-> control.tasks - 1, engines |-> control.engines,
                   decisions |-> Append(control.decisions, EmptyDecision),
                   available |-> control.available - 1])
          /\ UNCHANGED viewVars
       \/ ~FilesAreKnown(task) /\ Throw

EngineScheduled ==
  /\ control.pc = "next_task"
  /\ ~HasSpotAndTask
  /\ Goto([pc |-> "next_engine", tasks |-> control.tasks, engines |-> control.engines,
           decisions |-> control.decisions])
  /\ UNCHANGED viewVars

AllScheduled ==
  /\ control.pc = "next_engine"
  /\ control.engines = {}
  /\ Goto([pc |-> "count", decisions |-> control.decisions])
  /\ UNCHANGED viewVars

CountDecisions ==
  /\ control.pc = "count"
  /\ TasksScheduled(control.decisions)
  /\ Goto([pc |-> "execute", decisions |-> control.decisions])

(* Execute.  Rules are installed for the client of the decision's engine,  *)
(* then the engine is called; no status is looked at.                      *)
ExecuteDecision ==
  /\ control.pc = "execute"
  /\ control.decisions # <<>>
  /\ \/ /\ HasEngineState(Head(control.decisions).engine)
        /\ Goto([pc |-> "execute", decisions |-> Tail(control.decisions)])
        /\ UNCHANGED viewVars
     \/ ~HasEngineState(Head(control.decisions).engine) /\ Throw

Executed ==
  /\ control.pc = "execute"
  /\ control.decisions = <<>>
  /\ Goto([pc |-> "read_running"])
  /\ UNCHANGED viewVars

ControlStep ==
  \/ ReadRunning
  \/ FetchView
  \/ GetPendingTasks
  \/ ScheduleEngines
  \/ \E e \in EngineNames : ScheduleEngine(e)
  \/ ScheduleTask
  \/ EngineScheduled
  \/ AllScheduled
  \/ CountDecisions
  \/ ExecuteDecision
  \/ Executed

SchedulerNext ==
  \/ StartServer \/ StopRunning \/ OwnerStep
  \/ \E i \in Engines : Introduce(i)
  \/ \E r \in Refreshes : Refresh(r)
  \/ ControlStep

SchedulerSpec == SchedulerInit /\ [][SchedulerNext]_schedulerVars

(* Threads that can go on do; the master's GetView returns or fails, as    *)
(* the call does not wait for a master that is not there.                  *)
LiveSchedulerSpec ==
  SchedulerSpec /\ WF_schedulerVars(OwnerStep) /\ WF_schedulerVars(ControlStep)

-----------------------------------------------------------------------------
(* Every variable has its type.                                            *)
SchedulerTypeOK ==
  /\ ViewTypeOK
  /\ lifecycle \in {"stopped", "starting", "started", "stopping", "joined", "terminated"}
  /\ running \in BOOLEAN
  /\ control \in ControlStates

(* The control thread outlives neither Stop nor the process, and Stop asks *)
(* for its end first: when Start makes a thread there is none              *)
(* (scheduler.cc: Start, Stop).                                            *)
ThreadEndsBeforeStop ==
  /\ lifecycle \in {"stopped", "starting", "joined", "terminated"} => control.pc = "none"
  /\ lifecycle = "started" => running
  /\ running => lifecycle \in {"started", "terminated"}

(* An engine that can be scheduled stops being so only by introducing      *)
(* itself again or by having all the tasks it can take: no view makes it   *)
(* lose its client, its manager or its capacity, and no lost decision is   *)
(* held against it (serverless_system_view.cc: ParseGetViewReply,          *)
(* TasksScheduled).                                                        *)
Full(e) == engine_to_state[e].running_tasks >= engine_to_state[e].maximum_tasks

SchedulableEnginesStay ==
  [][\A e \in GetSchedulableEngines :
       \/ e \in GetSchedulableEngines'
       \/ Full(e)'
       \/ \E i \in Engines : i.rpc_uri = e /\ Introduce(i)]_schedulerVars

(* The scheduler's process ends only for a file that no view has shown at  *)
(* a persistent manager.  In particular the engine of a decision always    *)
(* has a state in Execute, though Schedule leaves its name empty:          *)
(* TasksScheduled has made one (scheduler.cc: SchedulerControlThread).     *)
KeepsRunning ==
  [][lifecycle # "terminated" /\ (\A task \in Tasks : FilesAreKnown(task))
       => lifecycle' # "terminated"]_schedulerVars

(* Stop returns, whatever the control thread was doing.                    *)
StopReturns == lifecycle = "stopping" ~> lifecycle \in {"stopped", "terminated"}

(* The invariant behind these: the engines the control thread goes through *)
(* have states, as none is ever removed, and the nameless one has a state  *)
(* once a decision was counted for it.                                     *)
ControlInv ==
  /\ control.pc \in {"next_engine", "next_task"} => control.engines \subseteq DOMAIN engine_to_state
  /\ control.pc = "execute" /\ control.decisions # <<>> => HasEngineState(NoName)

SchedulerInv == SchedulerTypeOK /\ ViewInv /\ ThreadEndsBeforeStop /\ ControlInv

(* "Once view reply comes in we can move engine to maps"                   *)
(* (serverless_system_view.h:27): an engine that has introduced itself,    *)
(* on whose host every view shows a client and an ephemeral manager, can   *)
(* be scheduled at some time while the scheduler runs.                     *)
Hosted(e) ==
  \A r \in MasterViews :
    /\ \E m \in EphemeralIn(r) : Hostname(Uri(m)) = Hostname(e)
    /\ \E c \in r.client : Hostname(Uri(c)) = Hostname(e)

EnginesBecomeSchedulable ==
  \A e \in {i.rpc_uri : i \in Engines} :
    HasEngineState(e) /\ Hosted(e) /\ lifecycle = "started"
      ~> e \in GetSchedulableEngines \/ lifecycle # "started"

(* "for each available server spot, pick the next task in the sorted list" *)
(* (scheduler.cc:108): what Schedule decides names the engine with the spot. *)
DecisionsNameEngines ==
  control.pc = "count" =>
    \A i \in DOMAIN control.decisions : control.decisions[i].engine # NoName

=============================================================================
