------------------------------ MODULE FileStore ------------------------------
(***************************************************************************)
(* What the storage service promises its applications, the Put and Get of  *)
(* StorageClientService (storage_service.proto): each call takes effect on *)
(* its file at one moment between its invocation and its answer.  A Put    *)
(* that is not answered with OK may have taken effect or not, or may take  *)
(* effect once at any later time.                                          *)
(***************************************************************************)
CONSTANTS
  Calls,     \* records with the fields op, key and value
  Keys,
  Statuses   \* of an answer; "OK" is one

VARIABLES
  file,      \* key -> content
  progress   \* call -> how far it is

fileStoreVars == <<file, progress>>

FileStoreInit == progress = [t \in Calls |-> [state |-> "not_made"]]

Invoke(t) ==
  /\ progress[t].state = "not_made"
  /\ progress' = [progress EXCEPT ![t] = [state |-> "pending"]]
  /\ UNCHANGED file

Write(t) ==
  /\ t.op = "PUT"
  /\ progress[t].state = "pending"
  /\ file' = [file EXCEPT ![t.key] = t.value]
  /\ progress' = [progress EXCEPT ![t] = [state |-> "written"]]

Answer(t, status, value) ==
  progress' = [progress EXCEPT ![t] = [state |-> "answered", status |-> status, value |-> value]]

AnswerPut(t) ==
  /\ progress[t].state = "written"
  /\ Answer(t, "OK", "")
  /\ UNCHANGED file

AnswerGet(t) ==
  /\ t.op = "GET"
  /\ progress[t].state = "pending"
  /\ Answer(t, "OK", file[t.key])
  /\ UNCHANGED file

(* When a client's process ends, its calls fail together; some of its Puts *)
(* are unresolved.                                                         *)
Fail ==
  /\ \E failed \in SUBSET {t \in Calls : progress[t].state \in {"pending", "written"}},
        status \in Statuses \ {"OK"} :
       \E late \in SUBSET {t \in failed : t.op = "PUT" /\ progress[t].state = "pending"} :
         progress' = [t \in Calls |->
           IF t \in failed
           THEN [state |-> IF t \in late THEN "unresolved" ELSE "answered",
                 status |-> status, value |-> ""]
           ELSE progress[t]]
  /\ UNCHANGED file

WriteLate(t) ==
  /\ progress[t].state = "unresolved"
  /\ file' = [file EXCEPT ![t.key] = t.value]
  /\ Answer(t, progress[t].status, progress[t].value)

FileStoreNext ==
  \/ \E t \in Calls : Invoke(t) \/ Write(t) \/ AnswerPut(t) \/ AnswerGet(t) \/ WriteLate(t)
  \/ Fail

FileStoreSpec == FileStoreInit /\ [][FileStoreNext]_fileStoreVars

=============================================================================
