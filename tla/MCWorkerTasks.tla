---------------------------- MODULE MCWorkerTasks ----------------------------
(***************************************************************************)
(* A small instance of WorkerTasks: two sets of tasks, of which a          *)
(* behaviour has one queued, so that the run explores the sum of the two,  *)
(* not their product.                                                      *)
(***************************************************************************)
EXTENDS WorkerTasks

\* One session with the tasks that start and stop it, and one import.
OneSessionTasks == {"create1", "stop1", "import1"}

\* Two sessions that one cleanup task stops together.
CleanupTasks == {"create1", "create2", "cleanup"}

AllTasks == OneSessionTasks \cup CleanupTasks
TwoSessions == {"s1", "s2"}
KindOfAll ==
  [t \in AllTasks |->
     CASE t \in {"create1", "create2"} -> "create" [] t = "stop1" -> "stop"
       [] t = "import1" -> "import" [] OTHER -> "cleanup"]
SessionsOfAll ==
  [t \in AllTasks |->
     CASE t \in {"create1", "stop1"} -> {"s1"} [] t = "create2" -> {"s2"}
       [] t = "cleanup" -> TwoSessions [] OTHER -> {}]

TasksInit == Init /\ {t \in Tasks : server[t] = "queued"} \in {OneSessionTasks, CleanupTasks}

TasksSpec == TasksInit /\ [][Next]_vars /\ Fairness
=============================================================================
