-------------------------- MODULE FifoWithPriority --------------------------
(***************************************************************************)
(* What a job queue is to the threads that share it: a sequence.  A push   *)
(* puts a priority job first and any other one last, a pop takes the first *)
(* job, and nothing else happens until the queue is emptied for good.      *)
(***************************************************************************)
EXTENDS JobQueue, SequencesExt

CONSTANTS Jobs, PriorityJobs

VARIABLES queue, pushed

queueSpecVars == <<queue, pushed>>

QueueInit == queue = <<>> /\ pushed = {}

PushJob(job) ==
  /\ job \notin pushed
  /\ pushed' = pushed \cup {job}
  /\ queue' = Push(queue, job, job \in PriorityJobs)

PopJob == CanPop(queue) /\ queue' = Tail(queue) /\ UNCHANGED pushed

Empty == queue' = <<>> /\ UNCHANGED pushed

QueueNext == (\E job \in Jobs : PushJob(job)) \/ PopJob \/ Empty

QueueSpec == QueueInit /\ [][QueueNext]_queueSpecVars
=============================================================================
