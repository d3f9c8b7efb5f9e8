------------------------------ MODULE JobQueue ------------------------------
(***************************************************************************)
(* The job queues of the two programs, as sequences: the region queue and  *)
(* the send queue of sender.c and the decode queue of receiver.c.  Every   *)
(* operation of the code holds the queue's critical section, so each one   *)
(* is a single atomic change of the sequence.                              *)
(***************************************************************************)
EXTENDS Sequences

\* Mutants of Push: the priority job does not keep the queue behind it; every
\* job goes to the tail; every job goes to the head.
PushLosesRest(queue, job, priority) ==
  IF priority \/ queue = <<>> THEN <<job>> ELSE Append(queue, job)
PushToTail(queue, job, priority) == Append(queue, job)
PushToHead(queue, job, priority) == <<job>> \o queue

(* sender_region_queue_push, sender_send_queue_push: a priority job, or the *)
(* first job of an empty queue, becomes the head; any other is the tail.    *)
Push(queue, job, priority) ==
  IF priority \/ queue = <<>> THEN <<job>> \o queue ELSE Append(queue, job)

(* The "queue->head != NULL" part of pop_wait and try_pop. *)
CanPop(queue) == queue # <<>>
=============================================================================
