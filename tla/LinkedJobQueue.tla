--------------------------- MODULE LinkedJobQueue ---------------------------
(***************************************************************************)
(* A job queue of sender.c or receiver.c as it is written: a linked list   *)
(* with a head and a tail, a critical section and a condition variable.    *)
(* The region queue has one producer and many consumers, the send queue    *)
(* many producers and one consumer that also takes jobs without waiting,   *)
(* the decode queue one producer and many consumers and no priority.       *)
(*                                                                         *)
(* What a thread does inside the critical section is one step; waking the  *)
(* condition variable comes after it, as a step of its own.                *)
(***************************************************************************)
EXTENDS Naturals, FiniteSets, SequencesExt

CONSTANTS
  Jobs,           \* the jobs that are pushed, each once
  PriorityJobs,   \* those pushed with priority
  Consumers,
  NULL

ASSUME QueueAssumption ==
  /\ IsFiniteSet(Jobs) /\ PriorityJobs \subseteq Jobs
  /\ NULL \notin Jobs
  /\ Consumers # {}

VARIABLES
  coalescing,    \* this is the send queue, its one consumer calls try_pop too
  head, tail, next,
  shutdown,
  pushed,        \* the jobs that were pushed
  waking,        \* pushed jobs whose WakeConditionVariable is still to come
  consumerPc,    \* "enter", "asleep", "woken", "check", "work" or "done"
  held,          \* the jobs a consumer has popped and not yet freed
  freed,
  ownerPc        \* main: "run", "wakeAll", "join" or "destroyed"

listVars == <<head, tail, next>>
queueVars == <<coalescing, listVars, shutdown, pushed, waking, consumerPc, held,
               freed, ownerPc>>

-----------------------------------------------------------------------------
\* The jobs from job on, as the pointers link them: at most all of them.
ChainOf(links, job) ==
  LET From[n \in Nat] ==
        [j \in Jobs \cup {NULL} |->
           IF n = 0 \/ j = NULL THEN <<>> ELSE <<j>> \o From[n - 1][links[j]]]
  IN  From[Cardinality(Jobs)][job]

Chain(job) == ChainOf(next, job)

LinkedInit ==
  /\ \/ coalescing = FALSE /\ consumerPc = [c \in Consumers |-> "enter"]
     \/ /\ coalescing = TRUE
        /\ \E sender \in Consumers : consumerPc =
             [c \in Consumers |-> IF c = sender THEN "enter" ELSE "done"]
  /\ head = NULL /\ tail = NULL
  /\ next = [job \in Jobs |-> NULL]
  /\ shutdown = FALSE
  /\ pushed = {} /\ waking = {}
  /\ held = [c \in Consumers |-> {}]
  /\ freed = {}
  /\ ownerPc = "run"

\* A producer pushes.  Producers stop before the queue is destroyed.
PushNode(job) ==
  /\ job \notin pushed
  /\ ownerPc # "destroyed"
  /\ IF job \in PriorityJobs \/ head = NULL
     THEN /\ next' = [next EXCEPT ![job] = head]
          /\ head' = job
          /\ tail' = IF tail = NULL THEN job ELSE tail
     ELSE /\ next' = [next EXCEPT ![job] = NULL, ![tail] = job]
          /\ tail' = job
          /\ UNCHANGED head
  /\ pushed' = pushed \cup {job}
  /\ waking' = waking \cup {job}
  /\ UNCHANGED <<coalescing, shutdown, consumerPc, held, freed, ownerPc>>

Asleep == {c \in Consumers : consumerPc[c] = "asleep"}

\* Mutant of WakeOne: the push does not wake a consumer.
WakeNone(job) ==
  /\ job \in waking
  /\ waking' = waking \ {job}
  /\ UNCHANGED <<coalescing, listVars, shutdown, pushed, consumerPc, held, freed,
                 ownerPc>>

WakeOne(job) ==
  /\ job \in waking
  /\ waking' = waking \ {job}
  /\ \/ Asleep = {} /\ UNCHANGED consumerPc
     \/ \E c \in Asleep : consumerPc' = [consumerPc EXCEPT ![c] = "woken"]
  /\ UNCHANGED <<coalescing, listVars, shutdown, pushed, held, freed, ownerPc>>

\* Mutant of Unlink: the tail is left on the node that was taken.
UnlinkKeepsTail(c) ==
  /\ head' = next[head]
  /\ held' = [held EXCEPT ![c] = @ \cup {head}]
  /\ UNCHANGED <<tail, next>>

Unlink(c) ==
  /\ head' = next[head]
  /\ tail' = IF next[head] = NULL THEN NULL ELSE tail
  /\ held' = [held EXCEPT ![c] = @ \cup {head}]
  /\ UNCHANGED next

PopWait(c) ==
  /\ consumerPc[c] \in {"enter", "woken"}
  /\ head # NULL
  /\ Unlink(c)
  /\ consumerPc' = [consumerPc EXCEPT ![c] = "work"]
  /\ UNCHANGED <<coalescing, shutdown, pushed, waking, freed, ownerPc>>

\* Mutant of MaySleep: the shutdown is not looked at before going to sleep.
MaySleepAlways == head = NULL

MaySleep == head = NULL /\ ~shutdown

Sleep(c) ==
  /\ consumerPc[c] = "enter"
  /\ MaySleep
  /\ consumerPc' = [consumerPc EXCEPT ![c] = "asleep"]
  /\ UNCHANGED <<coalescing, listVars, shutdown, pushed, waking, held, freed, ownerPc>>

TimeOut(c) ==
  /\ consumerPc[c] = "asleep"
  /\ consumerPc' = [consumerPc EXCEPT ![c] = "woken"]
  /\ UNCHANGED <<coalescing, listVars, shutdown, pushed, waking, held, freed, ownerPc>>

\* pop_wait sleeps once: it returns NULL if the queue is empty after that.
PopNull(c) ==
  /\ head = NULL
  /\ consumerPc[c] = "woken" \/ (consumerPc[c] = "enter" /\ ~MaySleep)
  /\ consumerPc' = [consumerPc EXCEPT ![c] = "check"]
  /\ UNCHANGED <<coalescing, listVars, shutdown, pushed, waking, held, freed, ownerPc>>

CheckShutdown(c) ==
  /\ consumerPc[c] = "check"
  /\ consumerPc' = [consumerPc EXCEPT ![c] = IF shutdown THEN "done" ELSE "enter"]
  /\ UNCHANGED <<coalescing, listVars, shutdown, pushed, waking, held, freed, ownerPc>>

TryPop(c) ==
  /\ coalescing
  /\ consumerPc[c] = "work"
  /\ head # NULL
  /\ Unlink(c)
  /\ UNCHANGED <<coalescing, shutdown, pushed, waking, consumerPc, freed, ownerPc>>

FinishWork(c) ==
  /\ consumerPc[c] = "work"
  /\ consumerPc' = [consumerPc EXCEPT ![c] = "enter"]
  /\ freed' = freed \cup held[c]
  /\ held' = [held EXCEPT ![c] = {}]
  /\ UNCHANGED <<coalescing, listVars, shutdown, pushed, waking, ownerPc>>

-----------------------------------------------------------------------------
SignalShutdown ==
  /\ ownerPc = "run"
  /\ shutdown' = TRUE
  /\ ownerPc' = "wakeAll"
  /\ UNCHANGED <<coalescing, listVars, pushed, waking, consumerPc, held, freed>>

WakeAll ==
  /\ ownerPc = "wakeAll"
  /\ ownerPc' = "join"
  /\ consumerPc' =
       [c \in Consumers |-> IF c \in Asleep THEN "woken" ELSE consumerPc[c]]
  /\ UNCHANGED <<coalescing, listVars, shutdown, pushed, waking, held, freed>>

\* main has joined the consumers and the producers.
Destroy ==
  /\ ownerPc = "join"
  /\ \A c \in Consumers : consumerPc[c] = "done"
  /\ waking = {}
  /\ freed' = freed \cup ToSet(Chain(head))
  /\ head' = NULL /\ tail' = NULL
  /\ ownerPc' = "destroyed"
  /\ UNCHANGED <<coalescing, next, shutdown, pushed, waking, consumerPc, held>>

Destroyed == ownerPc = "destroyed" /\ UNCHANGED queueVars

Consumer(c) ==
  \/ PopWait(c) \/ Sleep(c) \/ PopNull(c) \/ CheckShutdown(c)
  \/ TryPop(c) \/ FinishWork(c)

LinkedNext ==
  \/ \E job \in Jobs : PushNode(job) \/ WakeOne(job)
  \/ \E c \in Consumers : Consumer(c) \/ TimeOut(c)
  \/ SignalShutdown \/ WakeAll \/ Destroy \/ Destroyed

\* Threads are scheduled.  Nothing makes the owner shut the queue down, nor a
\* sleeping thread time out: no property may need the 1000 ms of the code.
LinkedFairness ==
  /\ \A job \in Jobs : WF_queueVars(WakeOne(job))
  /\ \A c \in Consumers : WF_queueVars(Consumer(c))
  /\ WF_queueVars(WakeAll) /\ WF_queueVars(Destroy)

LinkedSpec == LinkedInit /\ [][LinkedNext]_queueVars
FairLinkedSpec == LinkedSpec /\ LinkedFairness

-----------------------------------------------------------------------------
(* Properties. *)

(* The list is well formed: head and tail are its two ends, and a pushed    *)
(* job is in the list, in one consumer's hands, or freed, never two of them. *)
ListIntact ==
  LET list == Chain(head)
  IN  /\ (head = NULL) = (tail = NULL)
      /\ list # <<>> => list[Len(list)] = tail /\ next[tail] = NULL
      /\ IsInjective(list)
      /\ Cardinality(pushed)
           = Len(list) + Cardinality(freed)
               + Cardinality({cj \in Consumers \X Jobs : cj[2] \in held[cj[1]]})

Queue == INSTANCE FifoWithPriority WITH queue <- Chain(head)

(* The list implements the sequence that the pipelines are modelled with.   *)
ImplementsQueue == Queue!QueueSpec

(* No job is left behind: without any timeout, a job that was pushed is     *)
(* eventually freed by a consumer, or by the destruction of the queue.      *)
EveryJobFreed == \A job \in Jobs : job \in pushed ~> job \in freed

(* The shutdown reaches every consumer, asleep or about to fall asleep.     *)
ShutdownReachesAll == shutdown ~> \A c \in Consumers : consumerPc[c] = "done"
=============================================================================
