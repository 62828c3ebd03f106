------------------------------ MODULE JobQueue ------------------------------
(***************************************************************************)
(* The threads of the main server around one queue: putJob blocks on       *)
(* put_condv while the queue is full, the first half of sendJob blocks on  *)
(* get_condv while it is empty, removeJob never blocks.  Every critical    *)
(* section of queue_mtx is one action: none takes a second lock, and the   *)
(* only call inside that gives up the processor is pthread_cond_wait,      *)
(* where the action ends.                                                  *)
(***************************************************************************)
EXTENDS RingQueue, FiniteSets, Sequences

CONSTANTS
  Putters,  \* threads that call putJob
  Getters,  \* threads that call sendJob
  Jobs,     \* job objects
  Removed   \* ids that removeJob is called with

ASSUME ThreadAssumption == IsFiniteSet(Putters) /\ IsFiniteSet(Getters)
ASSUME JobAssumption == NoJob \notin Jobs

VARIABLES
  queue,  \* the Queue_t
  pc,     \* where each thread is
  arg,    \* the argument of the thread's call of putJob
  overrun \* TRUE once the shift loop of removeJob has left the array

vars == <<queue, pc, arg, overrun>>

Threads == Putters \cup Getters

\* put, get: about to lock queue_mtx, on entry or on return from
\* pthread_cond_wait.  putWait, getWait: blocked in pthread_cond_wait.
Stages == {"idle", "put", "putWait", "get", "getWait"}

\* The threads in a stage of a control state c.
ThreadsIn(c, stage) == {t \in Threads : c[t] = stage}

\* pthread_cond_signal: one of the threads in stage `from`, if there is any,
\* moves to stage `to`.  c is the control state before the signal.
Signal(c, from, to) ==
  IF ThreadsIn(c, from) = {} THEN {c}
  ELSE {[c EXCEPT ![t] = to] : t \in ThreadsIn(c, from)}

\* The jobs in the queue, and those on their way into it too.
Queued == {Items(queue)[k] : k \in 1 .. Count(queue)}
InUse  == Queued \cup {arg[t] : t \in Threads}

Init ==
  /\ queue = QueueInit
  /\ pc = [t \in Threads |-> "idle"]
  /\ arg = [t \in Threads |-> NoJob]
  /\ overrun = FALSE

\* A thread calls putJob.
CallPut(t, job) ==
  /\ pc[t] = "idle"
  /\ pc' = [pc EXCEPT ![t] = "put"]
  /\ arg' = [arg EXCEPT ![t] = job]
  /\ UNCHANGED <<queue, overrun>>

\* What the callers owe the queue: a job is not put in twice.
OwnsJob(job) == job \notin InUse

\* Mutant: the getters are not signalled.
PutJobSilent(t) ==
  /\ pc[t] = "put"
  /\ Count(queue) # MAX_JOBS_QUEUE
  /\ queue' = PutInto(queue, arg[t])
  /\ arg' = [arg EXCEPT ![t] = NoJob]
  /\ pc' = [pc EXCEPT ![t] = "idle"]
  /\ UNCHANGED overrun

\* Mutant: the getters are signalled only when the queue was empty.
PutJobSignalsFirst(t) ==
  /\ pc[t] = "put"
  /\ Count(queue) # MAX_JOBS_QUEUE
  /\ queue' = PutInto(queue, arg[t])
  /\ arg' = [arg EXCEPT ![t] = NoJob]
  /\ LET c == [pc EXCEPT ![t] = "idle"]
     IN pc' \in IF Count(queue) = 0 THEN Signal(c, "getWait", "get") ELSE {c}
  /\ UNCHANGED overrun

PutJob(t) ==
  /\ pc[t] = "put"
  /\ \/ /\ Count(queue) = MAX_JOBS_QUEUE
        /\ pc' = [pc EXCEPT ![t] = "putWait"]
        /\ UNCHANGED <<queue, arg>>
     \/ /\ Count(queue) # MAX_JOBS_QUEUE
        /\ queue' = PutInto(queue, arg[t])
        /\ arg' = [arg EXCEPT ![t] = NoJob]
        /\ pc' \in Signal([pc EXCEPT ![t] = "idle"], "getWait", "get")
  /\ UNCHANGED overrun

CallGet(t) ==
  /\ pc[t] = "idle"
  /\ pc' = [pc EXCEPT ![t] = "get"]
  /\ UNCHANGED <<queue, arg, overrun>>

GetJob(t) ==
  /\ pc[t] = "get"
  /\ \/ /\ Count(queue) = 0
        /\ pc' = [pc EXCEPT ![t] = "getWait"]
        /\ UNCHANGED queue
     \/ /\ Count(queue) # 0
        /\ queue' = TakeFrom(queue)
        /\ pc' \in Signal([pc EXCEPT ![t] = "idle"], "putWait", "put")
  /\ UNCHANGED <<arg, overrun>>

RemoveJob(jobid) ==
  /\ Count(queue) # 0
  /\ \/ /\ ShiftOverruns(queue)
        /\ overrun' = TRUE
        /\ UNCHANGED <<queue, pc>>
     \/ /\ ~ShiftOverruns(queue)
        /\ queue' = RemoveFrom(queue, jobid)
        /\ pc' \in Signal(pc, "putWait", "put")
        /\ UNCHANGED overrun
  /\ UNCHANGED arg

\* POSIX lets pthread_cond_wait return without a signal.
SpuriousWakeup(t) ==
  /\ \/ pc[t] = "putWait" /\ pc' = [pc EXCEPT ![t] = "put"]
     \/ pc[t] = "getWait" /\ pc' = [pc EXCEPT ![t] = "get"]
  /\ UNCHANGED <<queue, arg, overrun>>

Next ==
  /\ ~overrun
  /\ \/ \E t \in Putters, job \in Jobs : CallPut(t, job) /\ OwnsJob(job)
     \/ \E t \in Putters : PutJob(t)
     \/ \E t \in Getters : CallGet(t) \/ GetJob(t)
     \/ \E jobid \in Removed : RemoveJob(jobid)
     \/ \E t \in Threads : SpuriousWakeup(t)

Spec == Init /\ [][Next]_vars

\* A thread that is ready to enter its critical section is scheduled and gets
\* the mutex; nothing obliges a client or an execution server to call again,
\* nor pthread_cond_wait to return without a signal.
FairSpec ==
  /\ Spec
  /\ \A t \in Putters : WF_vars(~overrun /\ PutJob(t))
  /\ \A t \in Getters : WF_vars(~overrun /\ GetJob(t))

-----------------------------------------------------------------------------
TypeOK ==
  /\ queue \in QueueType(Jobs)
  /\ pc \in [Threads -> Stages]
  /\ arg \in [Threads -> Jobs \cup {NoJob}]
  /\ overrun \in BOOLEAN

\* The state flag that queueState reports is redundant: three operations keep
\* it, each from the count it sees.  It says FULL exactly when the ring is
\* full, and the ring never holds more jobs than it has slots.
StateTellsFull ==
  /\ Count(queue) <= MAX_JOBS_QUEUE
  /\ queue.state = "FULL" <=> Count(queue) = MAX_JOBS_QUEUE

\* pthread_cond_signal wakes one thread, and a thread that never slept may be
\* faster than the one it wakes.  Still no wakeup is lost: while a thread sleeps
\* on get_condv there are as many threads on their way to the jobs as jobs, and
\* while one sleeps on put_condv as many on their way to the free slots.
NoLostWakeup ==
  /\ ThreadsIn(pc, "getWait") # {} =>
       Cardinality(ThreadsIn(pc, "get")) >= Count(queue)
  /\ ThreadsIn(pc, "putWait") # {} =>
       Cardinality(ThreadsIn(pc, "put")) >= MAX_JOBS_QUEUE - Count(queue)

\* The ring with its free-running indices, its wakeups and its removals
\* implements a bounded FIFO queue: a removal that stays in the array takes one
\* job out and leaves the others in their order, although removeJob moves jobs
\* between slots while get_idx stays where it is.
Fifo == INSTANCE BoundedFifo WITH items <- Items(queue), Capacity <- MAX_JOBS_QUEUE
FifoSpec == Fifo!Spec

\* A slot is found from an index by a remainder, so the slots of the queued jobs
\* follow each other, except, if the number of slots does not divide that of the
\* values of an index (2^32 % 15 = 1), while an index wraps between the oldest
\* and the newest of them.
InOrder == queue.get_idx <= queue.put_idx \/ IDX_MOD % MAX_JOBS_QUEUE = 0

\* With any number of slots and any width of the indices, each step from a state
\* InOrder is a step of the bounded FIFO queue, or leaves the queued jobs alone.
FifoInOrder == [][InOrder => Fifo!Next \/ UNCHANGED Items(queue)]_vars

\* The queued jobs with an id, by their places, and which job a removal takes out.
Wanted(jobid) == {k \in 1 .. Count(queue) : Items(queue)[k].id = jobid}

Takes(jobid) ==
  \/ \E k \in Wanted(jobid) : Fifo!Withdraw(k)
  \/ /\ Wanted(jobid) = {} \/ Slot(queue.get_idx) >= Slot(queue.put_idx)
     /\ Fifo!Withdraw(Count(queue))

\* What removeJob takes out, unless it leaves the array: a job with the id that it
\* was asked for; or, when no queued job has the id (sendJob has taken it, it is on
\* its way into the queue, it was removed before) or the queued jobs go round the
\* end of the array, the newest job, whatever its id.  All others stay in order.
RemovesRequestedOrNewest ==
  [][\A jobid \in Removed :
       RemoveJob(jobid) /\ InOrder /\ ~overrun' => Takes(jobid)]_vars

\* Jobs keep flowing: if from some time on there is always a job in the queue
\* and a thread of an execution server in sendJob, then the oldest job is taken
\* again and again.
HeadIsTaken ==
  <>[](/\ ~overrun /\ Count(queue) # 0
       /\ \E t \in Getters : pc[t] \in {"get", "getWait"})
    => []<><<queue.get_idx' # queue.get_idx>>_vars
=============================================================================
