----------------------------- MODULE RingQueue -----------------------------
(***************************************************************************)
(* Queue_t of the main server (main_server.h:29-38): the ring of pointers  *)
(* to the jobs that wait for an execution server, and what each critical   *)
(* section of queue_mtx does to it.  A queue is a record with the fields   *)
(* jobs, put_idx, get_idx and state of the C structure; a job is a record  *)
(* with at least the field id.  The threads that enter the critical        *)
(* sections are in JobQueue and MainServer.                                *)
(***************************************************************************)
EXTENDS Integers, FiniteSetsExt

CONSTANTS
  MAX_JOBS_QUEUE,  \* capacity of the ring (15 in main_server.h:4)
  IDX_MOD,         \* number of values of the unsigned indices (2^32)
  NoJob            \* contents of a slot that was never written

ASSUME RingAssumption ==
  /\ MAX_JOBS_QUEUE \in Nat \ {0}
  /\ IDX_MOD \in Nat
  /\ IDX_MOD > MAX_JOBS_QUEUE

Slots   == 0 .. MAX_JOBS_QUEUE - 1
Indices == 0 .. IDX_MOD - 1

\* Queue_t with pointers to the jobs of the set J.
QueueType(J) == [jobs    : [Slots -> J \cup {NoJob}],
                 put_idx : Indices,
                 get_idx : Indices,
                 state   : {"AVAIL", "FULL"}]

\* The ring position of a free-running index.
Slot(i) == i % MAX_JOBS_QUEUE

\* Unsigned arithmetic on the free-running indices.
\* (IncNoWrap, a mutant: the index is wider than the code believes.)
IncNoWrap(i) == i + 1
Inc(i)       == IF i + 1 = IDX_MOD THEN 0 ELSE i + 1
Dec(i)       == IF i = 0 THEN IDX_MOD - 1 ELSE i - 1
IdxAdd(i, k) == IF i + k >= IDX_MOD THEN i + k - IDX_MOD ELSE i + k

\* put_idx - get_idx, the number of queued jobs.
Count(q) == IF q.put_idx >= q.get_idx THEN q.put_idx - q.get_idx
                                      ELSE q.put_idx - q.get_idx + IDX_MOD

\* The queued jobs, oldest first, in the order in which QueueDestroy goes through
\* them: what the queue stands for as a BoundedFifo.
Items(q) == [k \in 1 .. Count(q) |-> q.jobs[Slot(IdxAdd(q.get_idx, k - 1))]]

QueueInit == [jobs    |-> [s \in Slots |-> NoJob],
              put_idx |-> 0,
              get_idx |-> 0,
              state   |-> "AVAIL"]

\* Mutant: ++put_idx where the code has put_idx++.
PutIntoNext(q, job) ==
  [jobs    |-> [q.jobs EXCEPT ![Slot(Inc(q.put_idx))] = job],
   put_idx |-> Inc(q.put_idx),
   get_idx |-> q.get_idx,
   state   |-> IF Count(q) = MAX_JOBS_QUEUE - 1 THEN "FULL" ELSE q.state]

\* putJob once there is room.
PutInto(q, job) ==
  [jobs    |-> [q.jobs EXCEPT ![Slot(q.put_idx)] = job],
   put_idx |-> Inc(q.put_idx),
   get_idx |-> q.get_idx,
   state   |-> IF Count(q) = MAX_JOBS_QUEUE - 1 THEN "FULL" ELSE q.state]

\* sendJob once there is a job: the job it takes, and what it leaves.
Oldest(q) == q.jobs[Slot(q.get_idx)]

TakeFrom(q) == [jobs    |-> q.jobs,
                put_idx |-> q.put_idx,
                get_idx |-> Inc(q.get_idx),
                state   |-> "AVAIL"]

-----------------------------------------------------------------------------
(***************************************************************************)
(* removeJob.  Its first loop looks for the job between the slots of       *)
(* get_idx and put_idx, without going round the end of the array; its      *)
(* second loop closes the gap; then put_idx is decremented whether or not  *)
(* the job was found.                                                      *)
(***************************************************************************)

\* The slots in which the first loop can meet the job.
Matches(q, jobid) ==
  {i \in Slot(q.get_idx) .. Slot(q.put_idx) - 1 : q.jobs[i].id = jobid}

\* idx when the first loop ends.
ScanEnd(q, jobid) ==
  IF Matches(q, jobid) # {} THEN Min(Matches(q, jobid))
  ELSE Max({Slot(q.get_idx), Slot(q.put_idx)})

\* put_idx % MAX_JOBS_QUEUE - 1 is unsigned: at slot 0 it is UINT_MAX and the
\* second loop runs past the end of the array.
ShiftOverruns(q) == Slot(q.put_idx) = 0

\* Mutants: the state is not reset; the gap is not closed.
RemoveKeepsState(q, jobid) ==
  [jobs |-> q.jobs, put_idx |-> Dec(q.put_idx), get_idx |-> q.get_idx, state |-> q.state]

RemoveLeavesGap(q, jobid) ==
  [jobs |-> q.jobs, put_idx |-> Dec(q.put_idx), get_idx |-> q.get_idx, state |-> "AVAIL"]

RemoveFrom(q, jobid) ==
  LET idx  == ScanEnd(q, jobid)
      last == Slot(q.put_idx) - 1
  IN [jobs    |-> [s \in Slots |-> IF idx <= s /\ s < last THEN q.jobs[s + 1]
                                                           ELSE q.jobs[s]],
      put_idx |-> Dec(q.put_idx),
      get_idx |-> q.get_idx,
      state   |-> "AVAIL"]
=============================================================================
