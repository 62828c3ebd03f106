--------------------------- MODULE JobQueueProofs ---------------------------
(***************************************************************************)
(* Proofs about JobQueue, for every capacity, index width, set of jobs and *)
(* finite set of threads.                                                  *)
(***************************************************************************)
EXTENDS JobQueue, Remainders, FiniteSetTheorems, SequenceTheorems, TLAPS

-----------------------------------------------------------------------------
\* An index always falls on a slot of the ring.
LEMMA SlotType ==
  ASSUME NEW i \in Indices
  PROVE  Slot(i) \in Slots
BY RingAssumption DEF Slot, Slots, Indices

\* The unsigned indices stay in their range.
LEMMA IndexType ==
  ASSUME NEW i \in Indices
  PROVE  Inc(i) \in Indices /\ Dec(i) \in Indices
BY RingAssumption DEF Inc, Dec, Indices

\* put_idx - get_idx is a natural number below the number of index values.
LEMMA CountType ==
  ASSUME NEW q, q.put_idx \in Indices, q.get_idx \in Indices
  PROVE  Count(q) \in 0 .. IDX_MOD - 1
BY RingAssumption DEF Count, Indices

\* Unless the indices already are as far apart as they can be, incrementing
\* put_idx adds one job to the count, across the wrap of the index too.
LEMMA CountPut ==
  ASSUME NEW q, q.put_idx \in Indices, q.get_idx \in Indices,
         Count(q) <= MAX_JOBS_QUEUE - 1,
         NEW job
  PROVE  Count(PutInto(q, job)) = Count(q) + 1
BY RingAssumption DEF Count, Indices, PutInto, Inc

LEMMA CountTake ==
  ASSUME NEW q, q.put_idx \in Indices, q.get_idx \in Indices, Count(q) # 0
  PROVE  Count(TakeFrom(q)) = Count(q) - 1
BY RingAssumption DEF Count, Indices, TakeFrom, Inc

LEMMA CountRemove ==
  ASSUME NEW q, q.put_idx \in Indices, q.get_idx \in Indices, Count(q) # 0,
         NEW jobid
  PROVE  Count(RemoveFrom(q, jobid)) = Count(q) - 1
BY RingAssumption DEF Count, Indices, RemoveFrom, Dec

-----------------------------------------------------------------------------
\* Each operation on the ring yields a ring.  RemoveFrom needs that put_idx is
\* not at slot 0, where its loop would leave the array.
LEMMA QueueOpsType ==
  ASSUME NEW q \in QueueType(Jobs), NEW job \in Jobs \cup {NoJob}, NEW jobid
  PROVE  /\ PutInto(q, job) \in QueueType(Jobs)
         /\ TakeFrom(q) \in QueueType(Jobs)
         /\ RemoveFrom(q, jobid) \in QueueType(Jobs)
<1>1. /\ Slot(q.put_idx) \in Slots
      /\ Inc(q.put_idx) \in Indices
      /\ Dec(q.put_idx) \in Indices
      /\ Inc(q.get_idx) \in Indices
  BY SlotType, IndexType DEF QueueType
<1>2. PutInto(q, job) \in QueueType(Jobs)
  BY <1>1 DEF QueueType, PutInto
<1>3. TakeFrom(q) \in QueueType(Jobs)
  BY <1>1 DEF QueueType, TakeFrom
<1>4. RemoveFrom(q, jobid) \in QueueType(Jobs)
  <2> DEFINE idx  == ScanEnd(q, jobid)
             last == Slot(q.put_idx) - 1
             after == [s \in Slots |-> IF idx <= s /\ s < last THEN q.jobs[s + 1]
                                                               ELSE q.jobs[s]]
  <2>1. ASSUME NEW s \in Slots
        PROVE  (IF idx <= s /\ s < last THEN q.jobs[s + 1] ELSE q.jobs[s])
                 \in Jobs \cup {NoJob}
    <3>1. s < last => s + 1 \in Slots
      BY <1>1, RingAssumption DEF Slots
    <3> QED
      BY <3>1 DEF QueueType
  <2>2. after \in [Slots -> Jobs \cup {NoJob}]
    BY <2>1
  <2> QED
    BY <1>1, <2>2 DEF QueueType, RemoveFrom
<1> QED
  BY <1>2, <1>3, <1>4

\* A signal leaves every thread in a stage.
LEMMA SignalType ==
  ASSUME NEW c \in [Threads -> Stages], NEW from, NEW to \in Stages,
         NEW d \in Signal(c, from, to)
  PROVE  d \in [Threads -> Stages]
BY DEF Signal, ThreadsIn

\* The variables of JobQueue keep their types: in particular removeJob leaves a
\* well-formed ring whenever its loop stays inside the array.
THEOREM TypeCorrect == Spec => []TypeOK
<1>1. Init => TypeOK
  <2>1. QueueInit \in QueueType(Jobs)
    <3>1. 0 \in Indices
      BY RingAssumption DEF Indices
    <3> QED
      BY <3>1 DEF QueueInit, QueueType
  <2> QED
    BY <2>1 DEF Init, TypeOK, Stages
<1>2. TypeOK /\ [Next]_vars => TypeOK'
  <2> SUFFICES ASSUME TypeOK, [Next]_vars
               PROVE  TypeOK'
    OBVIOUS
  <2> USE DEF TypeOK
  <2>1. ASSUME NEW t \in Putters, NEW job \in Jobs, CallPut(t, job)
        PROVE  TypeOK'
    BY <2>1 DEF CallPut, Stages
  <2>2. ASSUME NEW t \in Putters, PutJob(t)
        PROVE  TypeOK'
    <3>1. t \in Threads
      BY DEF Threads
    <3>2. [pc EXCEPT ![t] = "idle"] \in [Threads -> Stages]
      BY DEF Stages
    <3>3. pc' \in [Threads -> Stages]
      <4>1. "get" \in Stages /\ "putWait" \in Stages
        BY DEF Stages
      <4> QED
        BY <2>2, <3>2, <4>1, SignalType DEF PutJob
    <3>4. queue' \in QueueType(Jobs)
      BY <2>2, <3>1, QueueOpsType DEF PutJob
    <3> QED
      BY <2>2, <3>3, <3>4 DEF PutJob
  <2>3. ASSUME NEW t \in Getters, CallGet(t)
        PROVE  TypeOK'
    BY <2>3 DEF CallGet, Stages
  <2>4. ASSUME NEW t \in Getters, GetJob(t)
        PROVE  TypeOK'
    <3>1. [pc EXCEPT ![t] = "idle"] \in [Threads -> Stages]
      BY DEF Stages
    <3>2. pc' \in [Threads -> Stages]
      <4>1. "put" \in Stages /\ "getWait" \in Stages
        BY DEF Stages
      <4> QED
        BY <2>4, <3>1, <4>1, SignalType DEF GetJob
    <3>3. queue' \in QueueType(Jobs)
      BY <2>4, QueueOpsType DEF GetJob
    <3> QED
      BY <2>4, <3>2, <3>3 DEF GetJob
  <2>5. ASSUME NEW jobid \in Removed, RemoveJob(jobid)
        PROVE  TypeOK'
    <3>1. pc' \in [Threads -> Stages]
      <4>1. "put" \in Stages
        BY DEF Stages
      <4> QED
        BY <2>5, <4>1, SignalType DEF RemoveJob
    <3>2. queue' \in QueueType(Jobs)
      BY <2>5, QueueOpsType DEF RemoveJob
    <3> QED
      BY <2>5, <3>1, <3>2 DEF RemoveJob
  <2>6. ASSUME NEW t \in Threads, SpuriousWakeup(t)
        PROVE  TypeOK'
    BY <2>6 DEF SpuriousWakeup, Stages
  <2>7. CASE UNCHANGED vars
    BY <2>7 DEF vars
  <2> QED
    BY <2>1, <2>2, <2>3, <2>4, <2>5, <2>6, <2>7 DEF Next
<1> QED
  BY <1>1, <1>2, PTL DEF Spec

-----------------------------------------------------------------------------
\* The flag that queueState reports says FULL exactly when the ring is full.
THEOREM StateTellsFullCorrect == Spec => []StateTellsFull
<1>1. Init => StateTellsFull
  BY RingAssumption DEF Init, StateTellsFull, QueueInit, Count
<1>2. TypeOK /\ StateTellsFull /\ [Next]_vars => StateTellsFull'
  <2> SUFFICES ASSUME TypeOK, StateTellsFull, [Next]_vars
               PROVE  StateTellsFull'
    OBVIOUS
  <2>1. /\ queue.put_idx \in Indices /\ queue.get_idx \in Indices
        /\ Count(queue) \in Nat
    BY CountType, RingAssumption DEF TypeOK, QueueType
  <2>2. ASSUME NEW t \in Putters, PutJob(t), Count(queue) # MAX_JOBS_QUEUE
        PROVE  StateTellsFull'
    <3>1. queue' = PutInto(queue, arg[t])
      BY <2>2 DEF PutJob
    <3>2. Count(queue)' = Count(queue) + 1
      BY <2>1, <2>2, <3>1, CountPut, RingAssumption DEF StateTellsFull
    <3>3. queue'.state = IF Count(queue) = MAX_JOBS_QUEUE - 1 THEN "FULL" ELSE queue.state
      BY <3>1 DEF PutInto
    <3> QED
      BY <2>1, <2>2, <3>2, <3>3, RingAssumption DEF StateTellsFull
  <2>3. ASSUME NEW t \in Getters, GetJob(t), Count(queue) # 0
        PROVE  StateTellsFull'
    <3>1. queue' = TakeFrom(queue)
      BY <2>3 DEF GetJob
    <3>2. Count(queue)' = Count(queue) - 1 /\ queue'.state = "AVAIL"
      BY <2>1, <2>3, <3>1, CountTake DEF TakeFrom
    <3> QED
      BY <2>1, <3>2, RingAssumption DEF StateTellsFull
  <2>4. ASSUME NEW jobid \in Removed, RemoveJob(jobid), ~ShiftOverruns(queue)
        PROVE  StateTellsFull'
    <3>1. queue' = RemoveFrom(queue, jobid) /\ Count(queue) # 0
      BY <2>4 DEF RemoveJob
    <3>2. Count(queue)' = Count(queue) - 1 /\ queue'.state = "AVAIL"
      BY <2>1, <3>1, CountRemove DEF RemoveFrom
    <3> QED
      BY <2>1, <3>2, RingAssumption DEF StateTellsFull
  <2>5. CASE UNCHANGED queue
    BY <2>5 DEF StateTellsFull
  <2> QED
    BY <2>2, <2>3, <2>4, <2>5
    DEF Next, vars, CallPut, PutJob, CallGet, GetJob, RemoveJob, SpuriousWakeup
<1> QED
  BY <1>1, <1>2, TypeCorrect, PTL DEF Spec

-----------------------------------------------------------------------------
\* There are finitely many threads in any stage.
LEMMA ThreadsFinite ==
  ASSUME NEW c, NEW s
  PROVE  /\ IsFiniteSet(ThreadsIn(c, s))
         /\ Cardinality(ThreadsIn(c, s)) \in Nat
<1>1. IsFiniteSet(Threads)
  BY ThreadAssumption, FS_Union DEF Threads
<1>2. ThreadsIn(c, s) \in SUBSET Threads
  BY DEF ThreadsIn
<1> QED
  BY <1>1, <1>2, FS_Subset, FS_CardinalityType

\* From control state c to d, thread t goes from one stage to another.
Moves(c, d, t, from, to) ==
  /\ c \in [Threads -> Stages]
  /\ t \in Threads
  /\ c[t] = from
  /\ d = [c EXCEPT ![t] = to]

\* When one thread goes from a stage to another, the stage it leaves loses one
\* thread, the stage it enters gains one and no other stage changes.
LEMMA Move ==
  ASSUME NEW c, NEW d, NEW t, NEW from, NEW to,
         from # to, Moves(c, d, t, from, to)
  PROVE  /\ \A s : s # from /\ s # to => ThreadsIn(d, s) = ThreadsIn(c, s)
         /\ Cardinality(ThreadsIn(d, to)) = Cardinality(ThreadsIn(c, to)) + 1
         /\ Cardinality(ThreadsIn(d, from)) = Cardinality(ThreadsIn(c, from)) - 1
<1>1. \A s : s # from /\ s # to => ThreadsIn(d, s) = ThreadsIn(c, s)
  BY DEF ThreadsIn, Moves
<1>2. ThreadsIn(d, to) = ThreadsIn(c, to) \cup {t} /\ t \notin ThreadsIn(c, to)
  BY DEF ThreadsIn, Moves
<1>3. ThreadsIn(d, from) = ThreadsIn(c, from) \ {t} /\ t \in ThreadsIn(c, from)
  BY DEF ThreadsIn, Moves
<1>4. Cardinality(ThreadsIn(d, to)) = Cardinality(ThreadsIn(c, to)) + 1
  BY <1>2, ThreadsFinite, FS_AddElement
<1>5. Cardinality(ThreadsIn(d, from)) = Cardinality(ThreadsIn(c, from)) - 1
  BY <1>3, ThreadsFinite, FS_RemoveElement
<1> QED
  BY <1>1, <1>4, <1>5

\* If threads still sleep in a stage after a signal, then the signal woke one.
LEMMA SignalWakes ==
  ASSUME NEW c \in [Threads -> Stages], NEW from, NEW to, from # to,
         NEW d \in Signal(c, from, to)
  PROVE  /\ \A s : s # from /\ s # to => ThreadsIn(d, s) = ThreadsIn(c, s)
         /\ ThreadsIn(d, from) # {} =>
              /\ ThreadsIn(c, from) # {}
              /\ Cardinality(ThreadsIn(d, to)) = Cardinality(ThreadsIn(c, to)) + 1
<1>1. CASE ThreadsIn(c, from) = {}
  <2>1. d = c
    BY <1>1 DEF Signal
  <2> QED
    BY <1>1, <2>1
<1>2. CASE ThreadsIn(c, from) # {}
  <2>1. PICK w \in ThreadsIn(c, from) : d = [c EXCEPT ![w] = to]
    BY <1>2 DEF Signal
  <2>2. Moves(c, d, w, from, to)
    BY <2>1 DEF ThreadsIn, Moves
  <2>3. /\ \A s : s # from /\ s # to => ThreadsIn(d, s) = ThreadsIn(c, s)
        /\ Cardinality(ThreadsIn(d, to)) = Cardinality(ThreadsIn(c, to)) + 1
    BY <2>2, Move
  <2> QED
    BY <1>2, <2>3
<1> QED
  BY <1>1, <1>2

\* No wakeup is lost, whatever the number of threads, the order in which they
\* get queue_mtx and the thread a signal chooses.
THEOREM NoLostWakeupCorrect == Spec => []NoLostWakeup
<1> USE DEF NoLostWakeup
<1>1. Init => NoLostWakeup
  <2> SUFFICES ASSUME Init PROVE NoLostWakeup
    OBVIOUS
  <2>1. ThreadsIn(pc, "getWait") = {} /\ ThreadsIn(pc, "putWait") = {}
    BY DEF Init, ThreadsIn
  <2> QED
    BY <2>1
<1>2. TypeOK /\ StateTellsFull /\ NoLostWakeup /\ [Next]_vars => NoLostWakeup'
  <2> SUFFICES ASSUME TypeOK, StateTellsFull, NoLostWakeup, [Next]_vars
               PROVE  NoLostWakeup'
    OBVIOUS
  <2> USE RingAssumption
  <2> DEFINE In(s)  == ThreadsIn(pc, s)
             InP(s) == ThreadsIn(pc', s)
  <2>1. /\ pc \in [Threads -> Stages]
        /\ queue.put_idx \in Indices /\ queue.get_idx \in Indices
        /\ Count(queue) \in Nat /\ Count(queue) <= MAX_JOBS_QUEUE
        /\ \A s : Cardinality(In(s)) \in Nat /\ Cardinality(InP(s)) \in Nat
    BY CountType, ThreadsFinite DEF TypeOK, QueueType, StateTellsFull
  <2>2. ASSUME NEW t \in Putters, NEW job \in Jobs, CallPut(t, job)
        PROVE  NoLostWakeup'
    <3>1. Moves(pc, pc', t, "idle", "put")
      BY <2>1, <2>2 DEF CallPut, Threads, Moves
    <3>2. /\ InP("get") = In("get") /\ InP("getWait") = In("getWait")
          /\ InP("putWait") = In("putWait")
          /\ Cardinality(InP("put")) = Cardinality(In("put")) + 1
      BY <3>1, Move
    <3>3. queue' = queue
      BY <2>2 DEF CallPut
    <3> QED
      BY <2>1, <3>2, <3>3
  <2>3. ASSUME NEW t \in Putters, PutJob(t)
        PROVE  NoLostWakeup'
    <3>1. t \in Threads /\ pc[t] = "put"
      BY <2>3 DEF PutJob, Threads
    <3>2. CASE Count(queue) = MAX_JOBS_QUEUE
      <4>1. Moves(pc, pc', t, "put", "putWait") /\ queue' = queue
        BY <2>1, <2>3, <3>1, <3>2 DEF Moves, PutJob
      <4>2. InP("get") = In("get") /\ InP("getWait") = In("getWait")
        BY <4>1, Move
      <4> QED
        BY <2>1, <3>2, <4>1, <4>2
    <3>3. CASE Count(queue) # MAX_JOBS_QUEUE
      <4> DEFINE c == [pc EXCEPT ![t] = "idle"]
      <4>1. c \in [Threads -> Stages]
        BY <2>1 DEF Stages
      <4>2. pc' \in Signal(c, "getWait", "get") /\ queue' = PutInto(queue, arg[t])
        BY <2>3, <3>3 DEF PutJob
      <4>3. Count(queue)' = Count(queue) + 1
        BY <2>1, <3>3, <4>2, CountPut
      <4>0. Moves(pc, c, t, "put", "idle")
        BY <2>1, <3>1 DEF Moves
      <4> HIDE DEF c
      <4>4. /\ ThreadsIn(c, "get") = In("get")
            /\ ThreadsIn(c, "getWait") = In("getWait")
            /\ ThreadsIn(c, "putWait") = In("putWait")
            /\ Cardinality(ThreadsIn(c, "put")) = Cardinality(In("put")) - 1
        BY <4>0, Move
      <4>5. /\ InP("put") = ThreadsIn(c, "put")
            /\ InP("putWait") = ThreadsIn(c, "putWait")
            /\ InP("getWait") # {} =>
                 /\ ThreadsIn(c, "getWait") # {}
                 /\ Cardinality(InP("get")) = Cardinality(ThreadsIn(c, "get")) + 1
        BY <4>1, <4>2, SignalWakes
      <4> QED
        BY <2>1, <4>3, <4>4, <4>5
    <3> QED
      BY <3>2, <3>3
  <2>4. ASSUME NEW t \in Getters, CallGet(t)
        PROVE  NoLostWakeup'
    <3>1. Moves(pc, pc', t, "idle", "get")
      BY <2>1, <2>4 DEF CallGet, Threads, Moves
    <3>2. /\ InP("put") = In("put") /\ InP("putWait") = In("putWait")
          /\ InP("getWait") = In("getWait")
          /\ Cardinality(InP("get")) = Cardinality(In("get")) + 1
      BY <3>1, Move
    <3>3. queue' = queue
      BY <2>4 DEF CallGet
    <3> QED
      BY <2>1, <3>2, <3>3
  <2>5. ASSUME NEW t \in Getters, GetJob(t)
        PROVE  NoLostWakeup'
    <3>1. t \in Threads /\ pc[t] = "get"
      BY <2>5 DEF GetJob, Threads
    <3>2. CASE Count(queue) = 0
      <4>1. Moves(pc, pc', t, "get", "getWait") /\ queue' = queue
        BY <2>1, <2>5, <3>1, <3>2 DEF Moves, GetJob
      <4>2. InP("put") = In("put") /\ InP("putWait") = In("putWait")
        BY <4>1, Move
      <4> QED
        BY <2>1, <3>2, <4>1, <4>2
    <3>3. CASE Count(queue) # 0
      <4> DEFINE c == [pc EXCEPT ![t] = "idle"]
      <4>1. c \in [Threads -> Stages]
        BY <2>1 DEF Stages
      <4>2. pc' \in Signal(c, "putWait", "put") /\ queue' = TakeFrom(queue)
        BY <2>5, <3>3 DEF GetJob
      <4>3. Count(queue)' = Count(queue) - 1
        BY <2>1, <3>3, <4>2, CountTake
      <4>0. Moves(pc, c, t, "get", "idle")
        BY <2>1, <3>1 DEF Moves
      <4> HIDE DEF c
      <4>4. /\ ThreadsIn(c, "put") = In("put")
            /\ ThreadsIn(c, "putWait") = In("putWait")
            /\ ThreadsIn(c, "getWait") = In("getWait")
            /\ Cardinality(ThreadsIn(c, "get")) = Cardinality(In("get")) - 1
        BY <4>0, Move
      <4>5. /\ InP("get") = ThreadsIn(c, "get")
            /\ InP("getWait") = ThreadsIn(c, "getWait")
            /\ InP("putWait") # {} =>
                 /\ ThreadsIn(c, "putWait") # {}
                 /\ Cardinality(InP("put")) = Cardinality(ThreadsIn(c, "put")) + 1
        BY <4>1, <4>2, SignalWakes
      <4> QED
        BY <2>1, <4>3, <4>4, <4>5
    <3> QED
      BY <3>2, <3>3
  <2>6. ASSUME NEW jobid \in Removed, RemoveJob(jobid)
        PROVE  NoLostWakeup'
    <3>1. CASE ShiftOverruns(queue)
      <4>1. queue' = queue /\ pc' = pc
        BY <2>6, <3>1 DEF RemoveJob
      <4> QED
        BY <4>1
    <3>2. CASE ~ShiftOverruns(queue)
      <4>1. /\ pc' \in Signal(pc, "putWait", "put")
            /\ queue' = RemoveFrom(queue, jobid) /\ Count(queue) # 0
        BY <2>6, <3>2 DEF RemoveJob
      <4>2. Count(queue)' = Count(queue) - 1
        BY <2>1, <4>1, CountRemove
      <4>3. /\ InP("get") = In("get") /\ InP("getWait") = In("getWait")
            /\ InP("putWait") # {} =>
                 /\ In("putWait") # {}
                 /\ Cardinality(InP("put")) = Cardinality(In("put")) + 1
        BY <2>1, <4>1, SignalWakes
      <4> QED
        BY <2>1, <4>2, <4>3
    <3> QED
      BY <3>1, <3>2
  <2>7. ASSUME NEW t \in Threads, SpuriousWakeup(t)
        PROVE  NoLostWakeup'
    <3>1. CASE pc[t] = "putWait" /\ pc' = [pc EXCEPT ![t] = "put"]
      <4>0. Moves(pc, pc', t, "putWait", "put") /\ In("putWait") # {}
        BY <2>1, <3>1 DEF Moves, ThreadsIn
      <4>1. /\ InP("get") = In("get") /\ InP("getWait") = In("getWait")
            /\ Cardinality(InP("put")) = Cardinality(In("put")) + 1
            /\ In("putWait") # {}
        BY <4>0, Move
      <4> QED
        BY <2>1, <2>7, <4>1 DEF SpuriousWakeup
    <3>2. CASE pc[t] = "getWait" /\ pc' = [pc EXCEPT ![t] = "get"]
      <4>0. Moves(pc, pc', t, "getWait", "get") /\ In("getWait") # {}
        BY <2>1, <3>2 DEF Moves, ThreadsIn
      <4>1. /\ InP("put") = In("put") /\ InP("putWait") = In("putWait")
            /\ Cardinality(InP("get")) = Cardinality(In("get")) + 1
            /\ In("getWait") # {}
        BY <4>0, Move
      <4> QED
        BY <2>1, <2>7, <4>1 DEF SpuriousWakeup
    <3> QED
      BY <2>7, <3>1, <3>2 DEF SpuriousWakeup
  <2>8. CASE UNCHANGED vars
    BY <2>8 DEF vars
  <2> QED
    BY <2>2, <2>3, <2>4, <2>5, <2>6, <2>7, <2>8 DEF Next
<1> QED
  BY <1>1, <1>2, TypeCorrect, StateTellsFullCorrect, PTL DEF Spec

-----------------------------------------------------------------------------
(***************************************************************************)
(* The ring is a bounded FIFO queue: the refinement of BoundedFifo.        *)
(***************************************************************************)
\* A well-formed queue that holds no more jobs than it has slots.
Pointers == Jobs \cup {NoJob}
GoodQueue(q) == q \in QueueType(Jobs) /\ Count(q) <= MAX_JOBS_QUEUE

\* The k-th index after i, round the wrap.
LEMMA IdxAddType ==
  ASSUME NEW i \in Indices, NEW k \in 0 .. IDX_MOD - 1
  PROVE  IdxAdd(i, k) \in Indices
BY RingAssumption DEF IdxAdd, Indices

\* What is in a queue is a sequence as long as its count.
LEMMA ItemsType ==
  ASSUME NEW q, GoodQueue(q)
  PROVE  /\ Count(q) \in Nat
         /\ Items(q) \in Seq(Pointers)
         /\ Len(Items(q)) = Count(q)
         /\ \A k \in 1 .. Count(q) : Items(q)[k] = q.jobs[Slot(IdxAdd(q.get_idx, k - 1))]
<1>1. q.put_idx \in Indices /\ q.get_idx \in Indices /\ q.jobs \in [Slots -> Pointers]
  BY DEF GoodQueue, QueueType, Pointers
<1>2. Count(q) \in 0 .. IDX_MOD - 1
  BY <1>1, CountType
<1>3. ASSUME NEW k \in 1 .. Count(q)
      PROVE  q.jobs[Slot(IdxAdd(q.get_idx, k - 1))] \in Pointers
  <2>1. k - 1 \in 0 .. IDX_MOD - 1
    BY <1>2, RingAssumption
  <2>2. Slot(IdxAdd(q.get_idx, k - 1)) \in Slots
    BY <1>1, <2>1, IdxAddType, SlotType
  <2> QED
    BY <1>1, <2>2
<1>4. Items(q) \in [1 .. Count(q) -> Pointers] /\ Count(q) \in Nat
  BY <1>2, <1>3, RingAssumption DEF Items
<1>5. Items(q) \in Seq(Pointers)
  BY <1>4, SeqDef
<1>6. Len(Items(q)) = Count(q)
  BY <1>4, <1>5, LenProperties
<1> QED
  BY <1>4, <1>5, <1>6 DEF Items

\* The index after the newest job is put_idx.
LEMMA IdxAddCount ==
  ASSUME NEW q, q.put_idx \in Indices, q.get_idx \in Indices
  PROVE  IdxAdd(q.get_idx, Count(q)) = q.put_idx
BY RingAssumption DEF IdxAdd, Count, Indices

-----------------------------------------------------------------------------
\* sendJob takes the oldest job, and the others keep their order.
LEMMA TakeIsTail ==
  ASSUME NEW q, GoodQueue(q), Count(q) # 0
  PROVE  Items(q) # <<>> /\ Items(TakeFrom(q)) = Tail(Items(q))
<1> DEFINE r == TakeFrom(q)
           n == Count(q)
<1>1. q.put_idx \in Indices /\ q.get_idx \in Indices
  BY DEF GoodQueue, QueueType
<1>2. n \in Nat \ {0} /\ n <= IDX_MOD - 1
  BY <1>1, CountType, RingAssumption
<1>3. Count(r) = n - 1
  BY <1>1, CountTake
<1>4. GoodQueue(r)
  BY <1>2, <1>3, QueueOpsType, RingAssumption DEF GoodQueue
<1>5. /\ Items(q) \in Seq(Pointers) /\ Len(Items(q)) = n
      /\ \A k \in 1 .. n : Items(q)[k] = q.jobs[Slot(IdxAdd(q.get_idx, k - 1))]
  BY ItemsType
<1>6. /\ Items(r) \in Seq(Pointers) /\ Len(Items(r)) = n - 1
      /\ \A k \in 1 .. n - 1 : Items(r)[k] = r.jobs[Slot(IdxAdd(r.get_idx, k - 1))]
  BY <1>3, <1>4, ItemsType
<1>7. r.get_idx = Inc(q.get_idx) /\ r.jobs = q.jobs
  BY DEF TakeFrom
<1>8. ASSUME NEW k \in 1 .. n - 1
      PROVE  IdxAdd(Inc(q.get_idx), k - 1) = IdxAdd(q.get_idx, k)
  BY <1>1, <1>2, RingAssumption DEF IdxAdd, Inc, Indices
<1> HIDE DEF r, n
<1>9. ASSUME NEW k \in 1 .. n - 1
      PROVE  Items(r)[k] = Items(q)[k + 1]
  <2>1. k + 1 \in 1 .. n /\ (k + 1) - 1 = k
    BY <1>2
  <2> QED
    BY <1>5, <1>6, <1>7, <1>8, <2>1
<1>10. Items(q) # <<>>
  BY <1>2, <1>5, EmptySeq
<1>11. /\ Tail(Items(q)) \in Seq(Pointers) /\ Len(Tail(Items(q))) = n - 1
       /\ \A k \in 1 .. n - 1 : Tail(Items(q))[k] = Items(q)[k + 1]
  BY <1>5, <1>10, HeadTailProperties
<1>12. Items(r) = Tail(Items(q))
  BY <1>6, <1>9, <1>11, SeqEqual
<1> QED
  BY <1>10, <1>12 DEF r

-----------------------------------------------------------------------------
\* InOrder, of any queue.
Ordered(q) == q.get_idx <= q.put_idx \/ IDX_MOD % MAX_JOBS_QUEUE = 0

\* The slot k after another one, round the end of the array.
Along(s, k) == IF s + k < MAX_JOBS_QUEUE THEN s + k ELSE s + k - MAX_JOBS_QUEUE

\* In an ordered queue the slots of the jobs follow each other, up to the slot
\* that the next job is put into.
LEMMA SlotsFollow ==
  ASSUME NEW q, GoodQueue(q), Ordered(q), NEW k \in 0 .. Count(q)
  PROVE  Slot(IdxAdd(q.get_idx, k)) = Along(Slot(q.get_idx), k)
<1> DEFINE g == q.get_idx
           N == MAX_JOBS_QUEUE
           x == g + k
<1>1. /\ g \in Indices /\ q.put_idx \in Indices
      /\ N \in Nat \ {0} /\ IDX_MOD \in Nat
      /\ Count(q) \in Nat /\ Count(q) <= N
  BY RingAssumption, CountType DEF GoodQueue, QueueType
<1>2. g \in Nat /\ k \in 0 .. N /\ x \in Nat
  BY <1>1 DEF Indices
<1>3. x % N = Along(g % N, k)
  <2>1. ASSUME (g % N) + k < N PROVE (g + k) % N = (g % N) + k
    BY <1>1, <1>2, <2>1, ModAddBelow, Zenon
  <2>2. ASSUME (g % N) + k >= N PROVE (g + k) % N = (g % N) + k - N
    BY <1>1, <1>2, <2>2, ModAddAbove, Zenon
  <2>3. g % N \in 0 .. N - 1
    BY <1>1, <1>2, DivMod
  <2> QED
    BY <1>1, <1>2, <2>1, <2>2, <2>3 DEF Along
<1>4. Slot(IdxAdd(g, k)) = x % N
  <2>1. CASE x < IDX_MOD
    <3>1. IdxAdd(g, k) = x
      BY <1>1, <1>2, <2>1 DEF IdxAdd
    <3> QED
      BY <3>1 DEF Slot
  <2>2. CASE x >= IDX_MOD
    <3>1. IdxAdd(g, k) = x - IDX_MOD
      BY <1>1, <1>2, <2>2 DEF IdxAdd
    <3>2. IDX_MOD % N = 0
      BY <1>1, <1>2, <2>2 DEF Ordered, Count, Indices
    <3> HIDE DEF x
    <3>3. (x - IDX_MOD) % N = x % N
      BY <1>1, <1>2, <2>2, <3>2, ModMinus
    <3> QED
      BY <3>1, <3>3 DEF Slot
  <2> QED
    BY <1>1, <1>2, <2>1, <2>2
<1> QED
  BY <1>3, <1>4 DEF Slot

\* putJob puts the job behind all the others and overwrites none of them.
LEMMA PutIsAppend ==
  ASSUME NEW q, GoodQueue(q), Ordered(q), Count(q) # MAX_JOBS_QUEUE, NEW job \in Pointers
  PROVE  /\ Len(Items(q)) < MAX_JOBS_QUEUE
         /\ Items(PutInto(q, job)) = Append(Items(q), job)
<1> DEFINE r == PutInto(q, job)
           n == Count(q)
           N == MAX_JOBS_QUEUE
           g == q.get_idx
           At(k) == Slot(IdxAdd(g, k))
<1>1. g \in Indices /\ q.put_idx \in Indices /\ Slot(g) \in 0 .. N - 1 /\ N \in Nat \ {0}
  BY SlotType, RingAssumption DEF GoodQueue, QueueType, Slots
<1>2. n \in Nat /\ n < N
  BY <1>1, CountType, RingAssumption DEF GoodQueue
<1>3. Count(r) = n + 1
  BY <1>1, <1>2, CountPut, RingAssumption
<1>4. GoodQueue(r)
  <2>1. r \in QueueType(Jobs)
    BY QueueOpsType DEF GoodQueue, Pointers
  <2> QED
    BY <1>1, <1>2, <1>3, <2>1 DEF GoodQueue
<1>5. /\ Items(q) \in Seq(Pointers) /\ Len(Items(q)) = n
      /\ \A k \in 1 .. n : Items(q)[k] = q.jobs[At(k - 1)]
  BY ItemsType
<1>6. r.get_idx = g /\ r.jobs = [q.jobs EXCEPT ![At(n)] = job]
  BY <1>1, IdxAddCount DEF PutInto
<1>7. /\ Items(r) \in Seq(Pointers) /\ Len(Items(r)) = n + 1
      /\ \A k \in 1 .. n + 1 : Items(r)[k] = r.jobs[At(k - 1)]
  BY <1>3, <1>4, <1>6, ItemsType
<1>8. q.jobs \in [Slots -> Pointers] /\ \A k \in 0 .. n : At(k) \in Slots
  <2>1. ASSUME NEW k \in 0 .. n PROVE At(k) \in Slots
    <3>1. k \in 0 .. IDX_MOD - 1
      BY <1>1, <1>2, RingAssumption
    <3> QED
      BY <1>1, <3>1, IdxAddType, SlotType
  <2> QED
    BY <2>1 DEF GoodQueue, QueueType, Pointers
<1>9. \A k \in 0 .. n : At(k) = Along(Slot(g), k)
  BY <1>2, SlotsFollow
<1> HIDE DEF r, n, N, At
<1>10. ASSUME NEW k \in 1 .. n PROVE At(k - 1) # At(n)
  <2>1. k - 1 \in 0 .. n /\ n \in 0 .. n /\ n - (k - 1) \in 1 .. N - 1
    BY <1>1, <1>2
  <2> QED
    BY <1>1, <1>2, <1>9, <2>1 DEF Along, N
<1>11. ASSUME NEW k \in 1 .. n + 1
       PROVE  Items(r)[k] = IF k <= n THEN Items(q)[k] ELSE job
  <2>1. CASE k <= n
    <3>1. k \in 1 .. n /\ k - 1 \in 0 .. n
      BY <1>2, <2>1
    <3>2. r.jobs[At(k - 1)] = q.jobs[At(k - 1)]
      BY <1>6, <1>8, <1>10, <3>1
    <3> QED
      BY <1>5, <1>7, <2>1, <3>1, <3>2
  <2>2. CASE k = n + 1
    <3>1. k - 1 = n /\ n \in 0 .. n /\ ~(k <= n)
      BY <1>2, <2>2
    <3> QED
      BY <1>6, <1>7, <1>8, <3>1
  <2> QED
    BY <1>2, <2>1, <2>2
<1>12. /\ Append(Items(q), job) \in Seq(Pointers)
       /\ Len(Append(Items(q), job)) = n + 1
       /\ \A k \in 1 .. n : Append(Items(q), job)[k] = Items(q)[k]
       /\ Append(Items(q), job)[n + 1] = job
  BY <1>5, AppendProperties
<1>13. ASSUME NEW k \in 1 .. n + 1
       PROVE  Append(Items(q), job)[k] = IF k <= n THEN Items(q)[k] ELSE job
  <2> DEFINE s == Append(Items(q), job)
  <2>0. s[n + 1] = job /\ \A i \in 1 .. n : s[i] = Items(q)[i]
    BY <1>12
  <2> HIDE DEF s
  <2>1. CASE k <= n
    <3>1. k \in 1 .. n
      BY <1>2, <2>1
    <3> QED
      BY <2>0, <2>1, <3>1 DEF s
  <2>2. CASE k = n + 1
    <3>1. ~(k <= n)
      BY <1>2, <2>2
    <3>2. s[k] = job
      BY <2>0, <2>2
    <3> QED
      BY <3>1, <3>2 DEF s
  <2>3. k <= n \/ k = n + 1
    BY <1>2
  <2> QED
    BY <2>1, <2>2, <2>3
<1>14. Items(r) = Append(Items(q), job)
  BY <1>7, <1>11, <1>12, <1>13, SeqEqual
<1> QED
  BY <1>2, <1>5, <1>14 DEF r, N

-----------------------------------------------------------------------------
\* A sequence without its k-th element.
Without(s, k) == SubSeq(s, 1, k - 1) \o SubSeq(s, k + 1, Len(s))

\* What is left, and where.
LEMMA WithoutProperties ==
  ASSUME NEW S, NEW s \in Seq(S), NEW k \in 1 .. Len(s)
  PROVE  /\ Without(s, k) \in Seq(S)
         /\ Len(Without(s, k)) = Len(s) - 1
         /\ \A i \in 1 .. Len(s) - 1 : Without(s, k)[i] = IF i < k THEN s[i] ELSE s[i + 1]
<1> DEFINE n == Len(s)
           a == SubSeq(s, 1, k - 1)
           b == SubSeq(s, k + 1, n)
<1>1. n \in Nat /\ \A i \in 1 .. n : s[i] \in S
  BY LenProperties, ElementOfSeq
<1>2. k \in 1 .. n /\ k - 1 \in Int /\ k + 1 \in Int /\ n \in Int
  BY <1>1
<1>3. a \in Seq(S) /\ Len(a) = k - 1 /\ \A i \in 1 .. k - 1 : a[i] = s[i]
  <2>1. \A i \in 1 .. k - 1 : s[i] \in S
    BY <1>1, <1>2
  <2>2. /\ a \in Seq(S)
        /\ Len(a) = IF 1 <= k - 1 THEN (k - 1) - 1 + 1 ELSE 0
        /\ \A i \in 1 .. (k - 1) - 1 + 1 : a[i] = s[1 + i - 1]
    BY <1>2, <2>1, SubSeqProperties
  <2> HIDE DEF a
  <2>3. ASSUME NEW i \in 1 .. k - 1 PROVE a[i] = s[i]
    <3>1. i \in 1 .. (k - 1) - 1 + 1 /\ 1 + i - 1 = i
      BY <1>2
    <3> QED
      BY <2>2, <3>1
  <2>4. Len(a) = k - 1
    BY <1>2, <2>2
  <2> QED
    BY <2>2, <2>3, <2>4
<1>4. b \in Seq(S) /\ Len(b) = n - k /\ \A i \in 1 .. n - k : b[i] = s[k + i]
  <2>1. \A i \in k + 1 .. n : s[i] \in S
    BY <1>1, <1>2
  <2>2. /\ b \in Seq(S)
        /\ Len(b) = IF k + 1 <= n THEN n - (k + 1) + 1 ELSE 0
        /\ \A i \in 1 .. n - (k + 1) + 1 : b[i] = s[(k + 1) + i - 1]
    BY <1>2, <2>1, SubSeqProperties
  <2> HIDE DEF b
  <2>3. ASSUME NEW i \in 1 .. n - k PROVE b[i] = s[k + i]
    <3>1. i \in 1 .. n - (k + 1) + 1 /\ (k + 1) + i - 1 = k + i
      BY <1>2
    <3> QED
      BY <2>2, <3>1
  <2>4. Len(b) = n - k
    BY <1>2, <2>2
  <2> QED
    BY <2>2, <2>3, <2>4
<1> DEFINE c == a \o b
<1>5. Without(s, k) = c
  BY DEF Without
<1> HIDE DEF a, b, n
<1>6. /\ c \in Seq(S) /\ Len(c) = Len(a) + Len(b)
      /\ \A i \in 1 .. Len(a) + Len(b) :
           c[i] = IF i <= Len(a) THEN a[i] ELSE b[i - Len(a)]
  BY <1>3, <1>4, ConcatProperties
<1> HIDE DEF c
<1>7. Len(c) = n - 1
  BY <1>2, <1>3, <1>4, <1>6
<1>8. ASSUME NEW i \in 1 .. n - 1
      PROVE  c[i] = IF i < k THEN s[i] ELSE s[i + 1]
  <2>1. CASE i < k
    <3>1. i \in 1 .. k - 1 /\ i \in 1 .. Len(a) + Len(b) /\ i <= Len(a)
      BY <1>2, <1>3, <1>4, <2>1
    <3> QED
      BY <1>3, <1>6, <2>1, <3>1
  <2>2. CASE ~(i < k)
    <3>1. /\ i - (k - 1) \in 1 .. n - k /\ i \in 1 .. Len(a) + Len(b)
          /\ ~(i <= Len(a)) /\ i - Len(a) = i - (k - 1) /\ k + (i - (k - 1)) = i + 1
      BY <1>2, <1>3, <1>4, <2>2
    <3> QED
      BY <1>4, <1>6, <2>2, <3>1
  <2> QED
    BY <2>1, <2>2
<1> QED
  BY <1>5, <1>6, <1>7, <1>8 DEF n

\* As long as the queued jobs do not go round the end of the array, the k-th of
\* them is k - 1 slots after the first.
LEMMA InARow ==
  ASSUME NEW q, GoodQueue(q), Ordered(q), Slot(q.get_idx) < Slot(q.put_idx)
  PROVE  /\ Count(q) = Slot(q.put_idx) - Slot(q.get_idx)
         /\ \A k \in 1 .. Count(q) : Items(q)[k] = q.jobs[Slot(q.get_idx) + k - 1]
<1> DEFINE g == Slot(q.get_idx)
           t == Slot(q.put_idx)
           n == Count(q)
           N == MAX_JOBS_QUEUE
<1>1. q.get_idx \in Indices /\ q.put_idx \in Indices
  BY DEF GoodQueue, QueueType
<1>2. g \in 0 .. N - 1 /\ t \in 0 .. N - 1 /\ N \in Nat \ {0} /\ g < t
  BY <1>1, SlotType, RingAssumption DEF Slots
<1>3. n \in Nat /\ n <= N
  BY ItemsType DEF GoodQueue
<1>4. \A k \in 0 .. n : Slot(IdxAdd(q.get_idx, k)) = Along(g, k)
  BY SlotsFollow
<1>5. t = Along(g, n)
  BY <1>1, <1>3, <1>4, IdxAddCount
<1>6. \A k \in 1 .. n : Items(q)[k] = q.jobs[Slot(IdxAdd(q.get_idx, k - 1))]
  BY ItemsType
<1> HIDE DEF g, t, n
<1>7. n = t - g
  BY <1>2, <1>3, <1>5 DEF Along
<1>8. ASSUME NEW k \in 1 .. n PROVE Items(q)[k] = q.jobs[g + k - 1]
  <2>1. k - 1 \in 0 .. n /\ Along(g, k - 1) = g + k - 1
    BY <1>2, <1>3, <1>7 DEF Along
  <2> QED
    BY <1>4, <1>6, <2>1
<1> QED
  BY <1>7, <1>8 DEF g, t, n

\* removeJob, unless it leaves the array, takes one job out and leaves the others
\* in their order.  The one it takes has the id that it was asked for, if its
\* first loop met such a job; otherwise it is the newest.
LEMMA RemoveIsWithdraw ==
  ASSUME NEW q, GoodQueue(q), Ordered(q), Count(q) # 0, ~ShiftOverruns(q), NEW jobid
  PROVE  \E k \in 1 .. Count(q) :
           /\ Items(RemoveFrom(q, jobid)) = Without(Items(q), k)
           /\ Matches(q, jobid) # {} => Items(q)[k].id = jobid
           /\ Matches(q, jobid) = {} => k = Count(q)
<1> DEFINE r == RemoveFrom(q, jobid)
           g == Slot(q.get_idx)
           t == Slot(q.put_idx)
           n == Count(q)
           N == MAX_JOBS_QUEUE
           m == Matches(q, jobid)
           idx == ScanEnd(q, jobid)
           At(k) == Slot(IdxAdd(q.get_idx, k))
<1>1. q.get_idx \in Indices /\ q.put_idx \in Indices
  BY DEF GoodQueue, QueueType
<1>2. g \in 0 .. N - 1 /\ t \in 1 .. N - 1 /\ N \in Nat \ {0}
  BY <1>1, SlotType, RingAssumption DEF Slots, ShiftOverruns
<1>3. n \in Nat \ {0} /\ n <= N /\ n <= IDX_MOD - 1
  BY <1>1, ItemsType, CountType, RingAssumption DEF GoodQueue
<1>4. Count(r) = n - 1
  BY <1>1, CountRemove
<1>5. GoodQueue(r)
  <2>1. r \in QueueType(Jobs)
    BY QueueOpsType DEF GoodQueue
  <2> QED
    BY <1>2, <1>3, <1>4, <2>1 DEF GoodQueue
<1>6. /\ Items(q) \in Seq(Pointers) /\ Len(Items(q)) = n
      /\ \A k \in 1 .. n : Items(q)[k] = q.jobs[At(k - 1)]
  BY ItemsType
<1>7. r.get_idx = q.get_idx
  BY DEF RemoveFrom
<1>8. /\ Items(r) \in Seq(Pointers) /\ Len(Items(r)) = n - 1
      /\ \A k \in 1 .. n - 1 : Items(r)[k] = r.jobs[At(k - 1)]
  BY <1>4, <1>5, <1>7, ItemsType
<1>9. \A s \in Slots : r.jobs[s] = IF idx <= s /\ s < t - 1 THEN q.jobs[s + 1] ELSE q.jobs[s]
  BY DEF RemoveFrom
<1>10. \A k \in 0 .. n - 1 : At(k) \in Slots
  <2>1. ASSUME NEW k \in 0 .. n - 1 PROVE At(k) \in Slots
    <3>1. k \in 0 .. IDX_MOD - 1
      BY <1>3, RingAssumption
    <3> QED
      BY <1>1, <3>1, IdxAddType, SlotType
  <2> QED
    BY <2>1
<1>11. /\ m \in SUBSET (g .. t - 1) /\ \A i \in m : q.jobs[i].id = jobid
       /\ idx = IF m # {} THEN Min(m) ELSE Max({g, t})
  BY DEF Matches, ScanEnd
<1>12. m # {} => idx \in m
  <2>1. m \in SUBSET Nat
    BY <1>2, <1>11
  <2> HIDE DEF m, idx
  <2> QED
    BY <1>11, <2>1, MinOfNaturals
<1>13. m = {} => idx \in Nat /\ idx >= g /\ idx >= t
  <2> HIDE DEF m, idx, g, t
  <2>1. PICK y \in {g, t} : \A z \in {g, t} : y >= z
    <3>1. CASE g >= t
      BY <1>2, <3>1
    <3>2. CASE t >= g
      BY <1>2, <3>2
    <3> QED
      BY <1>2, <3>1, <3>2
  <2>2. Max({g, t}) \in {g, t} /\ \A z \in {g, t} : Max({g, t}) >= z
    BY <2>1 DEF Max
  <2> QED
    BY <1>2, <1>11, <2>2
<1>14. m # {} => /\ g < t
                 /\ n = t - g
                 /\ \A k \in 1 .. n : Items(q)[k] = q.jobs[g + k - 1]
  <2>1. m # {} => g < t
    BY <1>2, <1>11
  <2> QED
    BY <2>1, InARow
<1>15. m # {} => \A k \in 0 .. n - 1 : At(k) = g + k
  <2> SUFFICES ASSUME m # {}, NEW k \in 0 .. n - 1 PROVE At(k) = g + k
    OBVIOUS
  <2>1. k \in 0 .. n
    BY <1>3
  <2>2. At(k) = Along(g, k)
    BY <2>1, SlotsFollow
  <2>3. g + k < N
    BY <1>2, <1>3, <1>14
  <2> QED
    BY <2>2, <2>3 DEF Along
<1> SUFFICES \E k \in 1 .. n : /\ Items(r) = Without(Items(q), k)
                               /\ m # {} => Items(q)[k].id = jobid
                               /\ m = {} => k = n
  OBVIOUS
<1> HIDE DEF r, g, t, n, m, idx, At, N
<1>16. ASSUME NEW k \in 1 .. n,
              \A i \in 1 .. n - 1 : Items(r)[i] = IF i < k THEN Items(q)[i] ELSE Items(q)[i + 1]
       PROVE  Items(r) = Without(Items(q), k)
  <2> DEFINE w == Without(Items(q), k)
             v == Items(r)
             u == Items(q)
  <2>1. /\ w \in Seq(Pointers) /\ Len(w) = n - 1
        /\ \A i \in 1 .. n - 1 : w[i] = IF i < k THEN u[i] ELSE u[i + 1]
    BY <1>6, WithoutProperties
  <2>2. /\ v \in Seq(Pointers) /\ Len(v) = n - 1
        /\ \A i \in 1 .. n - 1 : v[i] = IF i < k THEN u[i] ELSE u[i + 1]
    BY <1>8, <1>16
  <2> HIDE DEF w, v, u
  <2>3. v = w
    BY <2>1, <2>2, SeqEqual
  <2> QED
    BY <2>3 DEF v, w
<1>17. CASE m # {}
  <2> DEFINE k == idx - g + 1
  <2>1. k \in 1 .. n /\ g + k - 1 = idx /\ idx \in g .. t - 1 /\ q.jobs[idx].id = jobid
    <3>1. idx \in g .. t - 1 /\ q.jobs[idx].id = jobid
      BY <1>11, <1>12, <1>17
    <3>2. n = t - g
      BY <1>14, <1>17
    <3> QED
      BY <1>2, <3>1, <3>2
  <2> HIDE DEF k
  <2>2. Items(q)[k].id = jobid
    BY <1>14, <1>17, <2>1
  <2>3. ASSUME NEW i \in 1 .. n - 1
        PROVE  Items(r)[i] = IF i < k THEN Items(q)[i] ELSE Items(q)[i + 1]
    <3> DEFINE s == g + i - 1
    <3>1. /\ i - 1 \in 0 .. n - 1 /\ i \in 1 .. n /\ i + 1 \in 1 .. n
          /\ g + (i - 1) = s /\ g + (i + 1) - 1 = s + 1 /\ s < t - 1
      BY <1>2, <1>3, <1>14, <1>17
    <3>2. At(i - 1) = s /\ s \in Slots
      BY <1>10, <1>15, <1>17, <3>1
    <3>3. Items(q)[i] = q.jobs[s] /\ Items(q)[i + 1] = q.jobs[s + 1]
      BY <1>14, <1>17, <3>1
    <3>4. Items(r)[i] = r.jobs[s]
      BY <1>8, <3>2
    <3>5. i < k <=> ~(idx <= s)
      BY <1>2, <2>1, <3>1
    <3> HIDE DEF s
    <3> QED
      BY <1>9, <3>1, <3>2, <3>3, <3>4, <3>5
  <2>4. Items(r) = Without(Items(q), k)
    BY <1>16, <2>1, <2>3
  <2> QED
    BY <1>17, <2>1, <2>2, <2>4
<1>18. CASE m = {}
  <2>1. n \in 1 .. n
    BY <1>3
  <2>2. ASSUME NEW i \in 1 .. n - 1
        PROVE  Items(r)[i] = IF i < n THEN Items(q)[i] ELSE Items(q)[i + 1]
    <3>1. i - 1 \in 0 .. n - 1 /\ i \in 1 .. n /\ i < n
      BY <1>3
    <3>2. \A s \in Slots : ~(idx <= s /\ s < t - 1)
      BY <1>2, <1>13, <1>18 DEF Slots
    <3>3. r.jobs[At(i - 1)] = q.jobs[At(i - 1)]
      BY <1>9, <1>10, <3>1, <3>2
    <3> QED
      BY <1>6, <1>8, <3>1, <3>3
  <2>3. Items(r) = Without(Items(q), n)
    BY <1>16, <2>1, <2>2
  <2> QED
    BY <1>18, <2>1, <2>3
<1> QED
  BY <1>17, <1>18

-----------------------------------------------------------------------------
\* A thread in putJob has a job to put.
ArgIsJob == \A t \in Threads : pc[t] \in {"put", "putWait"} => arg[t] \in Jobs

\* A signal puts no thread into putJob but from its wait, and so leaves the
\* arguments of the calls alone.
LEMMA SignalKeepsArg ==
  ASSUME NEW c \in [Threads -> Stages], NEW d,
         \/ d \in Signal(c, "getWait", "get")
         \/ d \in Signal(c, "putWait", "put")
  PROVE  \A t \in Threads : d[t] \in {"put", "putWait"} => c[t] \in {"put", "putWait"}
BY DEF Signal, ThreadsIn

\* Whatever the threads do, a job is what putJob puts in.
THEOREM ArgIsJobCorrect == Spec => []ArgIsJob
<1>1. Init => ArgIsJob
  BY DEF Init, ArgIsJob
<1>2. TypeOK /\ ArgIsJob /\ [Next]_vars => ArgIsJob'
  <2> SUFFICES ASSUME TypeOK, ArgIsJob, [Next]_vars
               PROVE  ArgIsJob'
    OBVIOUS
  <2> USE DEF ArgIsJob
  <2>0. pc \in [Threads -> Stages] /\ arg \in [Threads -> Pointers]
    BY DEF TypeOK, Pointers
  <2>1. ASSUME NEW t \in Putters, NEW job \in Jobs, CallPut(t, job)
        PROVE  ArgIsJob'
    BY <2>0, <2>1 DEF CallPut
  <2>2. ASSUME NEW t \in Putters, PutJob(t)
        PROVE  ArgIsJob'
    <3>0. t \in Threads
      BY DEF Threads
    <3>1. CASE Count(queue) = MAX_JOBS_QUEUE
      BY <2>0, <2>2, <3>1 DEF PutJob
    <3>2. CASE Count(queue) # MAX_JOBS_QUEUE
      <4> DEFINE c == [pc EXCEPT ![t] = "idle"]
      <4>1. c \in [Threads -> Stages] /\ c[t] = "idle" /\ \A s \in Threads \ {t} : c[s] = pc[s]
        BY <2>0, <3>0 DEF Stages
      <4>2. pc' \in Signal(c, "getWait", "get") /\ arg' = [arg EXCEPT ![t] = NoJob]
        BY <2>2, <3>2 DEF PutJob
      <4> HIDE DEF c
      <4>3. \A s \in Threads : pc'[s] \in {"put", "putWait"} => c[s] \in {"put", "putWait"}
        BY <4>1, <4>2, SignalKeepsArg
      <4> QED
        BY <2>0, <3>0, <4>1, <4>2, <4>3
    <3> QED
      BY <3>1, <3>2
  <2>3. ASSUME NEW t \in Getters, CallGet(t)
        PROVE  ArgIsJob'
    BY <2>0, <2>3 DEF CallGet
  <2>4. ASSUME NEW t \in Getters, GetJob(t)
        PROVE  ArgIsJob'
    <3>1. CASE Count(queue) = 0
      BY <2>0, <2>4, <3>1 DEF GetJob
    <3>2. CASE Count(queue) # 0
      <4> DEFINE c == [pc EXCEPT ![t] = "idle"]
      <4>1. c \in [Threads -> Stages] /\ \A s \in Threads : c[s] \in {pc[s], "idle"}
        BY <2>0 DEF Stages
      <4>2. pc' \in Signal(c, "putWait", "put") /\ arg' = arg
        BY <2>4, <3>2 DEF GetJob
      <4> HIDE DEF c
      <4>3. \A s \in Threads : pc'[s] \in {"put", "putWait"} => c[s] \in {"put", "putWait"}
        BY <4>1, <4>2, SignalKeepsArg
      <4> QED
        BY <2>0, <4>1, <4>2, <4>3
    <3> QED
      BY <3>1, <3>2
  <2>5. ASSUME NEW jobid \in Removed, RemoveJob(jobid)
        PROVE  ArgIsJob'
    <3>1. arg' = arg /\ (pc' = pc \/ pc' \in Signal(pc, "putWait", "put"))
      BY <2>5 DEF RemoveJob
    <3>2. \A s \in Threads : pc'[s] \in {"put", "putWait"} => pc[s] \in {"put", "putWait"}
      BY <2>0, <3>1, SignalKeepsArg
    <3> QED
      BY <3>1, <3>2
  <2>6. ASSUME NEW t \in Threads, SpuriousWakeup(t)
        PROVE  ArgIsJob'
    BY <2>0, <2>6 DEF SpuriousWakeup
  <2>7. CASE UNCHANGED vars
    BY <2>7 DEF vars
  <2> QED
    BY <2>1, <2>2, <2>3, <2>4, <2>5, <2>6, <2>7 DEF Next
<1> QED
  BY <1>1, <1>2, TypeCorrect, PTL DEF Spec

-----------------------------------------------------------------------------
\* Every step of the threads is, to the ring, a step of the bounded FIFO queue.
LEMMA FifoStep ==
  ASSUME TypeOK, StateTellsFull, ArgIsJob, InOrder, [Next]_vars
  PROVE  [Fifo!Next]_(Items(queue))
<1>1. GoodQueue(queue) /\ Ordered(queue)
  BY DEF TypeOK, StateTellsFull, GoodQueue, InOrder, Ordered
<1>2. Len(Items(queue)) = Count(queue)
  BY <1>1, ItemsType
<1>3. ASSUME NEW t \in Putters, PutJob(t), Count(queue) # MAX_JOBS_QUEUE
      PROVE  Fifo!Next
  <2>1. queue' = PutInto(queue, arg[t]) /\ arg[t] \in Jobs
    BY <1>3 DEF PutJob, ArgIsJob, Threads
  <2>2. /\ Len(Items(queue)) < MAX_JOBS_QUEUE
        /\ Items(queue)' = Append(Items(queue), arg[t])
    BY <1>1, <1>3, <2>1, PutIsAppend DEF Pointers
  <2>3. Fifo!Put(arg[t])
    BY <2>2 DEF Fifo!Put
  <2> QED
    BY <2>1, <2>3 DEF Fifo!Next
<1>4. ASSUME NEW t \in Getters, GetJob(t), Count(queue) # 0
      PROVE  Fifo!Next
  <2>1. queue' = TakeFrom(queue)
    BY <1>4 DEF GetJob
  <2>2. Items(queue) # <<>> /\ Items(queue)' = Tail(Items(queue))
    BY <1>1, <1>4, <2>1, TakeIsTail
  <2> QED
    BY <2>2 DEF Fifo!Next, Fifo!Take
<1>5. ASSUME NEW jobid \in Removed, RemoveJob(jobid), ~ShiftOverruns(queue)
      PROVE  Fifo!Next
  <2>1. queue' = RemoveFrom(queue, jobid) /\ Count(queue) # 0
    BY <1>5 DEF RemoveJob
  <2>2. PICK k \in 1 .. Count(queue) : Items(queue)' = Without(Items(queue), k)
    BY <1>1, <1>5, <2>1, RemoveIsWithdraw
  <2>3. Fifo!Withdraw(k)
    BY <2>2 DEF Fifo!Withdraw, Without
  <2> QED
    BY <1>2, <2>3 DEF Fifo!Next
<1>6. ASSUME UNCHANGED queue
      PROVE  UNCHANGED Items(queue)
  BY <1>6
<1> QED
  BY <1>3, <1>4, <1>5, <1>6
  DEF Next, vars, CallPut, PutJob, CallGet, GetJob, RemoveJob, SpuriousWakeup

\* For any capacity and any width of the indices, and so for the 15 and 2^32 of the
\* code, each step of the threads is a step of the bounded FIFO queue, except while
\* an index wraps between the jobs and the capacity does not divide the number of
\* its values.
THEOREM FifoInOrderCorrect == Spec => FifoInOrder
<1>1. TypeOK /\ StateTellsFull /\ ArgIsJob /\ [Next]_vars =>
        [InOrder => Fifo!Next \/ UNCHANGED Items(queue)]_vars
  BY FifoStep
<1> QED
  BY <1>1, TypeCorrect, StateTellsFullCorrect, ArgIsJobCorrect, PTL DEF Spec, FifoInOrder

\* Until an index first wraps between two queued jobs, after some 2^32 calls of
\* putJob, the ring implements the bounded FIFO queue.
THEOREM FifoCorrect == Spec /\ []InOrder => FifoSpec
<1>1. TypeOK /\ StateTellsFull /\ ArgIsJob /\ InOrder /\ [Next]_vars
        => [Fifo!Next]_(Items(queue))
  BY FifoStep
<1>2. Init => Fifo!Init
  <2> SUFFICES ASSUME Init PROVE Items(queue) = <<>>
    BY DEF Fifo!Init
  <2>1. queue = QueueInit /\ Count(queue) = 0
    BY DEF Init, QueueInit, Count
  <2> QED
    BY <2>1 DEF Items
<1> QED
  BY <1>1, <1>2, TypeCorrect, StateTellsFullCorrect, ArgIsJobCorrect, PTL
  DEF Spec, FifoSpec, Fifo!Spec

\* removeJob, unless it leaves the array, takes out a job with the id it was asked
\* for, or else the newest job, and the latter only if no queued job has the id or
\* the queued jobs go round the end of the array.
THEOREM RemovesRequestedOrNewestCorrect == Spec => RemovesRequestedOrNewest
<1>1. ASSUME TypeOK, StateTellsFull, NEW jobid \in Removed, ~overrun,
             RemoveJob(jobid), InOrder, ~overrun'
      PROVE  Takes(jobid)
  <2> DEFINE g == Slot(queue.get_idx)
             t == Slot(queue.put_idx)
             n == Count(queue)
  <2>1. GoodQueue(queue) /\ Ordered(queue)
    BY <1>1 DEF TypeOK, StateTellsFull, GoodQueue, InOrder, Ordered
  <2>2. g \in Nat /\ t \in Nat
    <3>1. queue.get_idx \in Indices /\ queue.put_idx \in Indices
      BY <2>1 DEF GoodQueue, QueueType
    <3> QED
      BY <3>1, SlotType, RingAssumption DEF Slots
  <2>3. ~ShiftOverruns(queue) /\ queue' = RemoveFrom(queue, jobid) /\ n # 0
    BY <1>1 DEF RemoveJob
  <2>4. PICK k \in 1 .. n : /\ Items(RemoveFrom(queue, jobid)) = Without(Items(queue), k)
                            /\ Matches(queue, jobid) # {} => Items(queue)[k].id = jobid
                            /\ Matches(queue, jobid) = {} => k = n
    BY <2>1, <2>3, RemoveIsWithdraw
  <2>5. Fifo!Withdraw(k)
    BY <2>3, <2>4 DEF Fifo!Withdraw, Without
  <2>6. CASE Matches(queue, jobid) # {}
    BY <2>4, <2>5, <2>6 DEF Takes, Wanted
  <2>7. ASSUME Matches(queue, jobid) = {}, g < t, NEW i \in Wanted(jobid)
        PROVE  FALSE
    <3>1. n = t - g /\ Items(queue)[i] = queue.jobs[g + i - 1]
      BY <2>1, <2>7, InARow DEF Wanted
    <3>2. g + i - 1 \in g .. t - 1
      BY <2>2, <2>7, <3>1 DEF Wanted
    <3> QED
      BY <2>7, <3>1, <3>2 DEF Matches, Wanted
  <2>8. CASE Matches(queue, jobid) = {}
    <3>1. Fifo!Withdraw(Count(queue))
      BY <2>4, <2>5, <2>8
    <3>2. Wanted(jobid) = {} \/ g >= t
      BY <2>2, <2>7, <2>8
    <3> QED
      BY <3>1, <3>2 DEF Takes
  <2> QED
    BY <2>6, <2>8
<1> DEFINE Removal ==
      \A jobid \in Removed : RemoveJob(jobid) /\ InOrder /\ ~overrun' => Takes(jobid)
<1>2. TypeOK /\ StateTellsFull /\ [Next]_vars => [Removal]_vars
  <2> SUFFICES ASSUME TypeOK, StateTellsFull, Next
               PROVE  Removal
    OBVIOUS
  <2>1. ~overrun
    BY DEF Next
  <2> QED
    BY <1>1, <2>1
<1>3. Spec => [][Removal]_vars
  <2> HIDE DEF Removal
  <2> QED
    BY <1>2, TypeCorrect, StateTellsFullCorrect, PTL DEF Spec
<1> QED
  BY <1>3 DEF RemovesRequestedOrNewest
=============================================================================
