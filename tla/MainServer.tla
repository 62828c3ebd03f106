----------------------------- MODULE MainServer -----------------------------
(***************************************************************************)
(* The main server: one thread per connection, attendClient or             *)
(* attendExecServ, around the history of jobs and the queue of JobQueue.   *)
(* A thread holds one mutex at a time, so every critical section is one    *)
(* action, together with the calls before and after it that touch nothing  *)
(* but the thread's own connection.  Between two critical sections of one  *)
(* handler the other threads may do anything: that is where a handler is   *)
(* split into several actions.                                             *)
(*                                                                         *)
(* The heap is modelled by the set of the Job_t that are allocated.  A     *)
(* thread that follows a pointer to a freed job, indexes job_array with    *)
(* the -1 of findJob, or uses a mutex, a condition variable, the queue or  *)
(* the history after the command stop has destroyed them, has undefined    *)
(* behaviour: fault becomes TRUE and the server does nothing more that     *)
(* could be relied on.                                                     *)
(***************************************************************************)
EXTENDS Connections, Messages, JobHistory

CONSTANTS
  MAX_JOBS_QUEUE, IDX_MOD, NoJob,
  NoAddr,       \* ipaddr 0, which stands for a job that is not interactive
  ConsoleStops  \* whether the user of the main server ever types stop

VARIABLES
  queue, pc, arg, overrun,  \* as in JobQueue
  job_array,                \* the history
  history_putidx,           \* number of jobs submitted
  live,                     \* the Job_t that are allocated
  at,                       \* where each thread is
  req,                      \* the job id of the unsubmit in progress
  held,                     \* the job that sendJob took from the queue
  stopped,                  \* TRUE after MainServerDestroy
  fault                     \* TRUE once a thread has used a dangling pointer

queueVars == <<queue, pc, arg, overrun>>
histVars  == <<job_array, history_putidx>>
mainVars  == <<queueVars, histVars, live, at, req, held, stopped, fault>>

Jobs == [id : JobIds, port : Ports \cup {NoAddr}]

ASSUME MainAssumption ==
  /\ MAX_JOBS_QUEUE \in Nat \ {0}
  /\ IDX_MOD \in Nat
  /\ IDX_MOD > MAX_JOBS_QUEUE
  /\ NoJob \notin Jobs
  /\ NoAddr \notin Ports

Q == INSTANCE JobQueue WITH Putters <- Peers, Getters <- Execs, Removed <- JobIds

(***************************************************************************)
(* off: no thread.  recv: in recvMsg at the top of the loop.               *)
(* submit: in putJob, called by newJob.  remove, mark: in unsubmit, before *)
(* removeJob and before the job is marked.  take, check, select, send: in  *)
(* sendJob.  back, relink: in putJobBack, in putJob and after it.          *)
(***************************************************************************)
ClientStages == {"off", "recv", "submit", "remove", "mark"}
ExecStages   == {"off", "recv", "take", "check", "select", "send", "back", "relink"}

MainInit ==
  /\ Q!Init
  /\ job_array = HistoryInit
  /\ history_putidx = 0
  /\ live = {}
  /\ at = [t \in Peers |-> "off"]
  /\ req = [t \in Clients |-> 0]
  /\ held = [t \in Execs |-> NoJob]
  /\ stopped = FALSE
  /\ fault = FALSE

Goto(t, stage) == at' = [at EXCEPT ![t] = stage]

Reply(t, msg) == toPeer' = Sent(toPeer, t, "peer", msg)

\* recvMsg of the next message of the loop of attendClient or attendExecServ.
Recv(t, types) ==
  /\ at[t] = "recv"
  /\ Arrived(toMain, t, types)
  /\ toMain' = Received(toMain, t)

\* close(sockfd): what has not been read is lost.
CloseSocket(t) ==
  /\ open' = [open EXCEPT ![t] = @ \ {"main"}]
  /\ UNCHANGED <<connects, tty, lost>>
  /\ toMain' = [toMain EXCEPT ![t] = <<>>]

-----------------------------------------------------------------------------
\* threadNewClients and threadNewExecServ: accept, then one new thread, or the
\* connection is closed if there can be none.  After the command stop accept may
\* return once more for each listening socket (here, any number of times), and a
\* connection that was never accepted is closed with the socket.
Accept(t) ==
  /\ at[t] = "off" /\ "main" \in open[t]
  /\ \/ Goto(t, "recv") /\ UNCHANGED netVars
     \/ CloseSocket(t) /\ UNCHANGED <<toPeer, at>>
  /\ UNCHANGED <<queueVars, histVars, live, req, held, fault>>

\* Mutant: history_putidx is incremented before it is used.
NewIdAhead == (history_putidx + 1) % ID_MOD

\* history_putidx is wider than the id.
NewId == history_putidx % ID_MOD

\* submitNoInter, submitInter and newJob, up to the call of putJob.  The entry
\* and the response come before the job is in the queue.
NewJob(t) ==
  LET jobid == NewId
      msg   == Head(toMain[t])
      job   == [id |-> jobid, port |-> IF msg.type = "SUB_INTERACTIVE" THEN msg.port ELSE NoAddr]
  IN /\ Recv(t, {"SUB_NO_INTER", "SUB_INTERACTIVE"})
     /\ live' = live \cup {job}
     /\ job_array' = AddEntry(job_array, jobid)
     /\ history_putidx' = history_putidx + 1
     /\ Reply(t, SetJobID(jobid))
     /\ Q!CallPut(t, job)
     /\ Goto(t, "submit")
     /\ UNCHANGED <<linkVars, req, held, fault>>

\* Mutant: putJob does not wait for room.
PutJobNoWait(t, next) ==
  /\ pc[t] = "put"
  /\ queue' = Q!PutInto(queue, arg[t])
  /\ arg' = [arg EXCEPT ![t] = NoJob]
  /\ pc' \in Q!Signal([pc EXCEPT ![t] = "idle"], "getWait", "get")
  /\ Goto(t, next)
  /\ UNCHANGED <<netVars, histVars, live, req, held, fault, overrun>>

\* A critical section of putJob.  After the one that puts the job in, the
\* caller goes on at stage next.
PutJob(t, next) ==
  /\ Q!PutJob(t)
  /\ Goto(t, IF pc'[t] = "idle" THEN next ELSE at[t])
  /\ UNCHANGED <<netVars, histVars, live, req, held, fault>>

FinishSubmit(t) == at[t] = "submit" /\ PutJob(t, "recv")

\* Mutant: nothing is sent about a job that is not known.
JobStateSilent(t) ==
  LET jobid == Head(toMain[t]).id
  IN /\ Recv(t, {"JOBSTATE"})
     /\ IF Knows(job_array, jobid)
        THEN Reply(t, SetJobState(jobid, Entry(job_array, jobid)))
        ELSE UNCHANGED toPeer
     /\ UNCHANGED <<mainVars, linkVars>>

JobState(t) ==
  LET jobid == Head(toMain[t]).id
  IN /\ Recv(t, {"JOBSTATE"})
     /\ Reply(t, IF Knows(job_array, jobid)
                 THEN SetJobState(jobid, Entry(job_array, jobid))
                 ELSE SetBadParams)
     /\ UNCHANGED <<mainVars, linkVars>>

\* queueState: there is one queue, number 0.
QueueState(t) ==
  LET q == Head(toMain[t]).queue
  IN /\ Recv(t, {"QUESTATE"})
     /\ Reply(t, IF q = 0 THEN SetQueueState(q, queue.state) ELSE SetBadParams)
     /\ UNCHANGED <<mainVars, linkVars>>

-----------------------------------------------------------------------------
\* unsubmit, first critical section.
Unsubmit(t) ==
  LET jobid == Head(toMain[t]).id
  IN /\ Recv(t, {"UNSUB"})
     /\ \/ /\ Knows(job_array, jobid) /\ Entry(job_array, jobid).state = "WAIT"
           /\ req' = [req EXCEPT ![t] = jobid]
           /\ Goto(t, "remove")
           /\ UNCHANGED toPeer
        \/ /\ ~(Knows(job_array, jobid) /\ Entry(job_array, jobid).state = "WAIT")
           /\ Reply(t, SetBadParams)
           /\ UNCHANGED <<req, at>>
     /\ UNCHANGED <<linkVars, queueVars, histVars, live, held, fault>>

\* The jobs that removeJob looks at, up to the one it finds and frees.
Examined(jobid) ==
  {queue.jobs[i] : i \in Q!Slot(queue.get_idx)
                           .. Min({Q!ScanEnd(queue, jobid), Q!Slot(queue.put_idx) - 1})}

\* Mutant: removeJob does not look whether the queue is empty.
RemoveJobUnguarded(t) ==
  /\ at[t] = "remove"
  /\ queue' = Q!RemoveFrom(queue, req[t])
  /\ pc' \in Q!Signal(pc, "putWait", "put")
  /\ Goto(t, "mark")
  /\ UNCHANGED <<netVars, arg, overrun, histVars, live, req, held, fault>>

\* removeJob, called by unsubmit.
RemoveJob(t) ==
  /\ at[t] = "remove"
  /\ \/ /\ Q!Count(queue) = 0
        /\ Goto(t, "mark")
        /\ UNCHANGED <<queueVars, live, fault>>
     \/ /\ Q!Count(queue) # 0
        /\ Examined(req[t]) \subseteq live
        /\ Q!RemoveJob(req[t])
        /\ live' = {job \in live : ~(job \in Examined(req[t]) /\ job.id = req[t])}
        /\ Goto(t, "mark")
        /\ UNCHANGED fault
     \/ /\ Q!Count(queue) # 0
        /\ ~(Examined(req[t]) \subseteq live)
        /\ fault' = TRUE
        /\ UNCHANGED <<queueVars, live, at>>
  /\ UNCHANGED <<netVars, histVars, req, held>>

\* unsubmit, last critical section and response: the result of findJob is used
\* as it is.
MarkJob(t) ==
  /\ at[t] = "mark"
  /\ \/ /\ Knows(job_array, req[t])
        /\ job_array' = MarkUnsubmitted(job_array, req[t])
        /\ Reply(t, SetUnsubmit(req[t]))
        /\ Goto(t, "recv")
        /\ UNCHANGED fault
     \/ /\ ~Knows(job_array, req[t])
        /\ fault' = TRUE
        /\ UNCHANGED <<job_array, toPeer, at>>
  /\ UNCHANGED <<toMain, linkVars, queueVars, history_putidx, live, req, held>>

-----------------------------------------------------------------------------
\* The end of a thread: the peer said so, or recvMsg fails.
Leave(t) ==
  /\ at[t] = "recv"
  /\ \/ Arrived(toMain, t, {"CLIENT_CLOSED", "SERVER_CLOSED"})
     \/ Ended(toMain, t, "peer")
  /\ CloseSocket(t)
  /\ Goto(t, "off")
  /\ UNCHANGED <<toPeer, queueVars, histVars, live, req, held, fault>>

\* sendJob: the request of an execution server ...
JobReq(t) ==
  /\ Recv(t, {"JOB_REQ"})
  /\ Q!CallGet(t)
  /\ Goto(t, "take")
  /\ UNCHANGED <<toPeer, linkVars, histVars, live, req, held, fault>>

\* ... a job taken from the queue ...
TakeJob(t) ==
  /\ at[t] = "take"
  /\ Q!GetJob(t)
  /\ held' = [held EXCEPT ![t] = IF pc'[t] = "idle" THEN Q!Oldest(queue) ELSE @]
  /\ Goto(t, IF pc'[t] = "idle" THEN "check" ELSE "take")
  /\ UNCHANGED <<netVars, histVars, live, req, fault>>

\* putJobBack, up to the call of putJob.
PutBack(t) ==
  /\ Q!CallPut(t, held[t])
  /\ Goto(t, "back")

\* ... the check message.  A send to a peer that is gone may or may not report
\* an error ...
SendCheck(t) ==
  /\ at[t] = "check"
  /\ \/ /\ Reply(t, SetCheckExecServer)
        /\ Goto(t, "select")
        /\ UNCHANGED <<pc, arg, queue, overrun>>
     \/ /\ "peer" \notin open[t]
        /\ PutBack(t)
        /\ UNCHANGED toPeer
  /\ UNCHANGED <<toMain, linkVars, histVars, live, req, held, fault>>

\* ... the answer ...
RecvAck(t) ==
  /\ at[t] = "select"
  /\ Arrived(toMain, t, {"CH_EXEC_SER_ACK"})
  /\ toMain' = Received(toMain, t)
  /\ Goto(t, "send")
  /\ UNCHANGED <<toPeer, linkVars, queueVars, histVars, live, req, held, fault>>

\* Mutant: the thread ends without putting the job back.
NoAckForgets(t) ==
  /\ at[t] = "select"
  /\ ~Arrived(toMain, t, {"CH_EXEC_SER_ACK"})
  /\ CloseSocket(t)
  /\ Goto(t, "off")
  /\ UNCHANGED <<toPeer, queueVars, histVars, live, req, held, fault>>

\* ... or none: the time is up, the connection has ended or another message
\* came.
NoAck(t) ==
  /\ at[t] = "select"
  /\ ~Arrived(toMain, t, {"CH_EXEC_SER_ACK"})
  /\ PutBack(t)
  /\ UNCHANGED <<netVars, histVars, live, req, held, fault>>

\* Mutant: the result of sendMsg is tested the wrong way round.
SendJobTwice(t) ==
  /\ at[t] = "send"
  /\ Reply(t, SetFileExecNoInter(held[t].id))
  /\ PutBack(t)
  /\ UNCHANGED <<toMain, linkVars, histVars, live, req, held, fault>>

\* ... and the job itself, which is then freed.
SendJob(t) ==
  /\ at[t] = "send"
  /\ \/ /\ held[t] \in live
        /\ Reply(t, IF held[t].port = NoAddr
                    THEN SetFileExecNoInter(held[t].id)
                    ELSE SetFileExecInter(held[t].id, held[t].port))
        /\ lost' = IF "peer" \in open[t] THEN lost ELSE lost \cup {held[t].id}
        /\ live' = live \ {held[t]}
        /\ held' = [held EXCEPT ![t] = NoJob]
        /\ Goto(t, "recv")
        /\ UNCHANGED <<queueVars, fault>>
     \/ /\ held[t] \in live
        /\ "peer" \notin open[t]
        /\ PutBack(t)
        /\ UNCHANGED <<toPeer, lost, live, held, fault>>
     \/ /\ held[t] \notin live
        /\ fault' = TRUE
        /\ UNCHANGED <<toPeer, lost, live, held, at, queueVars>>
  /\ UNCHANGED <<toMain, open, connects, tty, histVars, req>>

FinishBack(t) == at[t] = "back" /\ PutJob(t, "relink")

\* Mutant: sendJob returns 1 after putJobBack, and the thread goes on.
RelinkGoesOn(t) ==
  /\ at[t] = "relink"
  /\ held' = [held EXCEPT ![t] = NoJob]
  /\ Goto(t, "recv")
  /\ UNCHANGED <<netVars, queueVars, histVars, live, req, fault>>

\* putJobBack after putJob: it looks the job up with the id of a job that it no
\* longer owns, and frees the job if the history has forgotten it.
Relink(t) ==
  /\ at[t] = "relink"
  /\ \/ /\ held[t] \in live
        /\ live' = IF Knows(job_array, held[t].id) THEN live ELSE live \ {held[t]}
        /\ held' = [held EXCEPT ![t] = NoJob]
        /\ CloseSocket(t)
        /\ Goto(t, "off")
        /\ UNCHANGED fault
     \/ /\ held[t] \notin live
        /\ fault' = TRUE
        /\ UNCHANGED <<toMain, linkVars, live, held, at>>
  /\ UNCHANGED <<toPeer, queueVars, histVars, req>>

ChangeStateJob(t) ==
  LET msg == Head(toMain[t])
  IN /\ Recv(t, {"JOB_RUN", "JOB_DONE", "JOB_SIG"})
     /\ job_array' = SetState(job_array, msg.id, msg.state, msg.exit)
     /\ UNCHANGED <<toPeer, linkVars, queueVars, history_putidx, live, at, req, held, fault>>

\* pthread_cond_wait returns without a signal.
Wakeup(t) ==
  /\ Q!SpuriousWakeup(t)
  /\ UNCHANGED <<netVars, histVars, live, at, req, held, fault>>

ClientThread(t) ==
  \/ NewJob(t) \/ FinishSubmit(t) \/ JobState(t)
  \/ Unsubmit(t) \/ RemoveJob(t) \/ MarkJob(t)

\* What the thread of an execution server does with nothing but its connection
\* and the job it holds, and the rest, which locks a mutex.
ExchangeStep(t) == SendCheck(t) \/ RecvAck(t) \/ NoAck(t) \/ SendJob(t)

ExecThread(t) ==
  \/ JobReq(t) \/ TakeJob(t) \/ FinishBack(t) \/ Relink(t) \/ ChangeStateJob(t)

-----------------------------------------------------------------------------
\* Mutant: the queued jobs are not freed.
QueueDestroyLeaks == {}

\* The jobs that QueueDestroy frees.
QueueDestroy == Q!Queued

\* The command stop: MainServerDestroy destroys the mutexes, the condition
\* variables, the queue and the history, and the threads go on (pthread_exit).
\* The accept in progress on a closed listening socket may still return, see
\* Accept.  To destroy a condition variable on which a thread sleeps is
\* undefined.
Stop ==
  /\ ConsoleStops /\ ~stopped
  /\ stopped' = TRUE
  /\ live' = live \ QueueDestroy
  /\ fault' = (Q!ThreadsIn(pc, "putWait") \cup Q!ThreadsIn(pc, "getWait") # {})
  /\ UNCHANGED <<netVars, queueVars, histVars, at, req, held>>

\* The requests whose handlers lock a mutex.
Locking(t) ==
  \/ Arrived(toMain, t, {"SUB_NO_INTER", "SUB_INTERACTIVE", "JOBSTATE", "UNSUB",
                         "JOB_REQ", "JOB_RUN", "JOB_DONE", "JOB_SIG"})
  \/ Arrived(toMain, t, {"QUESTATE"}) /\ Head(toMain[t]).queue = 0

\* A thread that comes to a mutex after MainServerDestroy.
Misuse(t) ==
  /\ \/ at[t] \in {"submit", "remove", "mark", "take", "back", "relink"}
     \/ at[t] = "recv" /\ Locking(t)
  /\ fault' = TRUE
  /\ UNCHANGED <<netVars, queueVars, histVars, live, at, req, held>>

-----------------------------------------------------------------------------
Running == ~fault /\ ~overrun

\* The steps of the thread of a connection, from accept to its end.
ThreadStep(t) ==
  /\ Running
  /\ \/ Accept(t) \/ Leave(t)
     \/ t \in Execs /\ ExchangeStep(t)
     \/ (stopped => ~Locking(t)) /\ QueueState(t)
     \/ ~stopped /\ t \in Clients /\ ClientThread(t)
     \/ ~stopped /\ t \in Execs /\ ExecThread(t)
     \/ stopped /\ Misuse(t)
  /\ UNCHANGED stopped

MainNext ==
  \/ \E t \in Peers : \/ ThreadStep(t)
                      \/ Running /\ ~stopped /\ Wakeup(t) /\ UNCHANGED stopped
  \/ Running /\ Stop
=============================================================================
