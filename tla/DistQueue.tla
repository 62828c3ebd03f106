----------------------------- MODULE DistQueue -----------------------------
(***************************************************************************)
(* The whole system: the main server, the execution servers and the        *)
(* clients, which share nothing but their connections.                     *)
(***************************************************************************)
EXTENDS MainServer, FiniteSets

CONSTANTS ExitValues, Signals, Kinds, AskedIds, UnsubIds, Queues

ASSUME ValueAssumption ==
  /\ ExitValues \subseteq 0 .. 255 /\ Signals \subseteq 0 .. 255
  /\ AskedIds \subseteq JobIds /\ UnsubIds \subseteq JobIds
  /\ Garbage \notin 0 .. 255
  /\ NoEntry \notin EntryType(0 .. 255)

VARIABLES es, cur, ran, cl, port, submits, withdrawn

ES == INSTANCE ExecServer
CL == INSTANCE Client

execVars   == <<es, cur, ran>>
clientVars == <<cl, port, submits, withdrawn>>
vars       == <<netVars, mainVars, execVars, clientVars>>

Init == NetInit /\ MainInit /\ ES!ExecInit /\ CL!ClientInit

MainStep   == MainNext /\ UNCHANGED <<execVars, clientVars>>
ExecStep   == ES!ExecNext /\ UNCHANGED <<mainVars, clientVars>>
ClientStep == CL!ClientNext /\ UNCHANGED <<mainVars, execVars>>

\* Undefined behaviour of the main server is the end of what the model says.
Next == MainStep \/ (Running /\ (ExecStep \/ ClientStep))

Spec == Init /\ [][Next]_vars

(***************************************************************************)
(* Fairness: a thread or process that can go on does, since nothing but    *)
(* the scheduler holds it up; accept takes the connections that wait for   *)
(* it; jobs end; the users of the execution servers start them and ask for *)
(* jobs again and again.  Nothing obliges a client to send anything.       *)
(***************************************************************************)
ServerStep(t) == ThreadStep(t) /\ UNCHANGED <<execVars, clientVars>>

ServeStep(e) ==
  /\ Running
  /\ ES!ExecStep(e) \/ ES!Start(e) \/ ES!JobRequest(e)
  /\ UNCHANGED <<mainVars, clientVars>>

ReadStep(c) == Running /\ CL!ClientStep(c) /\ UNCHANGED <<mainVars, execVars>>

FairSpec ==
  /\ Spec
  /\ \A t \in Peers : WF_vars(ServerStep(t))
  /\ \A e \in Execs : WF_vars(ServeStep(e))
  /\ \A c \in Clients : WF_vars(ReadStep(c))

-----------------------------------------------------------------------------
TypeOK ==
  /\ queue \in Q!QueueType(Jobs)
  /\ pc \in [Peers -> Q!Stages]
  /\ arg \in [Peers -> Jobs \cup {NoJob}]
  /\ job_array \in [HistIdx -> EntryType(0 .. 255) \cup {NoEntry}]
  /\ history_putidx \in Nat
  /\ live \subseteq Jobs
  /\ \A c \in Clients : at[c] \in ClientStages /\ req[c] \in JobIds
  /\ \A e \in Execs : at[e] \in ExecStages /\ held[e] \in Jobs \cup {NoJob}
  /\ fault \in BOOLEAN /\ overrun \in BOOLEAN /\ stopped \in BOOLEAN
  /\ es \in [Execs -> {"off", "prompt", "wait", "sleep", "dial", "run"}]
  /\ cur \in [Execs -> Jobs]
  /\ cl \in [Clients -> {"off", "prompt", "wait", "waitInter", "hang", "accept", "session"}]
  /\ port \in [Clients -> Ports \cup {NoAddr}]
  /\ \A p \in Peers : open[p] \subseteq {"main", "peer"}
  /\ tty \in [Ports -> {"none", "listen", "connected", "hungup", "closed"}]
  /\ lost \subseteq JobIds

(***************************************************************************)
(* The main server uses its queue as JobQueue says: in particular no       *)
(* thread puts in a job that is in the queue already, whatever clients and *)
(* execution servers do.                                                   *)
(***************************************************************************)
QueueSpec == Q!Spec

\* In how many places of the main server there is a pointer to the job: on its
\* way into the queue, in the queue, or in the hands of a thread that talks to
\* an execution server.
Places(job) ==
  Cardinality({t \in Peers : arg[t] = job})
  + Cardinality({k \in 1 .. Q!Count(queue) : Q!Items(queue)[k] = job})
  + Cardinality({e \in Execs : at[e] \in {"check", "select", "send"} /\ held[e] = job})

\* No job is lost, duplicated or leaked inside the main server: an allocated
\* job is in one place, and so is none that was freed, as far as the history
\* knows it.  A job goes from the client's thread to the queue, to the thread of
\* an execution server and, when that server is gone, back to the queue.  There
\* putJobBack frees a job that the history has forgotten (QueuedIsLive): it
\* stays in its one place, and nothing else in the main server leaves one.
OnePlace ==
  ~stopped => \A job \in Jobs :
    /\ Places(job) <= 1
    /\ job \in live => Places(job) = 1
    /\ Places(job) = 1 /\ Knows(job_array, job.id) => job \in live

\* The ids in a set of messages of all the connections.
OnTheWay(ch, types) == UNION {ES!JobsIn(ch[e], types) : e \in Execs}

\* Where a job that was submitted can be: with the main server, on its way to
\* an execution server, executed by one, over but not yet reported, over, or
\* lost with an execution server.
Whereabouts(j) ==
  <<\E job \in live : job.id = j,
    j \in OnTheWay(toPeer, ES!JobTypes),
    \E e \in Execs : es[e] \in {"dial", "run"} /\ cur[e].id = j,
    j \in OnTheWay(toMain, ES!EndTypes),
    Entry(job_array, j).state \in Final,
    j \in lost>>

\* Nothing happens to a job twice and no job vanishes: through timeouts,
\* put-backs and crashes at any point, every job that the history knows is at
\* one stage of its way, and the only ones that never reach its end are those
\* that an execution server took with it.
Accounted ==
  ~stopped =>
    \A j \in JobIds : Knows(job_array, j) =>
      Cardinality({i \in 1 .. 6 : Whereabouts(j)[i]}) = 1

\* The command stop frees the queue under the threads that use it, but whatever
\* it finds, the heap is right unless a thread has come to a destroyed mutex:
\* once the threads are done with what they had in hand, no job is left over.
CleanStop ==
  stopped /\ Running /\ (\A t \in Peers : at[t] \in {"off", "recv"}) => live = {}

\* The same where jobs are unsubmitted: removeJob may leak a job, but leaves no
\* pointer to one that it has freed.  What putJobBack frees in the queue, since
\* the history has forgotten it, is the subject of QueuedIsLive.
NoDanglingJob ==
  ~stopped => \A job \in Jobs :
    Knows(job_array, job.id) => Places(job) <= IF job \in live THEN 1 ELSE 0

\* No job is started twice, and none that the main server still has was ever
\* started, with any crashes, timeouts and put-backs in between.
StartedOnce ==
  /\ \A j \in JobIds : ran[j] <= 1
  /\ \A job \in live : ran[job.id] = 0

\* A job that the main server still has is recorded as waiting, so that its user
\* sees it and may unsubmit it, for as long as the history knows it.
HeldIsWaiting ==
  \A job \in live :
    Knows(job_array, job.id) => Entry(job_array, job.id).state = "WAIT"

\* A job's recorded state goes from WAIT to RUN to its end, or from WAIT to
\* ERROR, and never back, however the reports of different execution servers
\* interleave.
StateAdvances ==
  [][\A j \in JobIds :
       Knows(job_array, j) /\ Knows(job_array', j) =>
         LET old == Entry(job_array, j).state
             new == Entry(job_array', j).state
         IN \/ new = old
            \/ old = "WAIT" /\ new \in {"RUN", "ERROR"}
            \/ old = "RUN" /\ new \in Final]_vars

\* The messages for which attendClient has a branch.
Requests == {"SUB_NO_INTER", "SUB_INTERACTIVE", "JOBSTATE", "QUESTATE", "UNSUB", "CLIENT_CLOSED"}

\* Whoever waits for a message gets one that it knows: at the main server an
\* answer to the check is read only by the thread that checks, and never
\* after it gave up; a client never reads the response to an earlier request,
\* not even one that waits although it could not send its own.
\* The default branches of the four message loops are never taken.
ExpectedMessages ==
  /\ \A e \in Execs :
       /\ at[e] = "select" /\ toMain[e] # <<>> => Arrived(toMain, e, {"CH_EXEC_SER_ACK"})
       /\ at[e] = "recv" /\ toMain[e] # <<>> =>
            Arrived(toMain, e, {"JOB_REQ", "JOB_RUN", "JOB_DONE", "JOB_SIG", "SERVER_CLOSED"})
       /\ es[e] = "wait" /\ toPeer[e] # <<>> =>
            Arrived(toPeer, e, {"CH_EXEC_SER", "SENDJOB_NOINTER", "SENDJOB_INTER"})
       /\ es[e] \in {"prompt", "sleep", "dial", "run"} => toPeer[e] = <<>>
  /\ \A c \in Clients :
       /\ at[c] = "recv" /\ toMain[c] # <<>> => Arrived(toMain, c, Requests)
       /\ cl[c] \in {"wait", "waitInter"} /\ toPeer[c] # <<>> =>
            Arrived(toPeer, c, CL!Responses)
       /\ cl[c] \in {"prompt", "hang", "accept", "session"} => toPeer[c] = <<>>
       /\ Len(toPeer[c]) <= 1

\* No request is forgotten: a client that waits for a response has a request that
\* is yet to be read (perhaps by a thread that is in putJob with an earlier job of
\* the client, and waits for room for ever, see PutBackEnds), a thread that is
\* about to answer it, or the response or the end of the connection to read.
AnswerIsDue ==
  \A c \in Clients : cl[c] \in {"wait", "waitInter"} =>
    \/ toMain[c] # <<>>
    \/ at[c] \in {"remove", "mark"}
    \/ toPeer[c] # <<>>
    \/ "main" \notin open[c]

(***************************************************************************)
(* The threads change the history as History says, whatever the order of   *)
(* their critical sections: what holds of History holds of the system.     *)
(***************************************************************************)
Statuses == ExitValues \cup Signals \cup {0, ExecFailed, ForkFailed}

\* The entries that newJob has overwritten without freeing them, since it does
\* not free the first JOB_HISTORY_MAX of a round of the ids.
Leaked ==
  LET round  == history_putidx \div ID_MOD
      places == history_putidx % ID_MOD
  IN IF round = 0 THEN 0
     ELSE JOB_HISTORY_MAX * (round - 1)
          + (IF places < JOB_HISTORY_MAX THEN places ELSE JOB_HISTORY_MAX)

Hist == INSTANCE History WITH Exits <- Statuses, MaxJobs <- MaxSubmits, leaked <- Leaked
HistorySpec == Hist!Spec

\* exit_status is not initialised, and jobState sends it all the same; but no
\* user is ever shown an exit status that no execution server reported.
ExitIsReported ==
  \A c \in Clients : \A i \in DOMAIN toPeer[c] :
    LET msg == toPeer[c][i]
    IN msg.type = "JOBSTATE_RESP" /\ msg.state \in Final => msg.exit # Garbage

\* The liveness properties hold while the server runs and a connection can
\* still be opened, that is, if only finitely many connections fail.
Healthy == Running /\ ~stopped /\ connects < MaxConnects

\* A put-back into a full queue never ends if there is no other execution server
\* (PutBackEnds).  Where that happens, nobody takes a job again, and it is the one
\* thing that may hold up the jobs and the clients for good.
Stuck == Q!Count(queue) = MAX_JOBS_QUEUE /\ \E e \in Execs : at[e] = "back"

\* Every job that the main server has is handed to an execution server: no
\* sequence of timeouts, crashes and put-backs that ends leaves it behind, but
\* for a put-back that never finds room.
Has(j) == \E job \in live : job.id = j
HandedOver == \A j \in JobIds : Has(j) ~> (~Has(j) \/ ~Healthy \/ []Stuck)

\* The end of a job that was started is recorded, unless its execution server
\* has taken it with it or the history has forgotten the job.
EndIsRecorded ==
  \A j \in JobIds :
    ran[j] # 0 ~> \/ ~Knows(job_array, j) \/ Entry(job_array, j).state \in Final
                  \/ j \in lost \/ ~Healthy

\* The child of an interactive job may still connect to port p, or has done so.
Expected(p) ==
  \/ \E c \in Clients : \E i \in DOMAIN toMain[c] : toMain[c][i] = SetFileExecInter_CLIENT(p)
  \/ \E job \in live : job.port = p
  \/ \E e \in Execs : \/ \E i \in DOMAIN toPeer[e] :
                            toPeer[e][i].type = "SENDJOB_INTER" /\ toPeer[e][i].port = p
                      \/ es[e] = "dial" /\ cur[e].port = p
  \/ tty[p] \in {"connected", "hungup"}

\* A client that waits for the child of its interactive job in accept gets its
\* connection, or there is no such child to come any more: its address was wrong
\* or refused, its job is lost, or no job is taken again.  (Then it waits for ever.)
AcceptReturns ==
  \A c \in Clients :
    cl[c] = "accept" ~> (cl[c] # "accept" \/ ~Expected(port[c]) \/ ~Healthy \/ []Stuck)

-----------------------------------------------------------------------------
\* "Puts job back into queue, calling putJob()" (main_server.h:134): the thread
\* of an execution server that did not answer gets its job back into the queue
\* and then closes the connection, for which the execution server waits.
PutBackEnds == \A e \in Execs : at[e] = "back" ~> (at[e] # "back" \/ ~Healthy)

\* "Removes job from queue" (main_server.h:101): a job whose unsubmission was
\* confirmed is not run.
UnsubmittedNeverRuns == \A j \in withdrawn : ran[j] = 0

\* "Removes job from queue" (main_server.h:104): a job that is recorded as waiting
\* and was not unsubmitted stays with the main server, so that it can be run.
UnsubmitSparesOthers ==
  ~stopped => \A job \in live :
    Knows(job_array, job.id) /\ Entry(job_array, job.id).state = "WAIT"
      => Places(job) # 0

\* "Puts job back into queue" (main_server.h:134): a job that is in the queue
\* can be executed later.
QueuedIsLive == ~stopped => Q!Queued \subseteq live
=============================================================================
