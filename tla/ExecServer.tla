----------------------------- MODULE ExecServer -----------------------------
(***************************************************************************)
(* The execution servers (exec_server.c): each is one process that asks    *)
(* for a job when its user says so, answers the check of the main server,  *)
(* forks a child for the job and reports what became of it.  es is where   *)
(* the process is:                                                         *)
(*   prompt  waits for a command          wait   in exec_server_protocol   *)
(*   sleep   in sendAck, before the send  off    not running               *)
(*   dial, run   in fatherJobRoutine, while the child connects to the      *)
(*               client of an interactive job, and while it executes       *)
(***************************************************************************)
EXTENDS Connections, Messages

CONSTANTS
  ExitValues,  \* exit statuses of the children, a subset of 0 .. 255
  Signals,     \* signals that may end a child
  JobIds,
  NoAddr

VARIABLES
  es,   \* where each execution server is
  cur,  \* the job whose child it waits for, and the port of the child
  ran   \* how many children were ever started for a job (history variable)

Idle == [id |-> 0, port |-> NoAddr]

ExecInit ==
  /\ es = [e \in Execs |-> "off"]
  /\ cur = [e \in Execs |-> Idle]
  /\ ran = [j \in JobIds |-> 0]

Become(e, stage) == es' = [es EXCEPT ![e] = stage]

Tell(e, msg) == toMain' = Sent(toMain, e, "main", msg)

\* The jobs of a sequence of messages: those sent to be executed, and those
\* whose end is reported.
JobsIn(msgs, types) == {msgs[i].id : i \in {k \in DOMAIN msgs : msgs[k].type \in types}}
JobTypes == {"SENDJOB_NOINTER", "SENDJOB_INTER"}
EndTypes == {"JOB_DONE", "JOB_SIG"}

\* close or the end of the process.
Disconnect(e) ==
  /\ open' = [open EXCEPT ![e] = @ \ {"peer"}]
  /\ UNCHANGED <<connects>>
  /\ toPeer' = [toPeer EXCEPT ![e] = <<>>]
  /\ Become(e, "off")

-----------------------------------------------------------------------------
Start(e) ==
  /\ es[e] = "off"
  /\ Connect(e)
  /\ Become(e, "prompt")
  /\ UNCHANGED <<cur, ran>>

\* The command "job".
JobRequest(e) ==
  /\ es[e] = "prompt"
  /\ Tell(e, SetJobReq)
  /\ Become(e, "wait")
  /\ UNCHANGED <<toPeer, linkVars, cur, ran>>

\* The command "stop".
CloseConnecMain(e) ==
  /\ es[e] = "prompt"
  /\ Tell(e, SetClosedConnection_ExecServer)
  /\ Disconnect(e)
  /\ UNCHANGED <<tty, lost, cur, ran>>

\* exec_server_protocol receives the check.
RecvCheck(e) ==
  /\ es[e] = "wait"
  /\ Arrived(toPeer, e, {"CH_EXEC_SER"})
  /\ toPeer' = Received(toPeer, e)
  /\ Become(e, "sleep")
  /\ UNCHANGED <<toMain, linkVars, cur, ran>>

\* sendAck after its sleep, then exec_server_protocol again.
SendAck(e) ==
  /\ es[e] = "sleep"
  /\ Tell(e, SetCheckExecServerAck)
  /\ Become(e, "wait")
  /\ UNCHANGED <<toPeer, linkVars, cur, ran>>

\* Mutant: when fork fails nothing is reported.
RecvJobForgets(e) ==
  /\ es[e] = "wait"
  /\ Arrived(toPeer, e, JobTypes)
  /\ toPeer' = Received(toPeer, e)
  /\ Become(e, "prompt")
  /\ UNCHANGED <<toMain, linkVars, cur, ran>>

\* exec_server_protocol receives a job.  execJob: fork returns in the father ...
RecvJob(e) ==
  LET msg   == Head(toPeer[e])
      inter == msg.type = "SENDJOB_INTER"
  IN /\ es[e] = "wait"
     /\ Arrived(toPeer, e, JobTypes)
     /\ toPeer' = Received(toPeer, e)
     /\ \/ /\ Tell(e, SetJobRun(msg.id))
           /\ cur' = [cur EXCEPT ![e] = [id |-> msg.id, port |-> IF inter THEN msg.port ELSE NoAddr]]
           /\ ran' = [ran EXCEPT ![msg.id] = @ + 1]
           /\ Become(e, IF inter THEN "dial" ELSE "run")
        \* ... or fails.
        \/ /\ Tell(e, SetJobDone(msg.id, ForkFailed))
           /\ Become(e, "prompt")
           /\ UNCHANGED <<cur, ran>>
     /\ UNCHANGED linkVars

\* socketPortConnect in the child of an interactive job.  connect succeeds when
\* the client listens; when it fails, dup2 of -1 fails, setFDsIter gives up and
\* the job is executed on the terminal of the execution server; when the address
\* has no name the child exits with 0 before it executes anything.
Dial(e) ==
  /\ es[e] = "dial"
  /\ \/ /\ cur[e].port \in Ports /\ tty[cur[e].port] = "listen"
        /\ tty' = [tty EXCEPT ![cur[e].port] = "connected"]
        /\ Become(e, "run")
        /\ UNCHANGED <<toMain, cur>>
     \/ /\ Become(e, "run")
        /\ cur' = [cur EXCEPT ![e].port = NoAddr]
        /\ UNCHANGED <<toMain, tty>>
     \/ /\ Tell(e, SetJobDone(cur[e].id, 0))
        /\ Become(e, "prompt")
        /\ cur' = [cur EXCEPT ![e] = Idle]
        /\ UNCHANGED tty
  /\ UNCHANGED <<toPeer, open, connects, lost, ran>>

\* The child's end of its client's connection is closed when the child ends.
HangUp(p) ==
  IF p \in Ports /\ tty[p] = "connected" THEN [tty EXCEPT ![p] = "hungup"] ELSE tty

\* The exit statuses of the child, which executes the job in consumeJob: those of
\* the job, and its own when execvp fails.  Redirections that fail change nothing.
ChildStatuses == ExitValues \cup {ExecFailed}

\* Mutant: the end of a child that could not execute its job is not reported.
ReportJobForgets(e) ==
  /\ es[e] = "run"
  /\ tty' = HangUp(cur[e].port)
  /\ Become(e, "prompt")
  /\ cur' = [cur EXCEPT ![e] = Idle]
  /\ UNCHANGED <<toMain, toPeer, open, connects, lost, ran>>

\* fatherJobRoutine: the child ends, by exit or by a signal.
ReportJob(e) ==
  /\ es[e] = "run"
  /\ \/ \E status \in ChildStatuses : Tell(e, SetJobDone(cur[e].id, status))
     \/ \E sig \in Signals : Tell(e, SetJobSignaled(cur[e].id, sig))
  /\ tty' = HangUp(cur[e].port)
  /\ Become(e, "prompt")
  /\ cur' = [cur EXCEPT ![e] = Idle]
  /\ UNCHANGED <<toPeer, open, connects, lost, ran>>

\* recvMsg of exec_server_protocol fails: the process ends.
LoseMain(e) ==
  /\ es[e] = "wait"
  /\ Ended(toPeer, e, "main")
  /\ Disconnect(e)
  /\ UNCHANGED <<toMain, tty, lost, cur, ran>>

\* The process or its host fails, with whatever part of its messages had not
\* yet left.  The jobs it was sent, whose child it waits for or whose report is
\* cut off are lost.  A child may survive its father, connect and go on.
Crash(e) ==
  LET p == cur[e].port
  IN /\ es[e] # "off"
     /\ Disconnect(e)
     /\ \E n \in 0 .. Len(toMain[e]) :
          /\ toMain' = [toMain EXCEPT ![e] = SubSeq(@, 1, n)]
          /\ lost' = lost \cup JobsIn(toPeer[e], JobTypes)
                     \cup JobsIn(SubSeq(toMain[e], n + 1, Len(toMain[e])), EndTypes)
                     \cup {j \in {cur[e].id} : es[e] \in {"dial", "run"}}
     /\ IF p \in Ports /\ tty[p] \in {"listen", "connected"}
        THEN tty' \in {tty, [tty EXCEPT ![p] = "connected"], [tty EXCEPT ![p] = "hungup"]}
        ELSE UNCHANGED tty
     /\ cur' = [cur EXCEPT ![e] = Idle]
     /\ UNCHANGED ran

ExecStep(e) ==
  \/ RecvCheck(e) \/ SendAck(e) \/ RecvJob(e) \/ Dial(e) \/ ReportJob(e) \/ LoseMain(e)

ExecNext ==
  \E e \in Execs : \/ ExecStep(e) \/ Start(e) \/ JobRequest(e) \/ CloseConnecMain(e)
                   \/ Crash(e)
=============================================================================
