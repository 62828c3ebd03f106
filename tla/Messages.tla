------------------------------ MODULE Messages ------------------------------
(***************************************************************************)
(* The messages of PROTO_DIST_QUEUE.h, one operator per setter, named      *)
(* after it.  A message is a record with the type of its Header and the    *)
(* fields of its payload on which something depends; what a job executes   *)
(* and in which directory is left out.  The address and the port of an     *)
(* interactive client are one field, port.                                 *)
(***************************************************************************)
EXTENDS Naturals

\* From the main server to a client.
SetJobID(jobid)    == [type |-> "SUB_RESP", id |-> jobid]
SetUnsubmit(jobid) == [type |-> "UNSUB_RESP", id |-> jobid]
SetBadParams       == [type |-> "BAD_PARAMS"]

SetJobState(jobid, entry) ==
  [type |-> "JOBSTATE_RESP", id |-> jobid, state |-> entry.state, exit |-> entry.exit]

SetQueueState(q, state) == [type |-> "QUESTATE_RESP", queue |-> q, state |-> state]

\* From the main server to an execution server.
SetCheckExecServer            == [type |-> "CH_EXEC_SER"]
SetFileExecNoInter(jobid)     == [type |-> "SENDJOB_NOINTER", id |-> jobid]
SetFileExecInter(jobid, port) == [type |-> "SENDJOB_INTER", id |-> jobid, port |-> port]

\* From a client.
SetFileExecNoInter_CLIENT     == [type |-> "SUB_NO_INTER"]
SetFileExecInter_CLIENT(port) == [type |-> "SUB_INTERACTIVE", port |-> port]
SetJobState_CLIENT(jobid)     == [type |-> "JOBSTATE", id |-> jobid]
SetQueueState_CLIENT(q)       == [type |-> "QUESTATE", queue |-> q]
SetUnsubmit_CLIENT(jobid)     == [type |-> "UNSUB", id |-> jobid]
SetClosedConnection           == [type |-> "CLIENT_CLOSED"]

\* From an execution server.
SetJobReq                      == [type |-> "JOB_REQ"]
SetCheckExecServerAck          == [type |-> "CH_EXEC_SER_ACK"]
SetClosedConnection_ExecServer == [type |-> "SERVER_CLOSED"]

\* Mutant: the report of the start is filled in like that of the end.
SetJobRunAsDone(jobid) == [type |-> "JOB_RUN", id |-> jobid, state |-> "FINISHED", exit |-> 0]

SetJobRun(jobid) == [type |-> "JOB_RUN", id |-> jobid, state |-> "RUN", exit |-> 0]

\* Exit statuses that stand for a job that could not be run: the child's after
\* execvp has failed, and the one error_fork reports.
ExecFailed == 40
ForkFailed == 41

SetJobDone(jobid, status) ==
  [type  |-> "JOB_DONE", id |-> jobid, exit |-> status,
   state |-> IF status \in {ExecFailed, ForkFailed} THEN "ERROR" ELSE "FINISHED"]

SetJobSignaled(jobid, sig) ==
  [type |-> "JOB_SIG", id |-> jobid, exit |-> sig, state |-> "SIGNALED"]
=============================================================================
