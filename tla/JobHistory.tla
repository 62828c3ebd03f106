----------------------------- MODULE JobHistory -----------------------------
(***************************************************************************)
(* job_array of MainServer_t (main_server.h:40-42): the record of the      *)
(* latest jobs, and what each critical section of job_hist_mtx does to it. *)
(* An entry is the JobHistory_t of a job: id, state and exit_status.  The  *)
(* time stamps and the address are only printed, and queue_idx is 0 for    *)
(* ever, since there is one queue; they are left out.                      *)
(***************************************************************************)
EXTENDS Integers, FiniteSetsExt

CONSTANTS
  JOB_HISTORY_MAX,  \* length of job_array (10 in main_server.h:5)
  ID_MOD,           \* number of job ids (2^16, the id is a uint16_t)
  NoEntry,          \* NULL
  Garbage           \* the contents of a field that was never assigned

ASSUME HistoryAssumption ==
  /\ JOB_HISTORY_MAX \in Nat \ {0}
  /\ ID_MOD \in Nat \ {0}

ASSUME WindowAssumption == ID_MOD >= JOB_HISTORY_MAX

HistIdx == 0 .. JOB_HISTORY_MAX - 1
JobIds  == 0 .. ID_MOD - 1

Final  == {"FINISHED", "SIGNALED", "ERROR"}
States == {"WAIT", "RUN", "UNSUBMITED"} \cup Final

\* JobHistory_t, with the exit statuses of the set E.
EntryType(E) == [id : JobIds, state : States, exit : E \cup {Garbage}]

HistoryInit == [i \in HistIdx |-> NoEntry]

\* findJob: the entries before the first NULL are searched in order.
FindJob(h, jobid) ==
  LET hits == {i \in HistIdx : /\ \A k \in 0 .. i : h[k] # NoEntry
                               /\ h[i].id = jobid}
  IN IF hits = {} THEN -1 ELSE Min(hits)

Knows(h, jobid) == FindJob(h, jobid) # -1

Entry(h, jobid) == h[FindJob(h, jobid)]

\* Mutants: the wrong initial state; the wrong place.
AddEntryRunning(h, jobid) ==
  [h EXCEPT ![jobid % JOB_HISTORY_MAX] =
     [id |-> jobid, state |-> "RUN", exit |-> Garbage]]

AddEntryShifted(h, jobid) ==
  [h EXCEPT ![(jobid + 1) % JOB_HISTORY_MAX] =
     [id |-> jobid, state |-> "WAIT", exit |-> Garbage]]

\* newJob with setParamsNewJobHistory: the entry of a new job takes the place
\* of the one JOB_HISTORY_MAX ids before.  exit_status is not assigned.
AddEntry(h, jobid) ==
  [h EXCEPT ![jobid % JOB_HISTORY_MAX] =
     [id |-> jobid, state |-> "WAIT", exit |-> Garbage]]

\* unsubmit: the exit_status stays what it was.
MarkUnsubmitted(h, jobid) == [h EXCEPT ![FindJob(h, jobid)].state = "UNSUBMITED"]

\* Mutant: the exit status is not stored.
SetStateOnly(h, jobid, state, exit) ==
  IF Knows(h, jobid) THEN [h EXCEPT ![FindJob(h, jobid)].state = state] ELSE h

\* changeStateJob, which ignores a job that the history has forgotten.
SetState(h, jobid, state, exit) ==
  IF Knows(h, jobid)
  THEN [h EXCEPT ![FindJob(h, jobid)] = [id |-> jobid, state |-> state, exit |-> exit]]
  ELSE h
=============================================================================
