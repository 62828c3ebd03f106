------------------------------ MODULE History ------------------------------
(***************************************************************************)
(* The history of jobs on its own, as its critical sections change it,     *)
(* for as many submissions as it takes to run out of ids.  The id is 16    *)
(* bits wide and history_putidx counts on: after ID_MOD jobs the ids start *)
(* again at 0, and ID_MOD need not be a multiple of JOB_HISTORY_MAX (the   *)
(* remainder of 65536 by 10 is 6).  DistQueue implements this module.      *)
(***************************************************************************)
EXTENDS JobHistory

CONSTANTS
  Exits,   \* exit statuses that are reported
  MaxJobs  \* bound on the number of submissions

ASSUME NullAssumption == NoEntry \notin EntryType(Exits)

VARIABLES
  job_array,
  history_putidx,
  leaked  \* number of entries that are neither in job_array nor freed

vars == <<job_array, history_putidx, leaked>>

Init ==
  /\ job_array = HistoryInit
  /\ history_putidx = 0
  /\ leaked = 0

\* The entry of the place that jobid takes over is freed if jobid is large
\* enough for the place to have been used.  (Mutant: off by one.)
FreesAbove(jobid) == jobid > JOB_HISTORY_MAX
Frees(jobid)      == jobid >= JOB_HISTORY_MAX

\* newJob.
NewEntry ==
  LET jobid == history_putidx % ID_MOD
      taken == job_array[jobid % JOB_HISTORY_MAX] # NoEntry
  IN /\ history_putidx < MaxJobs
     /\ job_array' = AddEntry(job_array, jobid)
     /\ history_putidx' = history_putidx + 1
     /\ leaked' = IF taken /\ ~Frees(jobid) THEN leaked + 1 ELSE leaked

\* unsubmit.
Mark(jobid) ==
  /\ Knows(job_array, jobid)
  /\ job_array' = MarkUnsubmitted(job_array, jobid)
  /\ UNCHANGED <<history_putidx, leaked>>

\* changeStateJob.
Report(jobid, state, exit) ==
  /\ job_array' = SetState(job_array, jobid, state, exit)
  /\ UNCHANGED <<history_putidx, leaked>>

Next ==
  \/ NewEntry
  \/ \E jobid \in JobIds :
       Mark(jobid) \/ \E state \in {"RUN"} \cup Final, exit \in Exits :
                        Report(jobid, state, exit)

Spec == Init /\ [][Next]_vars

-----------------------------------------------------------------------------
Remainder == ID_MOD % JOB_HISTORY_MAX

\* How many of the latest jobs are certainly known, and how old a known job may
\* be, counted in submissions.
Certain == IF history_putidx <= ID_MOD \/ Remainder = 0 THEN JOB_HISTORY_MAX ELSE Remainder
Oldest  == IF history_putidx <= ID_MOD THEN JOB_HISTORY_MAX ELSE JOB_HISTORY_MAX + Remainder

\* The history is of the latest jobs.  Until the ids start again it knows the
\* latest JOB_HISTORY_MAX jobs and no others.  Afterwards entries are taken over
\* out of turn: it knows at least the latest Remainder jobs (6 of 10 in the
\* code) and none that is more than Remainder older than it should be.
HistoryWindow ==
  \A n \in Max({0, history_putidx - ID_MOD}) .. history_putidx - 1 :
    LET age == history_putidx - n
    IN /\ age <= Certain => Knows(job_array, n % ID_MOD)
       /\ Knows(job_array, n % ID_MOD) => age <= Oldest

\* newJob decides by the id whether it takes over the place of another job, and
\* the ids start again: each time they do, no more than one history of entries
\* is never freed.
BoundedLeak == leaked <= JOB_HISTORY_MAX * (history_putidx \div ID_MOD)
=============================================================================
