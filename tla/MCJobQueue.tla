----------------------------- MODULE MCJobQueue -----------------------------
(***************************************************************************)
(* Instances of JobQueue for TLC.  There are enough jobs to fill the ring  *)
(* and to keep every putter waiting with another one.                      *)
(***************************************************************************)
EXTENDS JobQueue

MCIds  == 1 .. MAX_JOBS_QUEUE + Cardinality(Putters)
MCJobs == [id : MCIds]
=============================================================================
