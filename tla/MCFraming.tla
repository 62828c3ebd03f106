----------------------------- MODULE MCFraming -----------------------------
(***************************************************************************)
(* An instance of Framing for TLC: a message without payload and two with, *)
(* one of them with more payload than the network takes at a time.         *)
(***************************************************************************)
EXTENDS Framing, TLC

CONSTANTS check, jobid, job

MCSize == (check :> 3) @@ (jobid :> 5) @@ (job :> 8)
=============================================================================
