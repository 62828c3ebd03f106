------------------------- MODULE HealthCheckProofs -------------------------
(***************************************************************************)
(* Proofs about HealthCheck, for every timeout, sleep, jitter, wait for    *)
(* room and network delay below the timeout.  RoundBound and SidesAgree are not inductive:  *)
(* they need to know where both sides are in the exchange, and how much of *)
(* the time of the round has gone at each point of it.                     *)
(***************************************************************************)
EXTENDS HealthCheck, TLAPS

\* The clocks do not pass their deadlines.
ClocksOK ==
  /\ timer \in [main : 0 .. SelectTimeout + Jitter,
                exec : 0 .. AckSleep + Jitter,
                down : 0 .. NetDelay,
                up   : 0 .. NetDelay]
  /\ round \in Nat /\ waited \in Nat

\* Where both sides are: the check is on its way, the execution server sleeps,
\* its answer is on its way or at the main server, the main server has given up
\* and waits for room, the job or the end of the connection is on its way (the answer may be late and still under way), or
\* the execution server is back at its prompt.
Checking  == /\ exec = "wait" /\ main = "select" /\ job = "held"
             /\ down = "check" /\ up = "none" /\ ~ready
Sleeping  == /\ exec = "sleep" /\ up = "none" /\ ~ready
             /\ \/ main \in {"select", "back"} /\ job = "held" /\ down = "none"
                \/ main = "recv" /\ job = "queued" /\ down = "eof"
Answering == /\ exec = "wait" /\ main = "select" /\ job = "held"
             /\ down = "none" /\ up = "ack" /\ ~ready
Answered  == /\ exec = "wait" /\ main = "select" /\ job = "held"
             /\ down = "none" /\ up = "none" /\ ready
Backing   == /\ exec = "wait" /\ main = "back" /\ job = "held"
             /\ down = "none" /\ up \in {"none", "ack"} /\ ~ready
Ending    == /\ exec = "wait" /\ main = "recv" /\ ~ready
             /\ \/ down = "job" /\ job = "delivered" /\ up = "none"
                \/ down = "eof" /\ job = "queued" /\ up \in {"none", "ack"}
AtPrompt  == /\ exec = "prompt" /\ main = "recv" /\ job # "held"
             /\ down = "none" /\ up \in {"none", "ack"} /\ ~ready

\* One of these is the case, and in each the time that is left is enough: while
\* the check is on its way the main server cannot give up, since its own clock
\* runs no faster than that of the message; each later stage adds the delay it
\* may take at most.
Sent == NetDelay + AckSleep + Jitter

Inv ==
  /\ ClocksOK
  /\ ready \in BOOLEAN
  /\ \/ Checking /\ timer.main <= timer.down /\ round <= timer.down
     \/ Sleeping /\ round <= NetDelay + timer.exec
     \/ Answering /\ round <= Sent + timer.up
     \/ Answered /\ round <= Sent + NetDelay
     \/ Backing /\ round <= Sent + NetDelay + waited
     \/ Ending /\ round <= Sent + NetDelay + waited + timer.down
     \/ AtPrompt /\ round <= Sent + 2 * NetDelay + waited

\* Every step keeps both sides in these stages, and within their time.
LEMMA InvInductive == Inv /\ [Next]_vars => Inv'
<1> SUFFICES ASSUME Inv, [Next]_vars
             PROVE  Inv'
  OBVIOUS
<1> USE TimeAssumption DEF Inv, ClocksOK, Sent
<1>1. ASSUME Ask PROVE Inv'
  <2>1. ready' \in BOOLEAN /\ Checking' /\ timer' = NoTime /\ round' = 0 /\ waited' = 0
    BY <1>1 DEF Ask, Checking
  <2> QED
    BY <2>1 DEF NoTime
<1>2. ASSUME RecvCheck PROVE Inv'
  BY <1>2 DEF RecvCheck, Checking, Sleeping, Answering, Answered, Backing, Ending, AtPrompt
<1>3. ASSUME SendAck PROVE Inv'
  BY <1>3 DEF SendAck, Checking, Sleeping, Answering, Answered, Backing, Ending, AtPrompt
<1>4. ASSUME AckArrives PROVE Inv'
  <2>1. ready' \in BOOLEAN /\ (ready' <=> main = "select")
    BY <1>4 DEF AckArrives
  <2> QED
    BY <1>4, <2>1
    DEF AckArrives, Checking, Sleeping, Answering, Answered, Backing, Ending, AtPrompt
<1>5. ASSUME Acked PROVE Inv'
  <2>1. ready' \in BOOLEAN /\ ~ready' /\ Answered
    BY <1>5 DEF Acked, Checking, Sleeping, Answering, Answered, Backing, Ending, AtPrompt
  <2> QED
    BY <1>5, <2>1 DEF Acked, Checking, Sleeping, Answering, Answered, Backing, Ending, AtPrompt
<1>6. ASSUME GivesUp PROVE Inv'
  BY <1>6 DEF GivesUp, Checking, Sleeping, Answering, Answered, Backing, Ending, AtPrompt
<1>7. ASSUME PutBack PROVE Inv'
  BY <1>7 DEF PutBack, Checking, Sleeping, Answering, Answered, Backing, Ending, AtPrompt
<1>8. ASSUME RecvEnd PROVE Inv'
  BY <1>8 DEF RecvEnd, Checking, Sleeping, Answering, Answered, Backing, Ending, AtPrompt
<1>9. ASSUME Tick PROVE Inv'
  BY <1>9 DEF Tick, Counted, DownDue, UpDue, ExecDue, MainDue, RoomDue,
              Checking, Sleeping, Answering, Answered, Backing, Ending, AtPrompt
<1>10. ASSUME UNCHANGED vars PROVE Inv'
  BY <1>10 DEF vars, Checking, Sleeping, Answering, Answered, Backing, Ending, AtPrompt
<1> QED
  BY <1>1, <1>2, <1>3, <1>4, <1>5, <1>6, <1>7, <1>8, <1>9, <1>10 DEF Next

\* Every behaviour of the exchange stays in these stages and in their time.
THEOREM InvCorrect == Spec => []Inv
<1>1. Init => Inv
  <2>1. Init => AtPrompt /\ ready \in BOOLEAN /\ timer = NoTime /\ round = 0 /\ waited = 0
    BY DEF Init, AtPrompt
  <2> QED
    BY <2>1, TimeAssumption DEF NoTime, Inv, ClocksOK, Sent
<1> QED
  BY <1>1, InvInductive, PTL DEF Spec

\* An execution server that asks for a job is back at its prompt after its own
\* sleep, three delays and the time for which putJob waits for room, however long
\* that is, for every timeout of the main server that is longer than the delay of
\* a message, in particular when it is shorter than the sleep.
THEOREM RoundBoundCorrect == Spec => []RoundBound
<1>1. Inv => RoundBound
  BY TimeAssumption
  DEF Inv, ClocksOK, RoundBound, Sent
<1> QED
  BY <1>1, InvCorrect, PTL

\* The two sides agree on the job, although the main server may give up while the
\* answer is on its way.
THEOREM SidesAgreeCorrect == Spec => []SidesAgree
<1>1. Inv => SidesAgree
  BY DEF Inv, SidesAgree, Checking, Sleeping, Answering, Answered, Backing, Ending, AtPrompt
<1> QED
  BY <1>1, InvCorrect, PTL
=============================================================================
