---------------------------- MODULE HealthCheck ----------------------------
(***************************************************************************)
(* The check that precedes every job, in time: checkServerStatus of the    *)
(* main server waits in select for SelectTimeout seconds; sendAck of the   *)
(* execution server sleeps for AckSleep seconds before it answers.  One    *)
(* execution server asks for one job again and again, and nothing fails.   *)
(*                                                                         *)
(* Time passes in steps of a second.  A message is in the network for at   *)
(* most NetDelay seconds; a process whose time has come runs at most       *)
(* Jitter seconds late.  The queue belongs to other threads too: putJob of *)
(* a job that goes back may have to wait for room.  DistQueue has the same *)
(* steps without time, and with failures.                                  *)
(***************************************************************************)
EXTENDS Naturals

CONSTANTS
  SelectTimeout,  \* tv.tv_sec of checkServerStatus: 5
  AckSleep,       \* sleep of sendAck: 6
  NetDelay,
  Jitter,
  MaxWait         \* bound on the seconds that putJob waits for room in a round

ASSUME TimeAssumption ==
  /\ SelectTimeout \in Nat /\ AckSleep \in Nat /\ NetDelay \in Nat /\ Jitter \in Nat
  /\ MaxWait \in Nat
  /\ NetDelay < SelectTimeout

VARIABLES
  main,   \* recv, select: in checkServerStatus, or back: in putJob of putJobBack
  exec,   \* prompt, wait or sleep: as in ExecServer
  job,    \* queued, held by the main server's thread, or delivered
  down,   \* on the way to the execution server: none, check, job or eof
  up,     \* on the way to the main server: none or ack
  ready,  \* TRUE when the answer can be read by the main server
  timer,  \* seconds since main and exec began to wait, and down and up were sent
  round,  \* seconds since the execution server asked for the job
  waited  \* seconds of the round that putJob has waited for room

vars == <<main, exec, job, down, up, ready, timer, round, waited>>

NoTime == [main |-> 0, exec |-> 0, down |-> 0, up |-> 0]

Init ==
  /\ main = "recv" /\ exec = "prompt" /\ job = "queued"
  /\ down = "none" /\ up = "none" /\ ready = FALSE
  /\ timer = NoTime
  /\ round = 0 /\ waited = 0

\* jobRequest, on a new connection if need be; sendJob takes the job and
\* checkServerStatus sends the check and enters select.
Ask ==
  /\ exec = "prompt" /\ job = "queued"
  /\ exec' = "wait" /\ main' = "select" /\ job' = "held"
  /\ down' = "check" /\ up' = "none" /\ ready' = FALSE
  /\ timer' = NoTime
  /\ round' = 0 /\ waited' = 0

RecvCheck ==
  /\ exec = "wait" /\ down = "check"
  /\ exec' = "sleep" /\ down' = "none"
  /\ timer' = [timer EXCEPT !.exec = 0]
  /\ UNCHANGED <<main, job, up, ready, round, waited>>

\* sendAck after its sleep.
SendAck ==
  /\ exec = "sleep" /\ timer.exec >= AckSleep
  /\ exec' = "wait" /\ up' = "ack"
  /\ timer' = [timer EXCEPT !.up = 0]
  /\ UNCHANGED <<main, job, down, ready, round, waited>>

\* An answer to a connection that is closed goes nowhere.
AckArrives ==
  /\ up = "ack"
  /\ up' = "none"
  /\ ready' = (main = "select")
  /\ UNCHANGED <<main, exec, job, down, timer, round, waited>>

\* select returns because of the answer: the job is sent.  select looks at the
\* socket once more when its time is up.
Acked ==
  /\ main = "select" /\ ready
  /\ main' = "recv" /\ job' = "delivered" /\ ready' = FALSE
  /\ down' = "job"
  /\ timer' = [timer EXCEPT !.down = 0]
  /\ UNCHANGED <<exec, up, round, waited>>

\* select returns 0: putJobBack calls putJob.
GivesUp ==
  /\ main = "select" /\ ~ready /\ timer.main >= SelectTimeout
  /\ main' = "back"
  /\ UNCHANGED <<exec, job, down, up, ready, timer, round, waited>>

\* Mutants: the connection stays open; the job is not put back.
PutBackSilently ==
  /\ main = "back"
  /\ main' = "recv" /\ job' = "queued"
  /\ UNCHANGED <<exec, down, up, ready, timer, round, waited>>

PutBackForgets ==
  /\ main = "back"
  /\ main' = "recv" /\ down' = "eof"
  /\ timer' = [timer EXCEPT !.down = 0]
  /\ UNCHANGED <<exec, job, up, ready, round, waited>>

\* putJob has found room, at once or after any time, and only then the connection
\* is closed.
PutBack ==
  /\ main = "back"
  /\ main' = "recv" /\ job' = "queued"
  /\ down' = "eof"
  /\ timer' = [timer EXCEPT !.down = 0]
  /\ UNCHANGED <<exec, up, ready, round, waited>>

\* exec_server_protocol receives the job and runs it, or the end of the
\* connection, and the process ends; the user starts it again.
RecvEnd ==
  /\ exec = "wait" /\ down \in {"job", "eof"}
  /\ exec' = "prompt" /\ down' = "none"
  /\ UNCHANGED <<main, job, up, ready, timer, round, waited>>

-----------------------------------------------------------------------------
\* Nothing waits for longer than its deadline.  RoomDue is no deadline of the
\* code, which may wait for ever, but the bound of the model.
DownDue == down # "none" /\ exec = "wait" /\ timer.down >= NetDelay
UpDue   == up # "none" /\ timer.up >= NetDelay
ExecDue == exec = "sleep" /\ timer.exec >= AckSleep + Jitter
MainDue == main = "select" /\ (ready \/ timer.main >= SelectTimeout + Jitter)
RoomDue == main = "back" /\ waited >= MaxWait

\* A clock that counts while it is on, no further than anyone looks.
Counted(on, n, limit) == IF on /\ n < limit THEN n + 1 ELSE n

Tick ==
  /\ exec # "prompt"
  /\ ~DownDue /\ ~UpDue /\ ~ExecDue /\ ~MainDue /\ ~RoomDue
  /\ timer' = [main |-> Counted(main = "select", timer.main, SelectTimeout + Jitter),
               exec |-> Counted(exec = "sleep", timer.exec, AckSleep + Jitter),
               down |-> Counted(down # "none", timer.down, NetDelay),
               up   |-> Counted(up # "none", timer.up, NetDelay)]
  /\ round' = round + 1
  /\ waited' = IF main = "back" THEN waited + 1 ELSE waited
  /\ UNCHANGED <<main, exec, job, down, up, ready>>

Next == \/ Ask \/ RecvCheck \/ SendAck \/ AckArrives \/ Acked \/ GivesUp
        \/ PutBack \/ RecvEnd \/ Tick

\* Time goes on, and whatever is due happens.
Spec == Init /\ [][Next]_vars /\ WF_vars(Next)

-----------------------------------------------------------------------------
\* Beside the time for which putJob waits for room in the queue (for ever, if it
\* never finds any: PutBackEnds of DistQueue), an execution server that asks for a
\* job is back at its prompt, with or without a job, after its own sleep and the
\* delay of the messages.  The timeout of the main server adds nothing, and a side
\* that gives up does not leave the other one waiting.
RoundBound == round <= 3 * NetDelay + AckSleep + Jitter + waited

\* The two sides agree on the job: it is never both back in the queue and on
\* its way to the execution server, what arrives is what was decided, and an
\* execution server does not ask again while a thread still has its job.
SidesAgree ==
  /\ down = "job" => job = "delivered"
  /\ down = "eof" => job = "queued"
  /\ exec = "prompt" => job # "held"

\* "Sends check msg to exec_server and waits for ack.  If everything was OK,
\* returns 1" (main_server.h:129-130): a job that an execution server in working
\* order asks for, again and again, is delivered.
Served == <>(job = "delivered")
=============================================================================
