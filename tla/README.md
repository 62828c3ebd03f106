# Verification of the distributed queue system

TLA+ models of the main server, the execution servers and the clients of
`distributed_queue_system`, the TLC configurations that check them on small
instances, and TLAPS proofs about the queue, the history, the check in time and
the whole system. File and line numbers refer to the files in `src/`.

## The system

| Component | State | Operations | Interacts with |
|---|---|---|---|
| Job queue, `Queue_t` | `jobs[15]`, free-running unsigned `put_idx` and `get_idx`, `state`, one mutex, two condition variables | `putJob`, the first half of `sendJob`, `removeJob`, `queueState` | shared by all threads of the main server |
| Job history, `job_array` | 10 pointers to `JobHistory_t`, `history_putidx`, one mutex | `newJob`, `findJob`, `jobState`, `unsubmit`, `changeStateJob`, `putJobBack` | shared by all threads of the main server |
| Main server threads | one thread per connection, the heap of `Job_t` | `attendClient`, `attendExecServ`, two accept threads | messages to and from clients and execution servers |
| Execution server | one process: prompt, waiting, answering the check, running a job | commands `job` and `stop`; `exec_server_protocol`, `sendAck`, `execJob`, `fatherJobRoutine` | messages to the main server; forks a child per job |
| Client | one process: prompt, or waiting for one response | commands `submit`, `submiti`, `statejob`, `statequeue`, `unsubmit`, `stop` | messages to the main server; a direct connection to the child of an interactive job |
| Message protocol | none | the setters and getters of `PROTO_DIST_QUEUE.h` | |
| Transport | bytes still to send and to receive | `sendMsg`, `recvMsg` | TCP |
| Interactive session | the client's listening socket and its connection to the child | `getArgsSubmitInt`, `client_accept`, `interaction_1`; `setFDsIter`, `socketPortConnect` | client and child directly |
| Shutdown | none of its own | `MainServerDestroy`, `QueueDestroy` | frees what the threads use |
| Console | none | `t`, `jobs`, `q` print | reads queue and history, `jobs` and `q` under their mutexes |

A job goes from a client (`SUB_NO_INTER`, `SUB_INTERACTIVE`) to its thread in the main server,
which makes an entry in the history, answers with the id and puts the job into
the queue, waiting for room. An execution server asks for a job (`JOB_REQ`); its
thread takes the oldest one, waiting for one, and before it sends the job checks
that the server is still there (`CH_EXEC_SER`, an answer within 5 s). If not, it
puts the job back and closes the connection. The execution server reports
`JOB_RUN` and then `JOB_DONE` or `JOB_SIG`; each report changes the entry. The
child of an interactive job first connects to the port on which its client has
listened since the submission.

What is hard about it:

- threads that hold one mutex at a time and do a handler's work in several
  critical sections (`unsubmit` in three, `sendJob` with `putJobBack` in three);
- two condition variables that are signalled one waiter at a time;
- a ring whose indices wrap at 2^32 and whose third operation, `removeJob`,
  works on array positions instead of indices;
- ownership of a `Job_t` that passes between threads through the queue;
- a history with fewer places than the queue;
- execution servers that crash, time out and come back with an answer that
  nobody waits for any more;
- job ids of 16 bits beside a counter of 32, and 65536 no multiple of 10;
- messages whose bytes arrive in any pieces, and connections that end inside one;
- a command `stop` that destroys mutexes and queue under running threads.

What makes each part correct: the queue is a bounded FIFO that loses no wakeup;
the history knows the latest jobs and their states only advance; a `Job_t` is in
one place until it is freed; a job is started at most once; every request is
answered, every job handed over and its end recorded unless it is lost with its
execution server; an unsubmitted job is not run and every other is; the transport
delivers whole
messages in order.
`PROJECT.json` lists the hazards one by one at their lines.

## Modules

    RingQueue ---- JobQueue ---- MCJobQueue
                   |  |  \------ JobQueueProofs
                   |  \-- BoundedFifo (implemented by JobQueue)
                   |
    Connections -- MainServer --\
    Messages ---- /   /          \
    JobHistory ------/            DistQueue -- MCDistQueue
      |  \---- History (implemented by DistQueue)
      |          DistQueue -- DistQueueProofs -- JobFlowProofs -- JobStateProofs
      JobHistoryProofs -- HistoryProofs (of History, used by JobFlowProofs)
    Connections, Messages -- ExecServer --/
    Connections, Messages -- Client -----/
    MessageChannel (implemented by Framing) -- Framing -- MCFraming
    HealthCheck -- HealthCheckProofs (on their own)
    Remainders (facts about % and \div, used by the proofs)

**RingQueue** has a `Queue_t` as a record and, as operators, what each critical
section of `queue_mtx` does to it. `MAX_JOBS_QUEUE` and the number of values of
an index, `IDX_MOD`, are parameters. `RemoveFrom` follows the two loops of
`removeJob` literally; where the second would leave the array, `ShiftOverruns`
holds.

**JobQueue** has the threads: `pc` says whether a thread is about to enter its
critical section (`put`, `get`), sleeps (`putWait`, `getWait`) or is elsewhere
(`idle`). One critical section is one action, since none contains another lock
and it can be left only by `pthread_cond_wait`. `Signal` chooses any one sleeper;
`SpuriousWakeup` is what POSIX allows. `overrun` records that `removeJob` has
left the array; after undefined behaviour nothing more is claimed, so nothing
more happens.

**BoundedFifo** is what the queue promises: a sequence with `Put`, `Take` and
`Withdraw`, which takes out any one item. `FifoSpec` maps the sequence to the
ring's contents.

**Messages** has one operator per setter of `PROTO_DIST_QUEUE.h`; byte order,
sizes and paths are left out, address and port of an interactive client are one
field. `SetJobDone` keeps the translation of
the exit statuses 40 and 41 into the state ERROR.

**Connections** has one FIFO sequence of messages per direction. Sending to a
closed end loses the message, a reader learns of a closed end when nothing is
left to read. A peer stands for a client or execution server over all its lives;
it connects again when both ends of the connection before are closed. `tty` has
the connection of each interactive job, and `lost` is a history variable: the
jobs that an execution server took with it when it failed.

**MessageChannel** is what `sendMsg` and `recvMsg` promise for one direction:
whole messages in order until an end closes. **Framing** has their loops: `toSend`
and `toRecv` are the rests of the two loops, `headerRecvd` and `buf` what
`recvMsg` has, `wire` the bytes between the ends; `send` and `recv` transfer any
number of bytes from one up. `ChannelSpec` maps the channel to the messages whose
last byte has been sent and which `recvMsg` has not returned. `Connections` uses
the channel.

**JobHistory** has the operators on `job_array`. An entry's `exit` is `Garbage`
until it is assigned. **History** makes a specification of them, for as many
submissions as it takes to use up the ids: `newJob` (`NewEntry`), `unsubmit`
(`Mark`), `changeStateJob` (`Report`). `leaked` counts entries that are
overwritten without being freed. `HistorySpec` says that `DistQueue` implements
it; the number of leaked entries is there a function of `history_putidx`
(`Leaked`), since `newJob` decides by the id alone whether it frees.

**MainServer** composes the history and the queue (`Q == INSTANCE JobQueue`, the
threads of clients and execution servers as putters, those of execution servers
as getters). `at` is the place of a thread between its critical sections:

| `at` | code | actions |
|---|---|---|
| `recv` | `recvMsg` at the top of the loop | `NewJob`, `JobState`, `QueueState`, `Unsubmit`, `JobReq`, `ChangeStateJob`, `Leave` |
| `submit` | `newJob` in `putJob` | `FinishSubmit` |
| `remove`, `mark` | `unsubmit` before `removeJob` and before its last critical section | `RemoveJob`, `MarkJob` |
| `take` | `sendJob` before it has a job | `TakeJob` |
| `check`, `select` | `checkServerStatus` before its send and in its `select` | `SendCheck`, `RecvAck`, `NoAck` |
| `send` | `sendJob` with the answer | `SendJob` |
| `back`, `relink` | `putJobBack` in `putJob` and after it | `FinishBack`, `Relink` |

`live` is the set of allocated `Job_t`. `fault` becomes TRUE when a thread would
follow a pointer to a freed job, use the index -1, or come to a mutex that `stop`
has destroyed; the model ends there. Two such places have no run of their own: `putJobBack` reads the id of
a job that another thread may have sent and freed (second
disjunct of `Relink`),
and `unsubmit` uses the -1 of `findJob` as an index when the entry was evicted
between its critical sections (second disjunct of `MarkJob`).

`Accept` stands for both accept threads, `threadNewClients` and
`threadNewExecServ`, which differ in the thread they start.

`Stop` is the command of the console with `MainServerDestroy` and `QueueDestroy`.
The threads go on, since `main` ends with `pthread_exit`: what touches only the
connection and the job in hand (`ExchangeStep`) is as before, `Misuse` is the
rest. With `NUM_QUEUE_MAX` 1, `queue2put`, `queue2get` and `queue_idx` choose
queue 0 always and are left out.

**ExecServer** and **Client** have one action per command and per message
received. `SubmitInt` opens the client's port and sends its address, or 0 when
the interface `en0` is not there; `Dial` is the child's attempt to connect;
`ClientAccept` and `EndSession` are the client's side. `SubmitFails` is a
submission whose `getline` or `getcwd` fails: nothing is sent, the client waits
all the same. `Crash` and `Kill` end the process at any point. `ran` and
`withdrawn` are history variables: how often a job was started and which
unsubmissions were confirmed. A crash of an execution server may cut off
any tail of what it sent.

**DistQueue** composes the three over `Connections` and states the properties of
the whole.

**HealthCheck** models the check in seconds, which `DistQueue` abstracts to "an
answer is there or not". A thread that gives up first puts its job back (`back`,
`PutBack`) and closes the connection after that; in between `putJob` may wait for
room for any time up to `MaxWait`, which stands for an unbounded one, and `waited`
counts it.

## Runs

Passing runs:

| Run | Instance | Shows |
|---|---|---|
| `queue` | 2 putters, 2 getters, 3 slots, indices mod 6, `removeJob` with every id | `TypeOK`, `StateTellsFull`, `NoLostWakeup`, `FifoSpec`, `RemovesRequestedOrNewest`, `HeadIsTaken` |
| `core` | 1 client, 2 execution servers, 1 slot, 2 submissions, 3 connections, queries of a job, `stop` at any time, submissions that fail | `TypeOK`, `ExitIsReported`, `OnePlace`, `AnswerIsDue`, `StartedOnce`, `HeldIsWaiting`, `ExpectedMessages`, `Accounted`, `CleanStop`, `QueueSpec`, `StateAdvances` |
| `history` | 2 clients, 1 execution server, 3 slots, history of 1, 2 submissions, 3 connections, unsubmission of the later job by either client | `NoDanglingJob`, `QueueSpec`, `HistorySpec` |
| `history_wrap` | history of 3, 8 ids, 20 submissions | `HistoryWindow`, `BoundedLeak` |
| `live` | 1 client, 1 execution server, 1 slot, 2 interactive submissions, 4 connections, queries of the queue | `HandedOver`, `EndIsRecorded`, `AcceptReturns` |
| `framing` | headers of 3 bytes, messages of 3, 5 and 8, buffers of 4, 4 calls of `sendMsg` | `ChannelSpec`, `Transferred` |
| `check_late` | select 5 s, sleep 6 s, network 1 s, lateness 2 s, up to 5 s until there is room for a put-back | `RoundBound`, `SidesAgree` |

`Accounted` puts the pieces together: at any time each job that the history knows
is at exactly one of six stages (with the main server, on its way to an execution
server, executed, its end on its way back, recorded as over, lost with an
execution server). `CleanStop` says what can be said of `stop`: if no thread has
come to a destroyed mutex and none has a job in hand any more, all jobs are freed.
`OnePlace` says the same of the pointers in the main server: an allocated job is in
one place, none is in two, and a freed one in none as long as the history knows
it; a job that the history has forgotten may be freed while it is queued, and
`evicted_in_queue` shows that it is.
`RemovesRequestedOrNewest` says of `removeJob` what is true of it in every state,
also when the requested job is not in the queue: then it is the newest one that
goes, and `innocent_dropped` shows that this happens in the system. It does not
speak of the removals that leave the array: when the newest job is in its last slot
the second loop of `removeJob` runs past the end (`ShiftOverruns`), which is
undefined behaviour, and the models end there (`overrun`).
`HandedOver` and `AcceptReturns` say that nothing waits for ever except beside a
put-back that never finds room (`Stuck`), which `putback_blocks` shows to happen.
A client then waits for ever too, if its own thread is in `putJob` with an earlier
job of the client and does not come to read the next request; so that a response
comes in the end is not claimed, but that no request is forgotten is
(`AnswerIsDue`).
`RoundBound` is the same for the check: the time for which the put-back waits for
room is counted apart, and everything else is bounded.
`HistoryWindow` says how much of the history is still right after the ids have
started again: of 10 entries the latest 6 for certain, and none older than 16
submissions.

Runs in which TLC refutes what a comment of the code says, each with a finding in
`PROJECT.json`:

| Run | What happens |
|---|---|
| `innocent_dropped` | unsubmitting a job that is being checked drops another one from the queue, which stays recorded as waiting and is never run |
| `unsubmitted_runs` | a job is run after its unsubmission was confirmed |
| `evicted_in_queue` | a job is freed while it is in the queue, because the history forgot it |
| `putback_blocks` | the thread that puts a job back waits for room for ever |
| `check_served` | the answer to the check is sent a second too late, always |

### Bounds

The queue is small enough to be full and empty with the threads there are, and
has a putter and a getter too many, so that sleepers and late-comers compete.
In all runs `IDX_MOD` is a multiple of the number of slots, so that indices wrap
while slots do not change meaning. The real numbers have a remainder,
2^32 % 15 = 1: the indices 2^32 - 1 and 0 both stand for slot 0, so that `putJob`
overwrites a queued job when an index has just wrapped between two of them. (With
3 slots and indices mod 7, which have the same remainder, TLC refutes `FifoSpec`.)
What holds of the real numbers is proved, see `FifoInOrderCorrect`. In `core` one
slot and two jobs make a thread wait for room while another puts its job back. In
`history` the history has one entry, so that the second job makes it forget the
first, wherever that is.

`MaxConnects` bounds how often processes come back, `MaxSubmits` the jobs. In
`core`, `live` and `putback_blocks` there is a connection more than needed for the
client and one execution server, so that an execution server crashes or times out
in the middle of a check and it or another one takes the job again. In `history`
(3 connections, of two clients and one execution server), `unsubmitted_runs`,
`innocent_dropped` and `evicted_in_queue` (2, of one client and one execution
server) there is none if all of these connect: an execution server that fails is
then not there again, and a job that was put back stays in the queue, to be
unsubmitted or not; nothing in these runs is about taking it a second time. In the
runs of `DistQueue`, `ID_MOD` is at least `MaxSubmits`, so ids do not come round;
in `history_wrap` they do, twice and a half, with 8 % 3 = 2 where the code has
65536 % 10 = 6. In `live` more jobs are submitted than the queue has slots, so that
a put-back may find no room: without the exception for `Stuck`, TLC refutes
`HandedOver` there. In `check_late` 5 s of waiting for room are enough to outlast
everything else that may be going on at the time. In `framing` the buffers hold
less than the larger messages and more than a header, so that a header, a payload
and the next header are split and joined in every way; a message of one header
alone has no payload to wait for. `core` and `history` identify states that differ
in the names of execution servers or of clients only; they check no liveness
property.

In all runs of the system the users may stop asking, bounds are reached, or the
main server meets undefined behaviour, so deadlock is not an error there. In
`queue` the threads may rest and `removeJob` may overrun; that nobody is stuck
beside a job or a slot is what `NoLostWakeup` and `HeadIsTaken` say.

### Fairness

`JobQueue!FairSpec`: a thread that is ready to enter its critical section gets
the mutex and the processor. Threads need not call again and need not wake up
without a signal.

`DistQueue!FairSpec`: threads of the main server, running execution servers and
waiting clients go on when they can. The users of execution servers start them
and ask for jobs, and jobs end: without that nothing obliges the system to hand
over anything. Clients are never obliged to ask, nor their users to end a session;
a client whose child has gone ends the session by itself. The liveness properties are
stated up to `~Healthy`: a counterexample would have to stay within the allowed
number of connections, so they say that finitely many failures leave nothing
behind. `PutBackEnds`, which fails, is stated the same way.

`Framing!Spec`: both loops go on when the kernel lets them, and the receiver calls
`recvMsg` again, as the loops of the threads do.

`HealthCheck!Spec`: time passes and what is due happens.

## Proofs

All theorems hold for every value of the constants under the named assumptions,
all of which TLC evaluates: `RingAssumption` (an index has more values than the
ring slots), `ThreadAssumption` (finitely many threads), `JobAssumption` (NULL is
no job), `HistoryAssumption` and `WindowAssumption` (there are at least as many
ids as places in the history), `NullAssumption` (NULL is no entry),
`PeerAssumption` (no client is an execution server), `MainAssumption` (the
assumptions on ring and NULL for the queue of the system), `ValueAssumption` (exit
statuses and signals are bytes, the uninitialised one is told apart, ids asked for
are ids), `TimeAssumption` (times are natural numbers, the bound `MaxWait` on the
wait for room too, and a message takes less than the 5 s of the `select`).
Hypotheses of single theorems are stated below.

**The queue.** `JobQueueProofs`:

- `TypeCorrect`: `TypeOK` is inductive. Lemmas give the type of each operator of
  `RingQueue` and of `Signal`.
- `StateTellsFullCorrect`: inductive together with `TypeOK`; the lemmas
  `CountPut`, `CountTake` and `CountRemove` say what each operation does to the
  count across the wrap of the indices, from `MAX_JOBS_QUEUE < IDX_MOD` only.
- `NoLostWakeupCorrect`: inductive together with the two before. A thread moves
  between the sets of sleepers and of threads under way one at a time (`Move`),
  and a signal moves one sleeper if there is any (`SignalWakes`); then each
  operation that adds a job or a slot either finds no sleeper or makes one a
  competitor.
- `FifoInOrderCorrect`, for any capacity and any index width, so also for 15 and
  2^32: each step from a state `InOrder`, in which no index has wrapped between
  the oldest and the newest job, is a step of the FIFO queue. Only the steps
  within 15 jobs of each multiple of 2^32 are left out, where `putJob` may overwrite
  a queued job. The lemmas say what putting, taking and removing do to
  `Items`; for `removeJob`, which shifts part of the array, the argument is by the
  places of the oldest and the newest job and of the one found.
- `FifoCorrect`: `Spec /\ []InOrder => FifoSpec`, the refinement for the behaviours
  up to the first such wrap.
- `RemovesRequestedOrNewestCorrect`: what `removeJob` takes out, whether or not the
  requested job is there and wherever the jobs are in the array.

**The history.** `HistoryProofs`, from `JobHistoryProofs` (what `findJob` finds)
and `Remainders`:

- `ContentsCorrect`: the inductive invariant `HistoryInv`. It says of each place
  which job it has, as a function of `history_putidx`: the latest one whose id
  belongs to the place. Without it `HistoryWindow` is not inductive, since it
  says nothing of the entries that are too old and yet decide which ones are
  overwritten next.
- `HistoryWindowCorrect` follows by arithmetic on the rounds of the ids.
- `BoundedLeakCorrect`: with `LeakSoFar`, which counts the places of the current
  round too.

**The check in time.** `HealthCheckProofs`: `Inv` says for each stage of a round
which clocks run and how far they may be apart, and keeps the time of waiting for
room apart from all of them; `RoundBoundCorrect` and `SidesAgreeCorrect` follow.
`MaxWait` is any number, so that the bound holds however long `putJob` waits.

**The system**, for any number of clients and execution servers. `DistQueueProofs`:

- `TypeCorrect` and `ExitIsReportedCorrect` from the inductive `Types`, which adds
  to `TypeOK` the types of the messages in each direction: an exit status that is
  sent to a client went through a report, a history entry and a response.
- `ExpectedMessagesCorrect` from `Types` and `Links`. `Links` says of each pair of
  a thread and its peer which messages may be on their way in both directions for
  each pair of stages, closed ends and reconnections included: without it nothing
  excludes an answer to a check that is on its way when the thread gives up.
- `AnswerIsDueCorrect` from `Links` alone.

`JobFlowProofs`:

- `HistorySpecCorrect`: every step of the system is a step of `History` or leaves
  it alone. `SubmitsCounted` bounds `history_putidx` by the submissions that were
  made, `Filled` says that the first NULL of `job_array` is at `history_putidx`,
  which `Leaked` needs. `SystemHistoryWindow` takes `HistoryWindow` over to the
  system.
- `StartedOnceCorrect`, if `MaxSubmits <= ID_MOD`: ids do not start again, which
  in the code means up to 65536 submissions (with an id for two jobs, `ran` would
  count both). The inductive invariant is `Custody`: a job that was freed for its
  sending is in no place of the main server, in one message or with one execution
  server, was started only if no message has it, and only gone jobs are reported.
- `QueueSpecCorrect` and `NoDanglingJobCorrect`, if `MaxSubmits <= ID_MOD` and as
  long as the queue is `InOrder` (`[]Q!InOrder` is a hypothesis). The second
  condition holds in every state if `MAX_JOBS_QUEUE` divides `IDX_MOD`, as in the runs;
  with the 15 slots and 2^32 indices of the code it excludes the moments in which
  an index has wrapped between the oldest and the newest job, in which `putJob`
  overwrites a queued job. The inductive invariant is `Placement`. `Calls` ties the
  stage of each thread to the call of a queue function it is in, the argument of
  that call and the job in hand. `RingFits` bounds the ring. `InPlace` says that no
  id is in two of the places (arguments, queue, hands), which is what makes the
  use of the queue correct and no pointer dangle, that each was given out, so that
  a new job is a new one, and that each placed job is allocated as long as the
  history knows it. `JobMoves` sorts the steps of the threads by what they do to
  the places: a job enters, is deposited, taken, returned, sent off or withdrawn,
  or all jobs stay; each of these keeps `Placement`. What the three operations do
  to the jobs in the ring comes from `JobQueueProofs` (`RP`).

`JobStateProofs`, under the same hypothesis and with `UnsubIds = {}` (an
unsubmission may mark a job that `sendJob` holds, as `unsubmitted_runs` shows, and
then none of the first three holds; `removeJob` may leak a job, and then the other
two do not hold):

- `HeldIsWaitingCorrect`: what the main server still has is recorded as waiting.
- `StateAdvancesCorrect`: a recorded state never goes back.
- `AccountedCorrect`: a job that the history knows is at exactly one of the six
  stages.
- `OnePlaceCorrect` and `CleanStopCorrect`, as long as the queue is `InOrder`, from
  `Placement` and `NoLeak`: every allocated job is in some place, which after
  `stop` is not the queue. Neither depends on the length of the history: that a
  placed job is allocated is claimed, in `InPlace`, of the jobs that the history
  knows, since `putJobBack` frees a job that it has just put into the queue if the
  history has forgotten it (`evicted_in_queue`).

The first three follow from the inductive `Course`. A report changes the recorded state
without looking at it, so that the state can only be right if the reports on their
way are: `Fits` says which states the reports that are still to be read lead on
from, for a job wherever it is, and `Found` that a job that is not over is
somewhere. `OneReporter` says that one execution server at most reports on a job,
`LostAreGone` that the end of a lost job is not on its way. `Course` rests on
`Custody`, on `NoUnsubmit` (no message, stage or entry of an unsubmission) and on
`Reporting`: on each connection there is one start at most, before everything else,
and one end at most, none while the job is executed, and none when the thread has
left its loop, since a thread that reads the end of a connection has read every
report before. `SystemMoves` sorts the steps of all actors into seven kinds by what
they do to one job: a job is new (`NewMove`), sent (`SendMove`), received
(`RecvMove`), over (`FinishMove`), lost or cut off with its execution server
(`FailMove`), reported (`ReportMove`) or left alone (`RestMove`); each kind keeps
`Course`.

The inductive invariants were checked by TLC on the instances of the runs before
they were proved.

Only model-checked: `ChannelSpec` and `Transferred` of `Framing` (`ChannelSpec` maps through
`SelectSeq`, whose definition is recursive, so that facts about it need induction
over data); all liveness (the prover has no rules for `ENABLED` and fairness).

## Not modelled

- The console's `t`, `jobs` and `q`, which read and print (`jobs` and `q` under the
  mutex of the history and of the queue, `t` reads `history_putidx` without one);
  what an interactive session transfers.
- EINTR in `sendMsg` and `recvMsg`: no program installs a signal handler.
- A `stop` that finds `queue_mtx` locked and then ends the process with `exit(-1)`:
  critical sections are single steps here.
- A client's port that the kernel gives out again: each submission has its own.
- A thread in `recvMsg` after `select` that waits for the rest of a partial
  answer to the check: the answer is one message of one header.
- The child's arguments and redirections; paths, time stamps, printing.
- `SIGPIPE`: a thread of the main server does not send twice to a peer that is
  gone without a `recvMsg` between that ends the thread.

## Plan

1. Done: queue, history, main server, execution server, client, whole system,
   health check; the three theorems about the queue.
2. Done: interactive sessions, failing submissions, the command `stop`, the loss
   of jobs with execution servers, the byte loops, the history past its ids.
3. Done: theorems about the order in the queue, the history, the check in time
   and the whole system.
4. Done: theorems about the recorded states of jobs and the stages of their way.
5. Done: theorems about the places of the jobs in the main server.
6. Done: what of `OnePlace` holds when the history forgets jobs, the queue at the
   wrap of its indices, the waits beside a full queue, two clients.
7. Left: a bound on the submissions and connections that implies `InOrder`.
