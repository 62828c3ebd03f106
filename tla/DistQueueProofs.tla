-------------------------- MODULE DistQueueProofs --------------------------
(***************************************************************************)
(* Proofs about the whole system, for any number of clients and execution  *)
(* servers, any capacity of the queue and the history and any bound on     *)
(* connections and submissions: what is on the connections, and what the   *)
(* two ends of a connection may assume about each other.                   *)
(***************************************************************************)
EXTENDS DistQueue, JobHistoryProofs, SequenceTheorems

-----------------------------------------------------------------------------
(***************************************************************************)
(* Messages.                                                               *)
(***************************************************************************)
\* The exit statuses that execution servers report are those of a process.
LEMMA StatusRange == Statuses \subseteq 0 .. 255
BY ValueAssumption DEF Statuses, ExecFailed, ForkFailed

\* From a client to the main server.
ClientRequests ==
  [type : {"SUB_NO_INTER", "CLIENT_CLOSED"}]
  \cup [type : {"SUB_INTERACTIVE"}, port : Ports \cup {NoAddr}]
  \cup [type : {"JOBSTATE", "UNSUB"}, id : JobIds]
  \cup [type : {"QUESTATE"}, queue : Queues]

\* From an execution server to the main server.
Reports ==
  [type : {"JOB_RUN"}, id : JobIds, state : {"RUN"}, exit : Statuses]
  \cup [type : {"JOB_DONE", "JOB_SIG"}, id : JobIds, state : Final, exit : Statuses]

ExecMessages ==
  [type : {"JOB_REQ", "CH_EXEC_SER_ACK", "SERVER_CLOSED"}] \cup Reports

\* From the main server to a client: the state of a job that is over comes with
\* an exit status that was reported.
ClientResponses ==
  [type : {"SUB_RESP", "UNSUB_RESP"}, id : JobIds]
  \cup [type : {"BAD_PARAMS"}]
  \cup [type : {"QUESTATE_RESP"}, queue : Queues, state : {"AVAIL", "FULL"}]
  \cup [type : {"JOBSTATE_RESP"}, id : JobIds, state : States \ Final,
        exit : Statuses \cup {Garbage}]
  \cup [type : {"JOBSTATE_RESP"}, id : JobIds, state : Final, exit : Statuses]

\* From the main server to an execution server.
JobMessages ==
  [type : {"CH_EXEC_SER"}]
  \cup [type : {"SENDJOB_NOINTER"}, id : JobIds]
  \cup [type : {"SENDJOB_INTER"}, id : JobIds, port : Ports]

\* The entries of the history.
Entries ==
  [id : JobIds, state : States \ Final, exit : Statuses \cup {Garbage}]
  \cup [id : JobIds, state : Final, exit : Statuses]

-----------------------------------------------------------------------------
(***************************************************************************)
(* Types, one part for each component.                                     *)
(***************************************************************************)
ToMainType(ch) ==
  /\ ch \in [Peers -> Seq(ClientRequests \cup ExecMessages)]
  /\ \A c \in Clients : ch[c] \in Seq(ClientRequests)
  /\ \A e \in Execs : ch[e] \in Seq(ExecMessages)

ToPeerType(ch) ==
  /\ ch \in [Peers -> Seq(ClientResponses \cup JobMessages)]
  /\ \A c \in Clients : ch[c] \in Seq(ClientResponses)
  /\ \A e \in Execs : ch[e] \in Seq(JobMessages)

LinkTypes ==
  /\ open \in [Peers -> SUBSET {"main", "peer"}]
  /\ connects \in Nat
  /\ tty \in [Ports -> {"none", "listen", "connected", "hungup", "closed"}]
  /\ lost \in SUBSET JobIds

QueueTypes ==
  /\ queue \in Q!QueueType(Jobs)
  /\ pc \in [Peers -> Q!Stages]
  /\ arg \in [Peers -> Jobs \cup {NoJob}]
  /\ overrun \in BOOLEAN

HistoryTypes ==
  /\ job_array \in [HistIdx -> Entries \cup {NoEntry}]
  /\ history_putidx \in Nat

StageTypes ==
  /\ at \in [Peers -> ClientStages \cup ExecStages]
  /\ \A c \in Clients : at[c] \in ClientStages
  /\ \A e \in Execs : at[e] \in ExecStages

HeapTypes ==
  /\ live \in SUBSET Jobs
  /\ req \in [Clients -> JobIds]
  /\ held \in [Execs -> Jobs \cup {NoJob}]

FlagTypes == stopped \in BOOLEAN /\ fault \in BOOLEAN

ExecTypes ==
  /\ es \in [Execs -> {"off", "prompt", "wait", "sleep", "dial", "run"}]
  /\ cur \in [Execs -> Jobs]
  /\ ran \in [JobIds -> Nat]

ClientTypes ==
  /\ cl \in [Clients -> {"off", "prompt", "wait", "waitInter", "hang", "accept", "session"}]
  /\ port \in [Clients -> Ports \cup {NoAddr}]
  /\ submits \in Nat

NetTypes  == ToMainType(toMain) /\ ToPeerType(toPeer) /\ LinkTypes
MainTypes == QueueTypes /\ HistoryTypes /\ StageTypes /\ HeapTypes /\ FlagTypes
Types     == NetTypes /\ MainTypes /\ ExecTypes /\ ClientTypes

-----------------------------------------------------------------------------
\* Each operation of the main server on its ring yields a ring.
LEMMA RingOps ==
  ASSUME NEW q \in Q!QueueType(Jobs), NEW job \in Jobs \cup {NoJob}, NEW jobid
  PROVE  /\ Q!PutInto(q, job) \in Q!QueueType(Jobs)
         /\ Q!TakeFrom(q) \in Q!QueueType(Jobs)
         /\ Q!RemoveFrom(q, jobid) \in Q!QueueType(Jobs)
         /\ Q!Oldest(q) \in Jobs \cup {NoJob}
<1> USE MainAssumption DEF Q!QueueType, Q!Indices
<1>1. /\ Q!Slot(q.put_idx) \in Q!Slots
      /\ Q!Slot(q.get_idx) \in Q!Slots
  BY DEF Q!Slot, Q!Slots
<1>2. /\ Q!Inc(q.put_idx) \in Q!Indices
      /\ Q!Dec(q.put_idx) \in Q!Indices
      /\ Q!Inc(q.get_idx) \in Q!Indices
  BY DEF Q!Inc, Q!Dec
<1>3. Q!PutInto(q, job) \in Q!QueueType(Jobs)
  BY <1>1, <1>2 DEF Q!PutInto
<1>4. Q!TakeFrom(q) \in Q!QueueType(Jobs)
  BY <1>1, <1>2 DEF Q!TakeFrom
<1>5. Q!RemoveFrom(q, jobid) \in Q!QueueType(Jobs)
  <2> DEFINE idx  == Q!ScanEnd(q, jobid)
             last == Q!Slot(q.put_idx) - 1
             after == [s \in Q!Slots |-> IF idx <= s /\ s < last THEN q.jobs[s + 1]
                                                                 ELSE q.jobs[s]]
  <2>1. ASSUME NEW s \in Q!Slots
        PROVE  (IF idx <= s /\ s < last THEN q.jobs[s + 1] ELSE q.jobs[s])
                 \in Jobs \cup {NoJob}
    <3>1. s < last => s + 1 \in Q!Slots
      BY <1>1 DEF Q!Slots
    <3> QED
      BY <3>1
  <2>2. after \in [Q!Slots -> Jobs \cup {NoJob}]
    BY <2>1
  <2> QED
    BY <1>2, <2>2 DEF Q!RemoveFrom
<1>6. Q!Oldest(q) \in Jobs \cup {NoJob}
  BY <1>1 DEF Q!Oldest
<1> QED
  BY <1>3, <1>4, <1>5, <1>6

\* A signal leaves every thread at a stage.
LEMMA SignalStages ==
  ASSUME NEW c \in [Peers -> Q!Stages], NEW from, NEW to \in Q!Stages,
         NEW d \in Q!Signal(c, from, to)
  PROVE  d \in [Peers -> Q!Stages]
BY DEF Q!Signal, Q!ThreadsIn

\* What the main server does to the history leaves a history.  A job that is
\* over has an exit status that was reported.
LEMMA HistoryOps ==
  ASSUME NEW h \in [HistIdx -> Entries \cup {NoEntry}], NEW jobid \in JobIds
  PROVE  /\ AddEntry(h, jobid) \in [HistIdx -> Entries \cup {NoEntry}]
         /\ Knows(h, jobid) =>
              /\ Entry(h, jobid) \in Entries
              /\ MarkUnsubmitted(h, jobid) \in [HistIdx -> Entries \cup {NoEntry}]
         /\ \A r \in Reports :
              SetState(h, jobid, r.state, r.exit) \in [HistIdx -> Entries \cup {NoEntry}]
<1>1. AddEntry(h, jobid) \in [HistIdx -> Entries \cup {NoEntry}]
  BY DEF AddEntry, Entries, States, Final
<1>2. ASSUME Knows(h, jobid)
      PROVE  /\ Entry(h, jobid) \in Entries
             /\ MarkUnsubmitted(h, jobid) \in [HistIdx -> Entries \cup {NoEntry}]
  <2> DEFINE i == FindJob(h, jobid)
  <2>1. i \in HistIdx /\ h[i] # NoEntry
    BY <1>2, FindJobFinds
  <2>2. h[i] \in Entries
    BY <2>1
  <2>3. [h[i] EXCEPT !.state = "UNSUBMITED"] \in Entries
    BY <2>2 DEF Entries, States, Final
  <2> QED
    BY <2>1, <2>2, <2>3 DEF Entry, MarkUnsubmitted
<1>3. ASSUME NEW r \in Reports
      PROVE  SetState(h, jobid, r.state, r.exit) \in [HistIdx -> Entries \cup {NoEntry}]
  <2>1. [id |-> jobid, state |-> r.state, exit |-> r.exit] \in Entries
    BY DEF Reports, Entries, States, Final
  <2> QED
    BY <2>1 DEF SetState
<1> QED
  BY <1>1, <1>2, <1>3

-----------------------------------------------------------------------------
\* What a queue of messages of one set may become.
LEMMA MessageQueue ==
  ASSUME NEW S, NEW s \in Seq(S)
  PROVE  /\ <<>> \in Seq(S)
         /\ s # <<>> => Head(s) \in S /\ Tail(s) \in Seq(S)
         /\ \A m \in S : Append(s, m) \in Seq(S)
         /\ \A n \in 0 .. Len(s) : SubSeq(s, 1, n) \in Seq(S)
OBVIOUS

\* What recvMsg, sendMsg, close and a crash do to the channel of one connection
\* to the main server leaves the channels well formed.
LEMMA ToMainOps ==
  ASSUME NEW ch, ToMainType(ch), NEW t \in Peers
  PROVE  /\ ch[t] # <<>> => ToMainType([ch EXCEPT ![t] = Tail(@)])
         /\ ToMainType([ch EXCEPT ![t] = <<>>])
         /\ t \in Clients => \A m \in ClientRequests : ToMainType([ch EXCEPT ![t] = Append(@, m)])
         /\ t \in Execs => \A m \in ExecMessages : ToMainType([ch EXCEPT ![t] = Append(@, m)])
         /\ \A n \in 0 .. Len(ch[t]) : ToMainType([ch EXCEPT ![t] = SubSeq(@, 1, n)])
         /\ ch[t] # <<>> => Head(ch[t]) \in ClientRequests \cup ExecMessages
         /\ ch[t] # <<>> /\ t \in Clients => Head(ch[t]) \in ClientRequests
         /\ ch[t] # <<>> /\ t \in Execs => Head(ch[t]) \in ExecMessages
<1>1. ASSUME NEW s, s \in Seq(ClientRequests \cup ExecMessages),
             t \in Clients => s \in Seq(ClientRequests),
             t \in Execs => s \in Seq(ExecMessages)
      PROVE  ToMainType([ch EXCEPT ![t] = s])
  BY <1>1, PeerAssumption DEF ToMainType, Peers
<1>2. /\ ch[t] \in Seq(ClientRequests \cup ExecMessages)
      /\ t \in Clients => ch[t] \in Seq(ClientRequests)
      /\ t \in Execs => ch[t] \in Seq(ExecMessages)
  BY DEF ToMainType
<1>3. ASSUME ch[t] # <<>> PROVE ToMainType([ch EXCEPT ![t] = Tail(ch[t])])
  <2>1. /\ Tail(ch[t]) \in Seq(ClientRequests \cup ExecMessages)
        /\ t \in Clients => Tail(ch[t]) \in Seq(ClientRequests)
        /\ t \in Execs => Tail(ch[t]) \in Seq(ExecMessages)
    BY <1>2, MessageQueue, <1>3
  <2> QED
    BY <1>1, <2>1
<1>4. ToMainType([ch EXCEPT ![t] = <<>>])
  <2>1. /\ <<>> \in Seq(ClientRequests \cup ExecMessages)
        /\ t \in Clients => <<>> \in Seq(ClientRequests)
        /\ t \in Execs => <<>> \in Seq(ExecMessages)
    BY <1>2, MessageQueue
  <2> QED
    BY <1>1, <2>1
<1>5. ASSUME t \in Clients, NEW m \in ClientRequests
      PROVE  ToMainType([ch EXCEPT ![t] = Append(ch[t], m)])
  <2>1. /\ Append(ch[t], m) \in Seq(ClientRequests \cup ExecMessages)
        /\ t \in Clients => Append(ch[t], m) \in Seq(ClientRequests)
        /\ t \in Execs => Append(ch[t], m) \in Seq(ExecMessages)
    BY <1>2, MessageQueue, <1>5, PeerAssumption
  <2> QED
    BY <1>1, <2>1
<1>6. ASSUME t \in Execs, NEW m \in ExecMessages
      PROVE  ToMainType([ch EXCEPT ![t] = Append(ch[t], m)])
  <2>1. /\ Append(ch[t], m) \in Seq(ClientRequests \cup ExecMessages)
        /\ t \in Clients => Append(ch[t], m) \in Seq(ClientRequests)
        /\ t \in Execs => Append(ch[t], m) \in Seq(ExecMessages)
    BY <1>2, MessageQueue, <1>6, PeerAssumption
  <2> QED
    BY <1>1, <2>1
<1>7. ASSUME NEW n \in 0 .. Len(ch[t])
      PROVE  ToMainType([ch EXCEPT ![t] = SubSeq(ch[t], 1, n)])
  <2>1. /\ SubSeq(ch[t], 1, n) \in Seq(ClientRequests \cup ExecMessages)
        /\ t \in Clients => SubSeq(ch[t], 1, n) \in Seq(ClientRequests)
        /\ t \in Execs => SubSeq(ch[t], 1, n) \in Seq(ExecMessages)
    BY <1>2, MessageQueue
  <2> QED
    BY <1>1, <2>1
<1>8. /\ ch[t] # <<>> => Head(ch[t]) \in ClientRequests \cup ExecMessages
      /\ ch[t] # <<>> /\ t \in Clients => Head(ch[t]) \in ClientRequests
      /\ ch[t] # <<>> /\ t \in Execs => Head(ch[t]) \in ExecMessages
  BY <1>2, MessageQueue
<1> QED
  BY <1>3, <1>4, <1>5, <1>6, <1>7, <1>8

\* The same for the channel from the main server.
LEMMA ToPeerOps ==
  ASSUME NEW ch, ToPeerType(ch), NEW t \in Peers
  PROVE  /\ ch[t] # <<>> => ToPeerType([ch EXCEPT ![t] = Tail(@)])
         /\ ToPeerType([ch EXCEPT ![t] = <<>>])
         /\ t \in Clients => \A m \in ClientResponses : ToPeerType([ch EXCEPT ![t] = Append(@, m)])
         /\ t \in Execs => \A m \in JobMessages : ToPeerType([ch EXCEPT ![t] = Append(@, m)])
         /\ ch[t] # <<>> /\ t \in Clients => Head(ch[t]) \in ClientResponses
         /\ ch[t] # <<>> /\ t \in Execs => Head(ch[t]) \in JobMessages
<1>1. ASSUME NEW s, s \in Seq(ClientResponses \cup JobMessages),
             t \in Clients => s \in Seq(ClientResponses),
             t \in Execs => s \in Seq(JobMessages)
      PROVE  ToPeerType([ch EXCEPT ![t] = s])
  BY <1>1, PeerAssumption DEF ToPeerType, Peers
<1>2. /\ ch[t] \in Seq(ClientResponses \cup JobMessages)
      /\ t \in Clients => ch[t] \in Seq(ClientResponses)
      /\ t \in Execs => ch[t] \in Seq(JobMessages)
  BY DEF ToPeerType
<1>3. ASSUME ch[t] # <<>> PROVE ToPeerType([ch EXCEPT ![t] = Tail(ch[t])])
  <2>1. /\ Tail(ch[t]) \in Seq(ClientResponses \cup JobMessages)
        /\ t \in Clients => Tail(ch[t]) \in Seq(ClientResponses)
        /\ t \in Execs => Tail(ch[t]) \in Seq(JobMessages)
    BY <1>2, MessageQueue, <1>3
  <2> QED
    BY <1>1, <2>1
<1>4. ToPeerType([ch EXCEPT ![t] = <<>>])
  <2>1. /\ <<>> \in Seq(ClientResponses \cup JobMessages)
        /\ t \in Clients => <<>> \in Seq(ClientResponses)
        /\ t \in Execs => <<>> \in Seq(JobMessages)
    BY <1>2, MessageQueue
  <2> QED
    BY <1>1, <2>1
<1>5. ASSUME t \in Clients, NEW m \in ClientResponses
      PROVE  ToPeerType([ch EXCEPT ![t] = Append(ch[t], m)])
  <2>1. /\ Append(ch[t], m) \in Seq(ClientResponses \cup JobMessages)
        /\ t \in Clients => Append(ch[t], m) \in Seq(ClientResponses)
        /\ t \in Execs => Append(ch[t], m) \in Seq(JobMessages)
    BY <1>2, MessageQueue, <1>5, PeerAssumption
  <2> QED
    BY <1>1, <2>1
<1>6. ASSUME t \in Execs, NEW m \in JobMessages
      PROVE  ToPeerType([ch EXCEPT ![t] = Append(ch[t], m)])
  <2>1. /\ Append(ch[t], m) \in Seq(ClientResponses \cup JobMessages)
        /\ t \in Clients => Append(ch[t], m) \in Seq(ClientResponses)
        /\ t \in Execs => Append(ch[t], m) \in Seq(JobMessages)
    BY <1>2, MessageQueue, <1>6, PeerAssumption
  <2> QED
    BY <1>1, <2>1
<1>7. /\ ch[t] # <<>> /\ t \in Clients => Head(ch[t]) \in ClientResponses
      /\ ch[t] # <<>> /\ t \in Execs => Head(ch[t]) \in JobMessages
  BY <1>2, MessageQueue
<1> QED
  BY <1>3, <1>4, <1>5, <1>6, <1>7

-----------------------------------------------------------------------------
\* The critical sections of the queue keep its types.
LEMMA QueueTypesStep ==
  ASSUME QueueTypes, NEW t \in Peers,
         \/ \E job \in Jobs \cup {NoJob} : Q!CallPut(t, job)
         \/ Q!PutJob(t)
         \/ Q!CallGet(t)
         \/ Q!GetJob(t)
         \/ \E jobid \in JobIds : Q!RemoveJob(jobid)
         \/ Q!SpuriousWakeup(t)
         \/ UNCHANGED queueVars
  PROVE  QueueTypes'
<1> USE DEF QueueTypes
<1>0. \A stage \in {"idle", "put", "putWait", "get", "getWait"} :
        stage \in Q!Stages /\ [pc EXCEPT ![t] = stage] \in [Peers -> Q!Stages]
  BY DEF Q!Stages
<1>1. ASSUME NEW job \in Jobs \cup {NoJob}, Q!CallPut(t, job) PROVE QueueTypes'
  BY <1>0, <1>1 DEF Q!CallPut
<1>2. ASSUME Q!PutJob(t) PROVE QueueTypes'
  <2>1. pc' \in [Peers -> Q!Stages]
    BY <1>0, <1>2, SignalStages DEF Q!PutJob
  <2>2. queue' \in Q!QueueType(Jobs)
    BY <1>2, RingOps DEF Q!PutJob
  <2> QED
    BY <1>2, <2>1, <2>2 DEF Q!PutJob
<1>3. ASSUME Q!CallGet(t) PROVE QueueTypes'
  BY <1>0, <1>3 DEF Q!CallGet
<1>4. ASSUME Q!GetJob(t) PROVE QueueTypes'
  <2>1. pc' \in [Peers -> Q!Stages]
    BY <1>0, <1>4, SignalStages DEF Q!GetJob
  <2>2. queue' \in Q!QueueType(Jobs)
    BY <1>4, RingOps DEF Q!GetJob
  <2> QED
    BY <1>4, <2>1, <2>2 DEF Q!GetJob
<1>5. ASSUME NEW jobid \in JobIds, Q!RemoveJob(jobid) PROVE QueueTypes'
  <2>1. pc' \in [Peers -> Q!Stages]
    BY <1>0, <1>5, SignalStages DEF Q!RemoveJob
  <2>2. queue' \in Q!QueueType(Jobs)
    BY <1>5, RingOps DEF Q!RemoveJob
  <2> QED
    BY <1>5, <2>1, <2>2 DEF Q!RemoveJob
<1>6. ASSUME Q!SpuriousWakeup(t) PROVE QueueTypes'
  BY <1>0, <1>6 DEF Q!SpuriousWakeup
<1>7. ASSUME UNCHANGED queueVars PROVE QueueTypes'
  BY <1>7 DEF queueVars
<1> QED
  BY <1>1, <1>2, <1>3, <1>4, <1>5, <1>6, <1>7

\* A thread goes on at a stage of its own kind, if anywhere.
LEMMA GotoTypes ==
  ASSUME StageTypes, NEW t \in Peers, NEW stage,
         Goto(t, stage) \/ UNCHANGED at,
         t \in Clients => stage \in ClientStages,
         t \in Execs => stage \in ExecStages
  PROVE  StageTypes'
BY PeerAssumption DEF StageTypes, Goto, Peers

\* recvMsg of the main server returns a message of the sender's kind.
LEMMA RecvTypes ==
  ASSUME Types, NEW t \in Peers, NEW types, Recv(t, types)
  PROVE  /\ ToMainType(toMain')
         /\ toMain[t] # <<>> /\ Head(toMain[t]).type \in types
         /\ Head(toMain[t]) \in ClientRequests \cup ExecMessages
         /\ t \in Clients => Head(toMain[t]) \in ClientRequests
         /\ t \in Execs => Head(toMain[t]) \in ExecMessages
<1>1. ToMainType(toMain)
  BY DEF Types, NetTypes
<1>2. toMain[t] # <<>> /\ Head(toMain[t]).type \in types /\ toMain' = [toMain EXCEPT ![t] = Tail(@)]
  BY DEF Recv, Arrived, Received
<1> QED
  BY <1>1, <1>2, ToMainOps

\* sendMsg of the main server.
LEMMA ReplyTypes ==
  ASSUME Types, NEW t \in Peers, NEW msg, Reply(t, msg),
         t \in Clients => msg \in ClientResponses,
         t \in Execs => msg \in JobMessages
  PROVE  ToPeerType(toPeer')
<1>1. ToPeerType(toPeer) /\ (t \in Clients \/ t \in Execs)
  BY DEF Types, NetTypes, Peers
<1> QED
  BY <1>1, ToPeerOps DEF Reply, Sent

\* close of the main server.
LEMMA CloseTypes ==
  ASSUME Types, NEW t \in Peers, CloseSocket(t)
  PROVE  ToMainType(toMain') /\ LinkTypes'
<1>1. ToMainType(toMain) /\ LinkTypes
  BY DEF Types, NetTypes
<1> QED
  BY <1>1, ToMainOps DEF CloseSocket, LinkTypes

-----------------------------------------------------------------------------
\* Every step of a thread of the main server keeps the types: what the thread of
\* a client or an execution server gets to read is what its peer sends.
LEMMA ThreadTypesStep ==
  ASSUME Types, NEW t \in Peers, ThreadStep(t)
  PROVE  NetTypes' /\ MainTypes'
<1> USE DEF Types, NetTypes, MainTypes
<1> DEFINE G == NetTypes' /\ MainTypes'
<1>0. /\ stopped' = stopped
      /\ t \in Clients <=> t \notin Execs
  BY PeerAssumption DEF ThreadStep, Peers
<1>1. ASSUME Accept(t) PROVE G
  <2>1. ToMainType(toMain') /\ LinkTypes'
    BY <1>1, CloseTypes DEF Accept, netVars, linkVars, LinkTypes
  <2>2. QueueTypes' /\ HistoryTypes' /\ ToPeerType(toPeer')
    BY <1>1, QueueTypesStep DEF Accept, HistoryTypes, histVars, netVars
  <2>3. StageTypes' /\ HeapTypes' /\ FlagTypes'
    <3>1. StageTypes'
      BY <1>0, <1>1, GotoTypes DEF Accept, ClientStages, ExecStages
    <3>2. HeapTypes'
      BY <1>1 DEF Accept, HeapTypes
    <3>3. FlagTypes'
      BY <1>0, <1>1 DEF Accept, FlagTypes
    <3> QED
      BY <3>1, <3>2, <3>3
  <2> QED
    BY <2>1, <2>2, <2>3
<1>2. ASSUME Leave(t) PROVE G
  <2>1. ToMainType(toMain') /\ LinkTypes'
    BY <1>2, CloseTypes DEF Leave
  <2>2. QueueTypes' /\ HistoryTypes' /\ ToPeerType(toPeer')
    BY <1>2, QueueTypesStep DEF Leave, HistoryTypes, histVars
  <2>3. StageTypes' /\ HeapTypes' /\ FlagTypes'
    <3>1. StageTypes'
      BY <1>0, <1>2, GotoTypes DEF Leave, ClientStages, ExecStages
    <3>2. HeapTypes'
      BY <1>2 DEF Leave, HeapTypes
    <3>3. FlagTypes'
      BY <1>0, <1>2 DEF Leave, FlagTypes
    <3> QED
      BY <3>1, <3>2, <3>3
  <2> QED
    BY <2>1, <2>2, <2>3
<1>3. ASSUME QueueState(t) PROVE G
  <2>1. ToMainType(toMain')
    BY <1>3, RecvTypes DEF QueueState
  <2>2. t \in Clients /\ Head(toMain[t]).queue \in Queues
    BY <1>0, <1>3, RecvTypes DEF QueueState, ClientRequests, ExecMessages, Reports
  <2>3. ToPeerType(toPeer')
    <3>1. SetQueueState(Head(toMain[t]).queue, queue.state) \in ClientResponses
      BY <2>2 DEF SetQueueState, ClientResponses, QueueTypes, Q!QueueType
    <3>2. SetBadParams \in ClientResponses
      BY DEF SetBadParams, ClientResponses
    <3> QED
      BY <1>0, <1>3, <2>2, <3>1, <3>2, ReplyTypes DEF QueueState
  <2>4. LinkTypes' /\ MainTypes'
    <3>1. UNCHANGED <<mainVars, linkVars>>
      BY <1>3 DEF QueueState
    <3>2. QueueTypes'
      BY <3>1, QueueTypesStep DEF mainVars
    <3> QED
      BY <3>1, <3>2 DEF mainVars, linkVars, LinkTypes, histVars, HistoryTypes,
             StageTypes, HeapTypes, FlagTypes
  <2> QED
    BY <2>1, <2>3, <2>4
<1>4. ASSUME t \in Clients, NewJob(t) PROVE G
  <2> DEFINE msg == Head(toMain[t])
             job == [id |-> NewId, port |-> IF msg.type = "SUB_INTERACTIVE" THEN msg.port ELSE NoAddr]
  <2>1. ToMainType(toMain') /\ msg \in ClientRequests
    BY <1>4, RecvTypes DEF NewJob
  <2>2. NewId \in JobIds
    BY HistoryAssumption DEF NewId, JobIds, HistoryTypes
  <2>3. job \in Jobs
    BY <2>1, <2>2 DEF Jobs, ClientRequests
  <2>4. ToPeerType(toPeer')
    <3>1. SetJobID(NewId) \in ClientResponses
      BY <2>2 DEF SetJobID, ClientResponses
    <3> QED
      BY <1>0, <1>4, <3>1, ReplyTypes DEF NewJob
  <2>5. QueueTypes'
    BY <1>4, <2>3, QueueTypesStep DEF NewJob
  <2>6. HistoryTypes'
    BY <1>4, <2>2, HistoryOps DEF NewJob, HistoryTypes
  <2>7. StageTypes' /\ HeapTypes' /\ FlagTypes'
    <3>1. StageTypes'
      BY <1>0, <1>4, GotoTypes DEF NewJob, ClientStages
    <3>2. HeapTypes'
      BY <1>4, <2>3 DEF NewJob, HeapTypes
    <3>3. FlagTypes'
      BY <1>0, <1>4 DEF NewJob, FlagTypes
    <3> QED
      BY <3>1, <3>2, <3>3
  <2>8. LinkTypes'
    BY <1>4 DEF NewJob, LinkTypes, linkVars
  <2> QED
    BY <2>1, <2>4, <2>5, <2>6, <2>7, <2>8
<1>5. ASSUME NEW next, PutJob(t, next),
             t \in Clients => next \in ClientStages,
             t \in Execs => next \in ExecStages
      PROVE  G
  <2>1. QueueTypes'
    BY <1>5, QueueTypesStep DEF PutJob
  <2>2. StageTypes' /\ HeapTypes' /\ FlagTypes'
    <3>1. StageTypes'
      <4>1. Goto(t, next) \/ Goto(t, at[t])
        BY <1>5 DEF PutJob
      <4>2. /\ t \in Clients => at[t] \in ClientStages
            /\ t \in Execs => at[t] \in ExecStages
        BY DEF StageTypes
      <4> QED
        BY <1>5, <4>1, <4>2, GotoTypes
    <3>2. HeapTypes'
      BY <1>5 DEF PutJob, HeapTypes
    <3>3. FlagTypes'
      BY <1>0, <1>5 DEF PutJob, FlagTypes
    <3> QED
      BY <3>1, <3>2, <3>3
  <2>3. NetTypes' /\ HistoryTypes'
    BY <1>5 DEF PutJob, netVars, linkVars, LinkTypes, histVars, HistoryTypes
  <2> QED
    BY <2>1, <2>2, <2>3
<1>6. ASSUME t \in Clients, JobState(t) PROVE G
  <2> DEFINE jobid == Head(toMain[t]).id
  <2>1. ToMainType(toMain') /\ jobid \in JobIds
    BY <1>6, RecvTypes DEF JobState, ClientRequests
  <2>2. ToPeerType(toPeer')
    <3>1. SetBadParams \in ClientResponses
      BY DEF SetBadParams, ClientResponses
    <3>2. ASSUME Knows(job_array, jobid)
          PROVE  SetJobState(jobid, Entry(job_array, jobid)) \in ClientResponses
      <4>1. PICK x \in Entries : x = Entry(job_array, jobid)
        BY <2>1, <3>2, HistoryOps DEF HistoryTypes
      <4>2. SetJobState(jobid, x) \in ClientResponses
        BY <2>1 DEF SetJobState, ClientResponses, Entries
      <4> QED
        BY <4>1, <4>2
    <3> QED
      BY <1>0, <1>6, <3>1, <3>2, ReplyTypes DEF JobState
  <2>3. LinkTypes' /\ MainTypes'
    <3>1. UNCHANGED <<mainVars, linkVars>>
      BY <1>6 DEF JobState
    <3>2. QueueTypes'
      BY <3>1, QueueTypesStep DEF mainVars
    <3> QED
      BY <3>1, <3>2 DEF mainVars, linkVars, LinkTypes, histVars, HistoryTypes,
             StageTypes, HeapTypes, FlagTypes
  <2> QED
    BY <2>1, <2>2, <2>3
<1>7. ASSUME t \in Clients, Unsubmit(t) PROVE G
  <2> DEFINE jobid == Head(toMain[t]).id
  <2>1. ToMainType(toMain') /\ jobid \in JobIds
    BY <1>7, RecvTypes DEF Unsubmit, ClientRequests
  <2>2. ToPeerType(toPeer')
    <3>1. SetBadParams \in ClientResponses
      BY DEF SetBadParams, ClientResponses
    <3> QED
      BY <1>0, <1>7, <3>1, ReplyTypes DEF Unsubmit
  <2>3. QueueTypes' /\ HistoryTypes' /\ LinkTypes'
    BY <1>7, QueueTypesStep DEF Unsubmit, linkVars, LinkTypes, histVars, HistoryTypes
  <2>4. StageTypes' /\ HeapTypes' /\ FlagTypes'
    <3>1. StageTypes'
      BY <1>0, <1>7, GotoTypes DEF Unsubmit, ClientStages
    <3>2. HeapTypes'
      BY <1>7, <2>1 DEF Unsubmit, HeapTypes
    <3>3. FlagTypes'
      BY <1>0, <1>7 DEF Unsubmit, FlagTypes
    <3> QED
      BY <3>1, <3>2, <3>3
  <2> QED
    BY <2>1, <2>2, <2>3, <2>4
<1>8. ASSUME t \in Clients, RemoveJob(t) PROVE G
  <2>1. req[t] \in JobIds
    BY <1>8 DEF HeapTypes
  <2>2. QueueTypes'
    BY <1>8, <2>1, QueueTypesStep DEF RemoveJob
  <2>3. StageTypes' /\ HeapTypes' /\ FlagTypes'
    <3>1. StageTypes'
      BY <1>0, <1>8, GotoTypes DEF RemoveJob, ClientStages
    <3>2. HeapTypes'
      BY <1>8 DEF RemoveJob, HeapTypes
    <3>3. FlagTypes'
      BY <1>0, <1>8 DEF RemoveJob, FlagTypes
    <3> QED
      BY <3>1, <3>2, <3>3
  <2>4. NetTypes' /\ HistoryTypes'
    BY <1>8 DEF RemoveJob, netVars, linkVars, LinkTypes, histVars, HistoryTypes
  <2> QED
    BY <2>2, <2>3, <2>4
<1>9. ASSUME t \in Clients, MarkJob(t) PROVE G
  <2>1. req[t] \in JobIds
    BY <1>9 DEF HeapTypes
  <2>2. HistoryTypes'
    BY <1>9, <2>1, HistoryOps DEF MarkJob, HistoryTypes
  <2>3. ToPeerType(toPeer')
    <3>1. SetUnsubmit(req[t]) \in ClientResponses
      BY <2>1 DEF SetUnsubmit, ClientResponses
    <3> QED
      BY <1>0, <1>9, <3>1, ReplyTypes DEF MarkJob
  <2>4. StageTypes' /\ HeapTypes' /\ FlagTypes'
    <3>1. StageTypes'
      BY <1>0, <1>9, GotoTypes DEF MarkJob, ClientStages
    <3>2. HeapTypes'
      BY <1>9 DEF MarkJob, HeapTypes
    <3>3. FlagTypes'
      BY <1>0, <1>9 DEF MarkJob, FlagTypes
    <3> QED
      BY <3>1, <3>2, <3>3
  <2>5. QueueTypes' /\ LinkTypes' /\ ToMainType(toMain')
    BY <1>9, QueueTypesStep DEF MarkJob, linkVars, LinkTypes
  <2> QED
    BY <2>2, <2>3, <2>4, <2>5
<1>10. ASSUME t \in Execs, JobReq(t) PROVE G
  <2>1. ToMainType(toMain') /\ QueueTypes'
    BY <1>10, RecvTypes, QueueTypesStep DEF JobReq
  <2>2. StageTypes' /\ HeapTypes' /\ FlagTypes'
    <3>1. StageTypes'
      BY <1>0, <1>10, GotoTypes DEF JobReq, ExecStages
    <3>2. HeapTypes'
      BY <1>10 DEF JobReq, HeapTypes
    <3>3. FlagTypes'
      BY <1>0, <1>10 DEF JobReq, FlagTypes
    <3> QED
      BY <3>1, <3>2, <3>3
  <2>3. ToPeerType(toPeer') /\ LinkTypes' /\ HistoryTypes'
    BY <1>10 DEF JobReq, linkVars, LinkTypes, histVars, HistoryTypes
  <2> QED
    BY <2>1, <2>2, <2>3
<1>11. ASSUME t \in Execs, TakeJob(t) PROVE G
  <2>1. QueueTypes'
    BY <1>11, QueueTypesStep DEF TakeJob
  <2>2. Q!Oldest(queue) \in Jobs \cup {NoJob}
    BY RingOps DEF QueueTypes
  <2>3. StageTypes' /\ HeapTypes' /\ FlagTypes'
    <3>1. StageTypes'
      BY <1>0, <1>11, GotoTypes DEF TakeJob, ExecStages
    <3>2. HeapTypes'
      BY <1>11, <2>2 DEF TakeJob, HeapTypes
    <3>3. FlagTypes'
      BY <1>0, <1>11 DEF TakeJob, FlagTypes
    <3> QED
      BY <3>1, <3>2, <3>3
  <2>4. NetTypes' /\ HistoryTypes'
    BY <1>11 DEF TakeJob, netVars, linkVars, LinkTypes, histVars, HistoryTypes
  <2> QED
    BY <2>1, <2>3, <2>4
<1>12. ASSUME t \in Execs, SendCheck(t) PROVE G
  <2>1. held[t] \in Jobs \cup {NoJob}
    BY <1>12 DEF HeapTypes
  <2>2. QueueTypes'
    BY <1>12, <2>1, QueueTypesStep DEF SendCheck, PutBack, queueVars
  <2>3. StageTypes' /\ HeapTypes' /\ FlagTypes'
    <3>1. StageTypes'
      BY <1>0, <1>12, GotoTypes DEF SendCheck, PutBack, ExecStages
    <3>2. HeapTypes'
      BY <1>12 DEF SendCheck, HeapTypes
    <3>3. FlagTypes'
      BY <1>0, <1>12 DEF SendCheck, FlagTypes
    <3> QED
      BY <3>1, <3>2, <3>3
  <2>4. ToPeerType(toPeer')
    <3>1. SetCheckExecServer \in JobMessages
      BY DEF SetCheckExecServer, JobMessages
    <3> QED
      BY <1>0, <1>12, <3>1, ReplyTypes DEF SendCheck
  <2>5. ToMainType(toMain') /\ LinkTypes' /\ HistoryTypes'
    BY <1>12 DEF SendCheck, linkVars, LinkTypes, histVars, HistoryTypes
  <2> QED
    BY <2>2, <2>3, <2>4, <2>5
<1>13. ASSUME t \in Execs, RecvAck(t) PROVE G
  <2>1. ToMainType(toMain')
    BY <1>13, ToMainOps DEF RecvAck, Arrived, Received
  <2>2. StageTypes' /\ HeapTypes' /\ FlagTypes'
    <3>1. StageTypes'
      BY <1>0, <1>13, GotoTypes DEF RecvAck, ExecStages
    <3>2. HeapTypes'
      BY <1>13 DEF RecvAck, HeapTypes
    <3>3. FlagTypes'
      BY <1>0, <1>13 DEF RecvAck, FlagTypes
    <3> QED
      BY <3>1, <3>2, <3>3
  <2>3. QueueTypes' /\ ToPeerType(toPeer') /\ LinkTypes' /\ HistoryTypes'
    BY <1>13, QueueTypesStep DEF RecvAck, linkVars, LinkTypes, histVars, HistoryTypes
  <2> QED
    BY <2>1, <2>2, <2>3
<1>14. ASSUME t \in Execs, NoAck(t) PROVE G
  <2>1. held[t] \in Jobs \cup {NoJob}
    BY <1>14 DEF HeapTypes
  <2>2. QueueTypes'
    BY <1>14, <2>1, QueueTypesStep DEF NoAck, PutBack
  <2>3. StageTypes' /\ HeapTypes' /\ FlagTypes'
    <3>1. StageTypes'
      BY <1>0, <1>14, GotoTypes DEF NoAck, PutBack, ExecStages
    <3>2. HeapTypes'
      BY <1>14 DEF NoAck, HeapTypes
    <3>3. FlagTypes'
      BY <1>0, <1>14 DEF NoAck, FlagTypes
    <3> QED
      BY <3>1, <3>2, <3>3
  <2>4. NetTypes' /\ HistoryTypes'
    BY <1>14 DEF NoAck, netVars, linkVars, LinkTypes, histVars, HistoryTypes
  <2> QED
    BY <2>2, <2>3, <2>4
<1>15. ASSUME t \in Execs, SendJob(t) PROVE G
  <2>1. held[t] \in Jobs \cup {NoJob}
    BY <1>15 DEF HeapTypes
  <2>2. QueueTypes'
    BY <1>15, <2>1, QueueTypesStep DEF SendJob, PutBack, queueVars
  <2>3. StageTypes' /\ HeapTypes' /\ FlagTypes'
    <3>1. StageTypes'
      BY <1>0, <1>15, GotoTypes DEF SendJob, PutBack, ExecStages
    <3>2. HeapTypes'
      BY <1>15 DEF SendJob, HeapTypes
    <3>3. FlagTypes'
      BY <1>0, <1>15 DEF SendJob, FlagTypes
    <3> QED
      BY <3>1, <3>2, <3>3
  <2>4. ToMainType(toMain') /\ HistoryTypes'
    BY <1>15 DEF SendJob, histVars, HistoryTypes
  <2>5. ASSUME held[t] \in live
        PROVE  /\ held[t].id \in JobIds
               /\ held[t].port = NoAddr => SetFileExecNoInter(held[t].id) \in JobMessages
               /\ held[t].port # NoAddr =>
                    SetFileExecInter(held[t].id, held[t].port) \in JobMessages
    BY <2>5 DEF HeapTypes, Jobs, JobMessages, SetFileExecNoInter, SetFileExecInter
  <2>6. LinkTypes'
    BY <1>15, <2>5 DEF SendJob, LinkTypes
  <2>7. ToPeerType(toPeer')
    BY <1>0, <1>15, <2>5, ReplyTypes DEF SendJob
  <2> QED
    BY <2>2, <2>3, <2>4, <2>6, <2>7
<1>16. ASSUME t \in Execs, Relink(t) PROVE G
  <2>1. ToMainType(toMain') /\ LinkTypes'
    BY <1>16, CloseTypes DEF Relink, linkVars, LinkTypes
  <2>2. StageTypes' /\ HeapTypes' /\ FlagTypes'
    <3>1. StageTypes'
      BY <1>0, <1>16, GotoTypes DEF Relink, ExecStages
    <3>2. HeapTypes'
      BY <1>16 DEF Relink, HeapTypes
    <3>3. FlagTypes'
      BY <1>0, <1>16 DEF Relink, FlagTypes
    <3> QED
      BY <3>1, <3>2, <3>3
  <2>3. QueueTypes' /\ ToPeerType(toPeer') /\ HistoryTypes'
    BY <1>16, QueueTypesStep DEF Relink, histVars, HistoryTypes
  <2> QED
    BY <2>1, <2>2, <2>3
<1>17. ASSUME t \in Execs, ChangeStateJob(t) PROVE G
  <2> DEFINE msg == Head(toMain[t])
  <2>1. ToMainType(toMain') /\ msg \in Reports
    BY <1>17, RecvTypes DEF ChangeStateJob, ExecMessages
  <2>2. msg.id \in JobIds
    BY <2>1 DEF Reports
  <2>3. HistoryTypes'
    BY <1>17, <2>1, <2>2, HistoryOps DEF ChangeStateJob, HistoryTypes
  <2>4. QueueTypes' /\ ToPeerType(toPeer') /\ LinkTypes' /\ StageTypes' /\ HeapTypes' /\ FlagTypes'
    BY <1>0, <1>17, QueueTypesStep DEF ChangeStateJob, linkVars, LinkTypes, StageTypes, HeapTypes,
             FlagTypes
  <2> QED
    BY <2>1, <2>3, <2>4
<1>18. ASSUME Misuse(t) PROVE G
  <2>1. QueueTypes'
    BY <1>18, QueueTypesStep DEF Misuse
  <2>2. NetTypes' /\ HistoryTypes' /\ StageTypes' /\ HeapTypes' /\ FlagTypes'
    BY <1>0, <1>18 DEF Misuse, netVars, linkVars, LinkTypes, histVars, HistoryTypes,
             StageTypes, HeapTypes, FlagTypes
  <2> QED
    BY <2>1, <2>2
<1>19. CASE FinishSubmit(t) /\ t \in Clients
  BY <1>0, <1>5, <1>19 DEF FinishSubmit, ClientStages
<1>20. CASE FinishBack(t) /\ t \in Execs
  BY <1>0, <1>5, <1>20 DEF FinishBack, ExecStages
<1> QED
  BY <1>1, <1>2, <1>3, <1>4, <1>6, <1>7, <1>8, <1>9, <1>10, <1>11, <1>12, <1>13, <1>14,
     <1>15, <1>16, <1>17, <1>18, <1>19, <1>20
     DEF ThreadStep, ClientThread, ExchangeStep, ExecThread

\* A wakeup without a signal and the command stop keep the types.
LEMMA MainTypesStep ==
  ASSUME Types, MainNext
  PROVE  NetTypes' /\ MainTypes'
<1> USE DEF Types, NetTypes, MainTypes
<1>1. ASSUME NEW t \in Peers, ThreadStep(t) PROVE NetTypes' /\ MainTypes'
  BY <1>1, ThreadTypesStep
<1>2. ASSUME NEW t \in Peers, Wakeup(t), UNCHANGED stopped PROVE NetTypes' /\ MainTypes'
  <2>1. QueueTypes'
    BY <1>2, QueueTypesStep DEF Wakeup
  <2>2. NetTypes' /\ HistoryTypes' /\ StageTypes' /\ HeapTypes' /\ FlagTypes'
    BY <1>2 DEF Wakeup, netVars, linkVars, LinkTypes, histVars, HistoryTypes, StageTypes,
                HeapTypes, FlagTypes
  <2> QED
    BY <2>1, <2>2
<1>3. ASSUME Stop PROVE NetTypes' /\ MainTypes'
  <2>1. FlagTypes'
    BY <1>3 DEF Stop, FlagTypes
  <2>2. NetTypes' /\ QueueTypes' /\ HistoryTypes' /\ StageTypes' /\ HeapTypes'
    BY <1>3 DEF Stop, netVars, linkVars, LinkTypes, queueVars, QueueTypes, histVars,
                HistoryTypes, StageTypes, HeapTypes
  <2> QED
    BY <2>1, <2>2
<1> QED
  BY <1>1, <1>2, <1>3 DEF MainNext

-----------------------------------------------------------------------------
\* The messages that the execution servers send.
LEMMA ExecMessageTypes ==
  /\ ES!SetJobReq \in ExecMessages
  /\ ES!SetCheckExecServerAck \in ExecMessages
  /\ ES!SetClosedConnection_ExecServer \in ExecMessages
  /\ \A j \in JobIds :
       /\ ES!SetJobRun(j) \in ExecMessages
       /\ \A status \in Statuses : /\ ES!SetJobDone(j, status) \in ExecMessages
                                   /\ ES!SetJobSignaled(j, status) \in ExecMessages
<1>1. /\ ES!SetJobReq \in ExecMessages
      /\ ES!SetCheckExecServerAck \in ExecMessages
      /\ ES!SetClosedConnection_ExecServer \in ExecMessages
  BY DEF ES!SetJobReq, ES!SetCheckExecServerAck, ES!SetClosedConnection_ExecServer,
         ExecMessages
<1>2. ASSUME NEW j \in JobIds, NEW status \in Statuses
      PROVE  /\ ES!SetJobRun(j) \in ExecMessages
             /\ ES!SetJobDone(j, status) \in ExecMessages
             /\ ES!SetJobSignaled(j, status) \in ExecMessages
  <2>1. ES!SetJobRun(j) \in ExecMessages
    BY DEF ES!SetJobRun, ExecMessages, Reports, Statuses
  <2>2. ES!SetJobDone(j, status) \in ExecMessages
    BY DEF ES!SetJobDone, ExecMessages, Reports, Final
  <2>3. ES!SetJobSignaled(j, status) \in ExecMessages
    BY DEF ES!SetJobSignaled, ExecMessages, Reports, Final
  <2> QED
    BY <2>1, <2>2, <2>3
<1>3. 0 \in Statuses
  BY DEF Statuses
<1> QED
  BY <1>1, <1>2, <1>3

\* sendMsg of an execution server.
LEMMA TellTypes ==
  ASSUME Types, NEW e \in Execs, NEW msg \in ExecMessages, ES!Tell(e, msg)
  PROVE  ToMainType(toMain')
<1>1. ToMainType(toMain) /\ e \in Peers
  BY DEF Types, NetTypes, Peers
<1> QED
  BY <1>1, ToMainOps DEF ES!Tell, ES!Sent

\* Every step of an execution server keeps the types.
LEMMA ExecTypesStep ==
  ASSUME Types, NEW e \in Execs,
         \/ ES!ExecStep(e) \/ ES!Start(e) \/ ES!JobRequest(e)
         \/ ES!CloseConnecMain(e) \/ ES!Crash(e)
  PROVE  NetTypes' /\ ExecTypes'
<1> USE DEF Types, NetTypes
<1> DEFINE G == NetTypes' /\ ExecTypes'
<1>0. /\ e \in Peers
      /\ ES!Idle \in Jobs
  BY HistoryAssumption DEF Peers, ES!Idle, Jobs, JobIds
<1>1. ASSUME ES!Start(e) PROVE G
  <2>1. ToMainType(toMain') /\ ToPeerType(toPeer')
    BY <1>0, <1>1, ToMainOps, ToPeerOps DEF ES!Start, ES!Connect
  <2>2. LinkTypes' /\ ExecTypes'
    BY <1>0, <1>1 DEF ES!Start, ES!Connect, ES!Become, LinkTypes, ExecTypes
  <2> QED
    BY <2>1, <2>2
<1>2. ASSUME ES!JobRequest(e) PROVE G
  <2>1. ToMainType(toMain')
    BY <1>2, TellTypes, ExecMessageTypes DEF ES!JobRequest
  <2>2. ToPeerType(toPeer') /\ LinkTypes' /\ ExecTypes'
    BY <1>2 DEF ES!JobRequest, ES!Become, ES!linkVars, LinkTypes, ExecTypes
  <2> QED
    BY <2>1, <2>2
<1>3. ASSUME ES!CloseConnecMain(e) PROVE G
  <2>1. ToMainType(toMain')
    BY <1>3, TellTypes, ExecMessageTypes DEF ES!CloseConnecMain
  <2>2. ToPeerType(toPeer')
    BY <1>0, <1>3, ToPeerOps DEF ES!CloseConnecMain, ES!Disconnect
  <2>3. LinkTypes' /\ ExecTypes'
    BY <1>3 DEF ES!CloseConnecMain, ES!Disconnect, ES!Become, LinkTypes, ExecTypes
  <2> QED
    BY <2>1, <2>2, <2>3
<1>4. ASSUME ES!RecvCheck(e) PROVE G
  <2>1. ToPeerType(toPeer')
    BY <1>0, <1>4, ToPeerOps DEF ES!RecvCheck, ES!Arrived, ES!Received
  <2>2. ToMainType(toMain') /\ LinkTypes' /\ ExecTypes'
    BY <1>4 DEF ES!RecvCheck, ES!Become, ES!linkVars, LinkTypes, ExecTypes
  <2> QED
    BY <2>1, <2>2
<1>5. ASSUME ES!SendAck(e) PROVE G
  <2>1. ToMainType(toMain')
    BY <1>5, TellTypes, ExecMessageTypes DEF ES!SendAck
  <2>2. ToPeerType(toPeer') /\ LinkTypes' /\ ExecTypes'
    BY <1>5 DEF ES!SendAck, ES!Become, ES!linkVars, LinkTypes, ExecTypes
  <2> QED
    BY <2>1, <2>2
<1>6. ASSUME ES!RecvJob(e) PROVE G
  <2> DEFINE msg == Head(toPeer[e])
             job == [id |-> msg.id, port |-> IF msg.type = "SENDJOB_INTER" THEN msg.port ELSE NoAddr]
  <2>1. /\ ToPeerType(toPeer')
        /\ msg \in JobMessages /\ msg.type \in {"SENDJOB_NOINTER", "SENDJOB_INTER"}
    BY <1>0, <1>6, ToPeerOps DEF ES!RecvJob, ES!Arrived, ES!Received, ES!JobTypes
  <2>2. msg.id \in JobIds /\ job \in Jobs
    BY <2>1 DEF JobMessages, Jobs
  <2>3. ToMainType(toMain')
    <3>1. 41 \in Statuses
      BY DEF Statuses, ForkFailed
    <3> QED
      BY <1>6, <2>2, <3>1, TellTypes, ExecMessageTypes DEF ES!RecvJob, ES!ForkFailed
  <2>4. LinkTypes'
    BY <1>6 DEF ES!RecvJob, ES!linkVars, LinkTypes
  <2>5. ExecTypes'
    BY <1>6, <2>2 DEF ES!RecvJob, ES!Become, ExecTypes
  <2> QED
    BY <2>1, <2>3, <2>4, <2>5
<1>7. ASSUME ES!Dial(e) PROVE G
  <2>1. cur[e] \in Jobs /\ cur[e].id \in JobIds /\ 0 \in Statuses
    BY DEF ExecTypes, Jobs, Statuses
  <2>2. ToMainType(toMain')
    BY <1>7, <2>1, TellTypes, ExecMessageTypes DEF ES!Dial
  <2>3. ToPeerType(toPeer') /\ LinkTypes'
    BY <1>7 DEF ES!Dial, LinkTypes
  <2>4. [cur[e] EXCEPT !.port = NoAddr] \in Jobs
    BY <2>1 DEF Jobs
  <2>5. ExecTypes'
    BY <1>0, <1>7, <2>4 DEF ES!Dial, ES!Become, ExecTypes
  <2> QED
    BY <2>2, <2>3, <2>5
<1>8. ASSUME ES!ReportJob(e) PROVE G
  <2>1. cur[e].id \in JobIds
    BY DEF ExecTypes, Jobs
  <2>2. ToMainType(toMain')
    <3>1. ES!ChildStatuses \subseteq Statuses /\ Signals \subseteq Statuses
      BY DEF ES!ChildStatuses, ES!ExecFailed, ExecFailed, Statuses
    <3> QED
      BY <1>8, <2>1, <3>1, TellTypes, ExecMessageTypes DEF ES!ReportJob
  <2>3. ToPeerType(toPeer') /\ LinkTypes'
    BY <1>8 DEF ES!ReportJob, ES!HangUp, LinkTypes
  <2>4. ExecTypes'
    BY <1>0, <1>8 DEF ES!ReportJob, ES!Become, ExecTypes
  <2> QED
    BY <2>2, <2>3, <2>4
<1>9. ASSUME ES!LoseMain(e) PROVE G
  <2>1. ToPeerType(toPeer')
    BY <1>0, <1>9, ToPeerOps DEF ES!LoseMain, ES!Disconnect
  <2>2. ToMainType(toMain') /\ LinkTypes' /\ ExecTypes'
    BY <1>9 DEF ES!LoseMain, ES!Disconnect, ES!Become, LinkTypes, ExecTypes
  <2> QED
    BY <2>1, <2>2
<1>10. ASSUME ES!Crash(e) PROVE G
  <2>1. ToPeerType(toPeer')
    BY <1>0, <1>10, ToPeerOps DEF ES!Crash, ES!Disconnect
  <2>2. ToMainType(toMain')
    <3>1. PICK n \in 0 .. Len(toMain[e]) : toMain' = [toMain EXCEPT ![e] = SubSeq(@, 1, n)]
      BY <1>10 DEF ES!Crash
    <3>2. ToMainType(toMain)
      OBVIOUS
    <3> QED
      BY <1>0, <3>1, <3>2, ToMainOps
  <2>3. ExecTypes'
    BY <1>0, <1>10 DEF ES!Crash, ES!Disconnect, ES!Become, ExecTypes
  <2>4. /\ open' \in [Peers -> SUBSET {"main", "peer"}]
        /\ connects' \in Nat
    BY <1>10 DEF ES!Crash, ES!Disconnect, LinkTypes
  <2>5. tty' \in [Ports -> {"none", "listen", "connected", "hungup", "closed"}]
    BY <1>10 DEF ES!Crash, LinkTypes
  <2>6. lost' \in SUBSET JobIds
    <3>1. ES!JobsIn(toPeer[e], ES!JobTypes) \subseteq JobIds
      <4>1. toPeer[e] \in Seq(JobMessages)
        BY DEF ToPeerType
      <4> QED
        BY <4>1 DEF ES!JobsIn, ES!JobTypes, JobMessages
    <3>2. ASSUME NEW n \in 0 .. Len(toMain[e])
          PROVE  ES!JobsIn(SubSeq(toMain[e], n + 1, Len(toMain[e])), ES!EndTypes) \subseteq JobIds
      <4>1. toMain[e] \in Seq(ExecMessages)
        BY DEF ToMainType
      <4>2. SubSeq(toMain[e], n + 1, Len(toMain[e])) \in Seq(ExecMessages)
        BY <4>1
      <4> QED
        BY <4>2 DEF ES!JobsIn, ES!EndTypes, ExecMessages, Reports
    <3>3. cur[e].id \in JobIds
      BY DEF ExecTypes, Jobs
    <3> QED
      BY <1>10, <3>1, <3>2, <3>3 DEF ES!Crash, LinkTypes
  <2> QED
    BY <2>1, <2>2, <2>3, <2>4, <2>5, <2>6 DEF LinkTypes
<1> QED
  BY <1>1, <1>2, <1>3, <1>4, <1>5, <1>6, <1>7, <1>8, <1>9, <1>10 DEF ES!ExecStep

-----------------------------------------------------------------------------
\* The requests that the clients send.
LEMMA ClientMessageTypes ==
  /\ CL!SetFileExecNoInter_CLIENT \in ClientRequests
  /\ CL!SetClosedConnection \in ClientRequests
  /\ \A p \in Ports \cup {NoAddr} : CL!SetFileExecInter_CLIENT(p) \in ClientRequests
  /\ \A j \in JobIds : /\ CL!SetJobState_CLIENT(j) \in ClientRequests
                       /\ CL!SetUnsubmit_CLIENT(j) \in ClientRequests
  /\ \A q \in Queues : CL!SetQueueState_CLIENT(q) \in ClientRequests
<1>1. /\ CL!SetFileExecNoInter_CLIENT \in ClientRequests
      /\ CL!SetClosedConnection \in ClientRequests
  BY DEF CL!SetFileExecNoInter_CLIENT, CL!SetClosedConnection, ClientRequests
<1>2. ASSUME NEW p \in Ports \cup {NoAddr} PROVE CL!SetFileExecInter_CLIENT(p) \in ClientRequests
  BY DEF CL!SetFileExecInter_CLIENT, ClientRequests
<1>3. ASSUME NEW j \in JobIds
      PROVE  /\ CL!SetJobState_CLIENT(j) \in ClientRequests
             /\ CL!SetUnsubmit_CLIENT(j) \in ClientRequests
  BY DEF CL!SetJobState_CLIENT, CL!SetUnsubmit_CLIENT, ClientRequests
<1>4. ASSUME NEW q \in Queues PROVE CL!SetQueueState_CLIENT(q) \in ClientRequests
  BY DEF CL!SetQueueState_CLIENT, ClientRequests
<1> QED
  BY <1>1, <1>2, <1>3, <1>4

\* A request of a client.
LEMMA RequestTypes ==
  ASSUME Types, NEW c \in Clients, NEW msg \in ClientRequests, NEW stage \in {"wait", "waitInter"},
         CL!Request(c, msg, stage)
  PROVE  /\ ToMainType(toMain') /\ ToPeerType(toPeer')
         /\ cl' \in [Clients -> {"off", "prompt", "wait", "waitInter", "hang", "accept", "session"}]
         /\ open' = open /\ connects' = connects /\ lost' = lost
<1>1. ToMainType(toMain) /\ ToPeerType(toPeer) /\ ClientTypes /\ c \in Peers
  BY DEF Types, NetTypes, Peers
<1>2. ToMainType(toMain')
  BY <1>1, ToMainOps DEF CL!Request, CL!Sent
<1> QED
  BY <1>1, <1>2 DEF CL!Request, CL!Become, ClientTypes

\* The end of a client.
LEMMA DisconnectTypes ==
  ASSUME Types, NEW c \in Clients, CL!Disconnect(c)
  PROVE  ToPeerType(toPeer') /\ LinkTypes' /\ ClientTypes'
<1>1. ToPeerType(toPeer) /\ LinkTypes /\ ClientTypes /\ c \in Peers
  BY DEF Types, NetTypes, Peers
<1>2. ToPeerType(toPeer')
  BY <1>1, ToPeerOps DEF CL!Disconnect
<1>3. LinkTypes'
  <2>1. open' \in [Peers -> SUBSET {"main", "peer"}]
    BY <1>1 DEF CL!Disconnect, LinkTypes
  <2>2. tty' \in [Ports -> {"none", "listen", "connected", "hungup", "closed"}]
    BY <1>1 DEF CL!Disconnect, LinkTypes, CL!Ports, Ports
  <2> QED
    BY <1>1, <2>1, <2>2 DEF CL!Disconnect, LinkTypes
<1>4. ClientTypes'
  BY <1>1 DEF CL!Disconnect, CL!Become, ClientTypes
<1> QED
  BY <1>2, <1>3, <1>4

\* Every step of a client keeps the types: what the user is shown of a job that
\* is over has an exit status.
LEMMA ClientTypesStep ==
  ASSUME Types, CL!ClientNext
  PROVE  NetTypes' /\ ClientTypes'
<1> USE DEF Types, NetTypes
<1> DEFINE G == NetTypes' /\ ClientTypes'
<1>0. PICK c \in Clients :
         \/ CL!Start(c) \/ CL!Submit(c) \/ CL!SubmitInt(c) \/ CL!SubmitFails(c)
         \/ CL!JobState(c) \/ CL!QueueState(c) \/ CL!Unsubmit(c)
         \/ CL!Stop(c) \/ CL!Kill(c) \/ CL!ClientStep(c) \/ CL!EndSession(c)
  BY DEF CL!ClientNext
<1>a. c \in Peers
  BY DEF Peers
<1>1. ASSUME CL!Start(c) PROVE G
  <2>1. ToMainType(toMain') /\ ToPeerType(toPeer')
    BY <1>a, <1>1, ToMainOps, ToPeerOps DEF CL!Start, CL!Connect
  <2>2. LinkTypes' /\ ClientTypes'
    BY <1>a, <1>1 DEF CL!Start, CL!Connect, CL!Become, LinkTypes, ClientTypes
  <2> QED
    BY <2>1, <2>2
<1>2. ASSUME CL!Submit(c) PROVE G
  <2>1. PICK msg \in ClientRequests : CL!Request(c, msg, "wait")
    BY <1>2, ClientMessageTypes DEF CL!Submit
  <2>2. tty' = tty /\ port' = port /\ submits' \in Nat
    BY <1>2 DEF CL!Submit, ClientTypes
  <2> QED
    BY <2>1, <2>2, RequestTypes DEF LinkTypes, ClientTypes
<1>3. ASSUME CL!SubmitInt(c) PROVE G
  <2> DEFINE p == <<c, submits + 1>>
  <2>1. p \in Ports
    BY <1>3, PeerAssumption DEF CL!SubmitInt, Ports, ClientTypes
  <2>2. PICK msg \in ClientRequests : CL!Request(c, msg, "waitInter")
    BY <1>3, <2>1, ClientMessageTypes DEF CL!SubmitInt
  <2>3. /\ tty' \in [Ports -> {"none", "listen", "connected", "hungup", "closed"}]
        /\ port' \in [Clients -> Ports \cup {NoAddr}]
        /\ submits' \in Nat
    BY <1>3, <2>1 DEF CL!SubmitInt, LinkTypes, ClientTypes
  <2> QED
    BY <2>2, <2>3, RequestTypes DEF LinkTypes, ClientTypes
<1>4. ASSUME CL!SubmitFails(c) PROVE G
  BY <1>4 DEF CL!SubmitFails, CL!netVars, CL!linkVars, CL!Become, LinkTypes,
              ClientTypes
<1>5. ASSUME CL!JobState(c) PROVE G
  <2>1. PICK msg \in ClientRequests : CL!Request(c, msg, "wait")
    BY <1>5, ValueAssumption, ClientMessageTypes DEF CL!JobState
  <2>2. tty' = tty /\ port' = port /\ submits' = submits
    BY <1>5 DEF CL!JobState
  <2> QED
    BY <2>1, <2>2, RequestTypes DEF LinkTypes, ClientTypes
<1>6. ASSUME CL!QueueState(c) PROVE G
  <2>1. PICK msg \in ClientRequests : CL!Request(c, msg, "wait")
    BY <1>6, ClientMessageTypes DEF CL!QueueState
  <2>2. tty' = tty /\ port' = port /\ submits' = submits
    BY <1>6 DEF CL!QueueState
  <2> QED
    BY <2>1, <2>2, RequestTypes DEF LinkTypes, ClientTypes
<1>7. ASSUME CL!Unsubmit(c) PROVE G
  <2>1. PICK msg \in ClientRequests : CL!Request(c, msg, "wait")
    BY <1>7, ValueAssumption, ClientMessageTypes DEF CL!Unsubmit
  <2>2. tty' = tty /\ port' = port /\ submits' = submits
    BY <1>7 DEF CL!Unsubmit
  <2> QED
    BY <2>1, <2>2, RequestTypes DEF LinkTypes, ClientTypes
<1>8. ASSUME CL!Stop(c) PROVE G
  <2>1. ToMainType(toMain')
    BY <1>a, <1>8, ToMainOps, ClientMessageTypes DEF CL!Stop, CL!Sent
  <2> QED
    BY <1>8, <2>1, DisconnectTypes DEF CL!Stop
<1>9. ASSUME CL!Kill(c) PROVE G
  BY <1>9, DisconnectTypes DEF CL!Kill
<1>10. ASSUME CL!Response(c) PROVE G
  <2>1. ToPeerType(toPeer')
    BY <1>a, <1>10, ToPeerOps DEF CL!Response, CL!Arrived, CL!Received
  <2>2. cl' \in [Clients -> {"off", "prompt", "wait", "waitInter", "hang", "accept", "session"}]
    BY <1>10 DEF CL!Response, CL!Become, CL!After, ClientTypes
  <2>3. ToMainType(toMain') /\ LinkTypes' /\ port' = port /\ submits' = submits
    BY <1>10 DEF CL!Response, CL!linkVars, LinkTypes
  <2> QED
    BY <2>1, <2>2, <2>3 DEF ClientTypes
<1>11. ASSUME CL!NoResponse(c) PROVE G
  BY <1>11 DEF CL!NoResponse, CL!netVars, CL!linkVars, CL!Become, CL!After,
               LinkTypes, ClientTypes
<1>12. ASSUME CL!ClientAccept(c) PROVE G
  BY <1>12 DEF CL!ClientAccept, CL!netVars, CL!linkVars, CL!Become,
               LinkTypes, ClientTypes
<1>13. ASSUME CL!EndSession(c) PROVE G
  BY <1>13 DEF CL!EndSession, CL!Become, LinkTypes, ClientTypes
<1> QED
  BY <1>0, <1>1, <1>2, <1>3, <1>4, <1>5, <1>6, <1>7, <1>8, <1>9, <1>10, <1>11, <1>12, <1>13
     DEF CL!ClientStep

-----------------------------------------------------------------------------
\* The types hold initially ...
LEMMA TypesInit == Init => Types
<1> SUFFICES ASSUME Init PROVE Types
  OBVIOUS
<1>1. NetTypes
  BY DEF Init, NetInit, NetTypes, ToMainType, ToPeerType, LinkTypes, Peers
<1>2. QueueTypes
  <2>1. Q!QueueInit \in Q!QueueType(Jobs)
    <3>1. 0 \in Q!Indices
      BY MainAssumption DEF Q!Indices
    <3> QED
      BY <3>1 DEF Q!QueueInit, Q!QueueType
  <2>2. Q!Threads = Peers
    BY DEF Q!Threads, Peers
  <2> QED
    BY <2>1, <2>2 DEF Init, MainInit, Q!Init, QueueTypes, Q!Stages
<1>3. HistoryTypes /\ StageTypes /\ HeapTypes /\ FlagTypes
  <2>1. 0 \in JobIds
    BY HistoryAssumption DEF JobIds
  <2> QED
    BY <2>1 DEF Init, MainInit, HistoryInit, HistoryTypes, StageTypes, ClientStages, ExecStages,
           HeapTypes, FlagTypes, Peers
<1>4. ExecTypes
  <2>1. ES!Idle \in Jobs
    BY HistoryAssumption DEF ES!Idle, Jobs, JobIds
  <2> QED
    BY <2>1 DEF Init, ES!ExecInit, ExecTypes
<1>5. ClientTypes
  BY DEF Init, CL!ClientInit, ClientTypes
<1> QED
  BY <1>1, <1>2, <1>3, <1>4, <1>5 DEF Types, MainTypes

\* ... and every step of the system keeps them.
LEMMA TypesStep == Types /\ [Next]_vars => Types'
<1> SUFFICES ASSUME Types, [Next]_vars
             PROVE  Types'
  OBVIOUS
<1> USE DEF Types
<1>1. UNCHANGED execVars => ExecTypes'
  BY DEF execVars, ExecTypes
<1>2. UNCHANGED clientVars => ClientTypes'
  BY DEF clientVars, ClientTypes
<1>3. UNCHANGED mainVars => MainTypes'
  BY DEF mainVars, queueVars, histVars, MainTypes, QueueTypes, HistoryTypes, StageTypes,
         HeapTypes, FlagTypes
<1>4. UNCHANGED netVars => NetTypes'
  BY DEF netVars, linkVars, NetTypes, LinkTypes
<1>5. CASE MainStep
  BY <1>1, <1>2, <1>5, MainTypesStep DEF MainStep
<1>6. CASE ExecStep
  BY <1>2, <1>3, <1>6, ExecTypesStep DEF ExecStep, ES!ExecNext
<1>7. CASE ClientStep
  BY <1>1, <1>3, <1>7, ClientTypesStep DEF ClientStep
<1>8. CASE UNCHANGED vars
  BY <1>1, <1>2, <1>3, <1>4, <1>8 DEF vars
<1> QED
  BY <1>5, <1>6, <1>7, <1>8 DEF Next

\* The types are an invariant.
LEMMA TypesCorrect == Spec => []Types
BY TypesInit, TypesStep, PTL DEF Spec

\* The variables of the whole system keep their types, and with them the messages
\* on every connection are of the kinds that its two ends exchange.
THEOREM TypeCorrect == Spec => []TypeOK
<1>1. Types => TypeOK
  <2> SUFFICES ASSUME Types PROVE TypeOK
    OBVIOUS
  <2>1. Entries \subseteq EntryType(0 .. 255)
    BY StatusRange DEF Entries, EntryType, States, Final
  <2> QED
    BY <2>1 DEF Types, NetTypes, MainTypes, LinkTypes, QueueTypes, HistoryTypes, StageTypes,
                HeapTypes, FlagTypes, ExecTypes, ClientTypes, TypeOK, Peers
<1> QED
  BY <1>1, TypesCorrect, PTL

\* No user is ever shown the uninitialised exit_status for a job that is over:
\* however threads, reports and evictions interleave, the state and the exit
\* status of an entry are set together, and jobState reads them together.
THEOREM ExitIsReportedCorrect == Spec => []ExitIsReported
<1>1. Types => ExitIsReported
  <2> SUFFICES ASSUME Types, NEW c \in Clients, NEW i \in DOMAIN toPeer[c],
                      toPeer[c][i].type = "JOBSTATE_RESP", toPeer[c][i].state \in Final
               PROVE  toPeer[c][i].exit # Garbage
    BY DEF ExitIsReported
  <2>1. toPeer[c][i] \in ClientResponses
    <3>1. toPeer[c] \in Seq(ClientResponses)
      BY DEF Types, NetTypes, ToPeerType
    <3> QED
      BY <3>1
  <2>2. toPeer[c][i].exit \in Statuses
    BY <2>1 DEF ClientResponses, States, Final
  <2> QED
    BY <2>2, ValueAssumption, StatusRange
<1> QED
  BY <1>1, TypesCorrect, PTL

-----------------------------------------------------------------------------
(***************************************************************************)
(* What the two ends of a connection may assume about each other.          *)
(***************************************************************************)

\* In the following a is where the thread of the main server is, o which ends of
\* its connection are open, and m and p are the messages on their way to the main
\* server and to the peer.  A thread has its end of the connection open, a peer
\* that runs has its own, and nothing is on its way to an end that is closed.
Ends(a, running, o, m, p) ==
  /\ a # "off" => "main" \in o
  /\ "peer" \in o <=> running
  /\ "main" \notin o => m = <<>>
  /\ "peer" \notin o => p = <<>>

ReportTypes == {"JOB_RUN", "JOB_DONE", "JOB_SIG"}

\* A queue of reports.
OnlyReports(msgs) == \A i \in 1 .. Len(msgs) : msgs[i].type \in ReportTypes

\* Reports, and a message of one of the types after them.
ReportsThen(msgs, types) ==
  /\ msgs # <<>>
  /\ \A i \in 1 .. Len(msgs) - 1 : msgs[i].type \in ReportTypes
  /\ msgs[Len(msgs)].type \in types

\* An execution server at x and its thread: the thread asks with nothing else on
\* the connection and gets one answer at most; an answer that comes too late,
\* after the thread has put the job back, is never read.
ExecProtocol(a, x, o, m, p) ==
  /\ Ends(a, x # "off", o, m, p)
  /\ x \in {"prompt", "sleep", "dial", "run"} => p = <<>>
  /\ Len(p) <= 1
  /\ a \in {"off", "recv"} /\ "main" \in o =>
       /\ x # "sleep"
       /\ x \in {"prompt", "dial", "run"} => OnlyReports(m)
       /\ x = "wait" => \/ ReportsThen(m, {"JOB_REQ"}) /\ p = <<>>
                        \/ m = <<>> /\ p # <<>> /\ Head(p).type # "CH_EXEC_SER"
       /\ x = "off" => OnlyReports(m) \/ ReportsThen(m, {"JOB_REQ", "SERVER_CLOSED"})
  /\ a \in {"take", "check", "send"} => x \in {"wait", "off"} /\ m = <<>> /\ p = <<>>
  /\ a = "select" =>
       /\ x \in {"wait", "sleep", "off"}
       /\ x = "sleep" => m = <<>>
       /\ Len(m) + Len(p) <= 1
       /\ m # <<>> => Head(m).type = "CH_EXEC_SER_ACK"
       /\ p # <<>> => Head(p).type = "CH_EXEC_SER"
  /\ a \in {"back", "relink"} =>
       /\ x \in {"wait", "sleep", "off"}
       /\ p # <<>> => Head(p).type = "CH_EXEC_SER"

\* A client at x and its thread: there is one message between them at most, and
\* none while the client does something else than to wait for the response, or
\* while the thread works on the request; but as long as the client waits and the
\* connection is there, one of these is the case.
ClientProtocol(a, x, o, m, p) ==
  /\ Ends(a, x # "off", o, m, p)
  /\ Len(m) + Len(p) <= 1
  /\ x \in {"prompt", "hang", "accept", "session"} => m = <<>> /\ p = <<>>
  /\ a \in {"remove", "mark"} => x \in {"wait", "waitInter", "off"} /\ m = <<>> /\ p = <<>>
  /\ x \in {"wait", "waitInter"} =>
       m # <<>> \/ a \in {"remove", "mark"} \/ p # <<>> \/ "main" \notin o

ExecLink(e)   == ExecProtocol(at[e], es[e], open[e], toMain[e], toPeer[e])
ClientLink(c) == ClientProtocol(at[c], cl[c], open[c], toMain[c], toPeer[c])

Links == (\A e \in Execs : ExecLink(e)) /\ (\A c \in Clients : ClientLink(c))

-----------------------------------------------------------------------------
\* Another report, or the message after the reports.
LEMMA ReportsAppend ==
  ASSUME NEW S, NEW s \in Seq(S), OnlyReports(s), NEW r \in S, NEW types
  PROVE  /\ r.type \in ReportTypes => OnlyReports(Append(s, r))
         /\ r.type \in types => ReportsThen(Append(s, r), types)
BY DEF OnlyReports, ReportsThen

\* The first of the reports is read.
LEMMA ReportsTail ==
  ASSUME NEW S, NEW s \in Seq(S), s # <<>>, OnlyReports(s)
  PROVE  OnlyReports(Tail(s)) /\ Head(s).type \in ReportTypes
BY DEF OnlyReports

\* The reports are cut off.
LEMMA ReportsPrefix ==
  ASSUME NEW S, NEW s \in Seq(S), OnlyReports(s), NEW n \in 0 .. Len(s)
  PROVE  OnlyReports(SubSeq(s, 1, n))
BY DEF OnlyReports

\* Reports with another message at the end: what is read first is a report, or
\* nothing comes after it.
LEMMA LastTail ==
  ASSUME NEW S, NEW s \in Seq(S), NEW types, types \cap ReportTypes = {},
         ReportsThen(s, types)
  PROVE  /\ Head(s).type \in ReportTypes \cup types
         /\ Head(s).type \in ReportTypes => ReportsThen(Tail(s), types)
         /\ Head(s).type \in types => Tail(s) = <<>>
<1>1. Len(s) \in Nat /\ Len(s) # 0 /\ Head(s) = s[1]
  BY DEF ReportsThen
<1>2. CASE Len(s) = 1
  <2>1. Head(s).type \in types /\ Head(s).type \notin ReportTypes
    BY <1>1, <1>2 DEF ReportsThen
  <2>2. Tail(s) = <<>>
    <3>1. Tail(s) \in Seq(S) /\ Len(Tail(s)) = 0
      BY <1>1, <1>2
    <3> QED
      BY <3>1, EmptySeq
  <2> QED
    BY <2>1, <2>2
<1>3. CASE Len(s) > 1
  <2>1. Head(s).type \in ReportTypes /\ Head(s).type \notin types
    BY <1>1, <1>3 DEF ReportsThen
  <2>2. ReportsThen(Tail(s), types)
    <3>1. /\ Tail(s) \in Seq(S) /\ Len(Tail(s)) = Len(s) - 1
          /\ \A i \in 1 .. Len(s) - 1 : Tail(s)[i] = s[i + 1]
      BY <1>1, <1>3
    <3>2. Tail(s) # <<>>
      <4>1. Len(Tail(s)) # 0
        BY <1>1, <1>3, <3>1
      <4> QED
        BY <4>1, EmptySeq, Zenon
    <3>3. Tail(s)[Len(s) - 1] = s[Len(s)]
      BY <1>1, <1>3, <3>1
    <3> QED
      BY <1>1, <1>3, <3>1, <3>2, <3>3 DEF ReportsThen
  <2> QED
    BY <2>1, <2>2
<1>4. Len(s) = 1 \/ Len(s) > 1
  <2>1. \A n \in Nat : n # 0 => n = 1 \/ n > 1
    OBVIOUS
  <2> QED
    BY <1>1, <2>1
<1> QED
  BY <1>2, <1>3, <1>4

\* Such a queue, cut off.
LEMMA LastPrefix ==
  ASSUME NEW S, NEW s \in Seq(S), NEW types, ReportsThen(s, types), NEW n \in 0 .. Len(s)
  PROVE  OnlyReports(SubSeq(s, 1, n)) \/ ReportsThen(SubSeq(s, 1, n), types)
<1>1. Len(s) \in Nat
  OBVIOUS
<1>2. CASE n < Len(s)
  BY <1>1, <1>2 DEF ReportsThen, OnlyReports
<1>3. CASE n = Len(s)
  <2>1. SubSeq(s, 1, n) = s
    BY <1>1, <1>3
  <2> QED
    BY <2>1
<1> QED
  BY <1>1, <1>2, <1>3

\* What becomes of a queue of at most one message.
LEMMA ShortQueue ==
  ASSUME NEW S, NEW s \in Seq(S)
  PROVE  /\ Len(s) \in Nat /\ Len(<<>>) = 0
         /\ s # <<>> => Len(s) >= 1 /\ Len(Tail(s)) = Len(s) - 1
         /\ s # <<>> /\ Len(s) <= 1 => Tail(s) = <<>>
         /\ \A r \in S : /\ Append(s, r) # <<>> /\ Len(Append(s, r)) = Len(s) + 1
                         /\ s = <<>> => Head(Append(s, r)) = r
         /\ \A n \in 0 .. Len(s) :
              /\ Len(SubSeq(s, 1, n)) = n
              /\ SubSeq(s, 1, n) # <<>> => s # <<>> /\ Head(SubSeq(s, 1, n)) = Head(s)
<1>1. Len(s) \in Nat /\ Len(<<>>) = 0
  BY EmptySeq
<1>2. ASSUME s # <<>> PROVE Len(s) >= 1 /\ Len(Tail(s)) = Len(s) - 1
  BY <1>2
<1>3. ASSUME s # <<>>, Len(s) <= 1 PROVE Tail(s) = <<>>
  <2>1. Tail(s) \in Seq(S)
    BY <1>3
  <2>2. Len(s) = 1
    <3>1. \A n \in Nat : n >= 1 /\ n <= 1 => n = 1
      OBVIOUS
    <3> QED
      BY <1>1, <1>2, <1>3, <3>1
  <2>3. Len(Tail(s)) = 0
    BY <2>2
  <2> QED
    BY <2>1, <2>3, EmptySeq
<1>4. ASSUME NEW r \in S
      PROVE  /\ Append(s, r) # <<>> /\ Len(Append(s, r)) = Len(s) + 1
             /\ s = <<>> => Head(Append(s, r)) = r
  <2>1. Len(Append(s, r)) = Len(s) + 1
    OBVIOUS
  <2>2. Len(Append(s, r)) # 0
    BY <1>1, <2>1
  <2>3. Append(s, r) # <<>>
    BY <2>2, EmptySeq, Zenon
  <2>4. s = <<>> => Head(Append(s, r)) = r
    OBVIOUS
  <2> QED
    BY <2>1, <2>3, <2>4
<1>5. ASSUME NEW n \in 0 .. Len(s)
      PROVE  /\ Len(SubSeq(s, 1, n)) = n
             /\ SubSeq(s, 1, n) # <<>> => s # <<>> /\ Head(SubSeq(s, 1, n)) = Head(s)
  <2>1. Len(SubSeq(s, 1, n)) = n /\ SubSeq(s, 1, n) \in Seq(S)
    BY <1>1
  <2>2. ASSUME SubSeq(s, 1, n) # <<>> PROVE s # <<>> /\ Head(SubSeq(s, 1, n)) = Head(s)
    <3>1. n >= 1
      BY <2>1, <2>2, EmptySeq
    <3>2. Len(s) # 0
      BY <1>1, <3>1
    <3>3. s # <<>>
      BY <3>2, EmptySeq, Zenon
    <3> QED
      BY <1>1, <2>1, <2>2, <3>1, <3>3
  <2> QED
    BY <2>1, <2>2
<1> QED
  BY <1>1, <1>2, <1>3, <1>4, <1>5

\* What the thread of an execution server may do to its connection.
ServerMoves(a, x, o, m, p) ==
  /\ a = "off" /\ "main" \in o => ExecProtocol("recv", x, o, m, p)
  /\ a \in {"off", "recv", "relink"} => ExecProtocol("off", x, o \ {"main"}, <<>>, p)
  /\ a = "recv" /\ m # <<>> /\ Head(m).type \in ReportTypes =>
       ExecProtocol("recv", x, o, Tail(m), p)
  /\ a = "recv" /\ m # <<>> /\ Head(m).type = "JOB_REQ" =>
       ExecProtocol("take", x, o, Tail(m), p)
  /\ a = "take" => ExecProtocol("check", x, o, m, p)
  /\ a = "check" => \A r \in JobMessages : r.type = "CH_EXEC_SER" =>
       ExecProtocol("select", x, o, m, IF "peer" \in o THEN Append(p, r) ELSE p)
  /\ a \in {"check", "select", "send"} => ExecProtocol("back", x, o, m, p)
  /\ a = "select" /\ m # <<>> => ExecProtocol("send", x, o, Tail(m), p)
  /\ a = "send" => \A r \in JobMessages : r.type # "CH_EXEC_SER" =>
       ExecProtocol("recv", x, o, m, IF "peer" \in o THEN Append(p, r) ELSE p)
  /\ a = "back" => ExecProtocol("relink", x, o, m, p)

\* Such steps keep the protocol.
LEMMA ServerKeepsProtocol ==
  ASSUME NEW a, NEW x \in {"off", "prompt", "wait", "sleep", "dial", "run"},
         NEW o \in SUBSET {"main", "peer"},
         NEW m \in Seq(ExecMessages), NEW p \in Seq(JobMessages),
         ExecProtocol(a, x, o, m, p)
  PROVE  ServerMoves(a, x, o, m, p)
<1> USE DEF ExecProtocol, Ends
<1>1. a = "off" /\ "main" \in o => ExecProtocol("recv", x, o, m, p)
  OBVIOUS
<1>2. a \in {"off", "recv", "relink"} => ExecProtocol("off", x, o \ {"main"}, <<>>, p)
  OBVIOUS
<1>3. ASSUME a = "recv", m # <<>>, Head(m).type \in ReportTypes
      PROVE  ExecProtocol("recv", x, o, Tail(m), p)
  <2>1. {"JOB_REQ"} \cap ReportTypes = {} /\ {"JOB_REQ", "SERVER_CLOSED"} \cap ReportTypes = {}
    BY DEF ReportTypes
  <2>2. /\ OnlyReports(m) => OnlyReports(Tail(m))
        /\ \A types \in {{"JOB_REQ"}, {"JOB_REQ", "SERVER_CLOSED"}} :
             ReportsThen(m, types) => ReportsThen(Tail(m), types)
    BY <1>3, <2>1, ReportsTail, LastTail
  <2> QED
    BY <1>3, <2>2
<1>4. ASSUME a = "recv", m # <<>>, Head(m).type = "JOB_REQ"
      PROVE  ExecProtocol("take", x, o, Tail(m), p)
  <2>1. {"JOB_REQ"} \cap ReportTypes = {} /\ {"JOB_REQ", "SERVER_CLOSED"} \cap ReportTypes = {}
    BY DEF ReportTypes
  <2>2. /\ ~OnlyReports(m)
        /\ \A types \in {{"JOB_REQ"}, {"JOB_REQ", "SERVER_CLOSED"}} :
             ReportsThen(m, types) => Tail(m) = <<>>
    BY <1>4, <2>1, ReportsTail, LastTail
  <2> QED
    BY <1>4, <2>2
<1>5. a = "take" => ExecProtocol("check", x, o, m, p)
  OBVIOUS
<1>6. ASSUME a = "check", NEW r \in JobMessages, r.type = "CH_EXEC_SER"
      PROVE  ExecProtocol("select", x, o, m, IF "peer" \in o THEN Append(p, r) ELSE p)
  <2>2. x \in {"wait", "off"} /\ m = <<>> /\ p = <<>>
    BY <1>6
  <2>1. /\ Len(m) = 0 /\ Len(p) = 0 /\ Len(Append(p, r)) = 1
        /\ Append(p, r) # <<>> /\ Head(Append(p, r)) = r
    BY <2>2, ShortQueue
  <2> QED
    BY <1>6, <2>1, <2>2
<1>7. a \in {"check", "select", "send"} => ExecProtocol("back", x, o, m, p)
  OBVIOUS
<1>8. ASSUME a = "select", m # <<>> PROVE ExecProtocol("send", x, o, Tail(m), p)
  <2>1. Tail(m) = <<>> /\ p = <<>>
    BY <1>8, ShortQueue
  <2> QED
    BY <1>8, <2>1
<1>9. ASSUME a = "send", NEW r \in JobMessages, r.type # "CH_EXEC_SER"
      PROVE  ExecProtocol("recv", x, o, m, IF "peer" \in o THEN Append(p, r) ELSE p)
  <2>1. /\ Len(p) = 0 /\ Len(Append(p, r)) = 1 /\ OnlyReports(m)
        /\ Append(p, r) # <<>> /\ Head(Append(p, r)) = r
    BY <1>9, ShortQueue DEF OnlyReports
  <2>2. x \in {"wait", "off"} /\ m = <<>> /\ p = <<>>
    BY <1>9
  <2> QED
    BY <1>9, <2>1, <2>2
<1>10. a = "back" => ExecProtocol("relink", x, o, m, p)
  OBVIOUS
<1> QED
  BY <1>1, <1>2, <1>3, <1>4, <1>5, <1>6, <1>7, <1>8, <1>9, <1>10
     DEF ServerMoves

\* What an execution server may do to its connection, where r is the message that it
\* sends, if any, and sent what is on the way to the main server after that.
ExecMoves(a, x, o, m, p, r, sent) ==
  /\ x = "off" /\ o = {} => ExecProtocol(a, "prompt", {"main", "peer"}, <<>>, <<>>)
  /\ x = "prompt" /\ r.type = "JOB_REQ" => ExecProtocol(a, "wait", o, sent, p)
  /\ x = "prompt" /\ r.type = "SERVER_CLOSED" =>
       ExecProtocol(a, "off", o \ {"peer"}, sent, <<>>)
  /\ x = "wait" /\ p # <<>> /\ Head(p).type = "CH_EXEC_SER" =>
       ExecProtocol(a, "sleep", o, m, Tail(p))
  /\ x = "sleep" /\ r.type = "CH_EXEC_SER_ACK" => ExecProtocol(a, "wait", o, sent, p)
  /\ x = "wait" /\ p # <<>> /\ Head(p).type # "CH_EXEC_SER" /\ r.type \in ReportTypes =>
       \A y \in {"prompt", "dial", "run"} : ExecProtocol(a, y, o, sent, Tail(p))
  /\ x \in {"dial", "run"} =>
       \A y \in {"prompt", "run"} : /\ ExecProtocol(a, y, o, m, p)
                                    /\ r.type \in ReportTypes => ExecProtocol(a, y, o, sent, p)
  /\ \A n \in 0 .. Len(m) : ExecProtocol(a, "off", o \ {"peer"}, SubSeq(m, 1, n), <<>>)

\* Such steps keep the protocol.
LEMMA ExecKeepsProtocol ==
  ASSUME NEW a \in ExecStages, NEW x \in {"off", "prompt", "wait", "sleep", "dial", "run"},
         NEW o \in SUBSET {"main", "peer"},
         NEW m \in Seq(ExecMessages), NEW p \in Seq(JobMessages),
         ExecProtocol(a, x, o, m, p),
         NEW r \in ExecMessages,
         NEW sent, sent = IF "main" \in o THEN Append(m, r) ELSE m
  PROVE  ExecMoves(a, x, o, m, p, r, sent)
<1> USE DEF ExecProtocol, Ends
<1>0. /\ {"JOB_REQ"} \cap ReportTypes = {} /\ {"JOB_REQ", "SERVER_CLOSED"} \cap ReportTypes = {}
      /\ Len(<<>>) = 0 /\ Len(m) \in Nat /\ Len(p) \in Nat
  BY ShortQueue DEF ReportTypes
<1>1. ASSUME x = "off", o = {} PROVE ExecProtocol(a, "prompt", {"main", "peer"}, <<>>, <<>>)
  BY <1>0, <1>1 DEF OnlyReports, ExecStages
<1>2. ASSUME x = "prompt", r.type = "JOB_REQ" PROVE ExecProtocol(a, "wait", o, sent, p)
  <2>1. OnlyReports(m) => ReportsThen(Append(m, r), {"JOB_REQ"})
    BY <1>2, ReportsAppend
  <2> QED
    BY <1>2, <2>1 DEF ExecStages
<1>3. ASSUME x = "prompt", r.type = "SERVER_CLOSED"
      PROVE  ExecProtocol(a, "off", o \ {"peer"}, sent, <<>>)
  <2>1. OnlyReports(m) => ReportsThen(Append(m, r), {"JOB_REQ", "SERVER_CLOSED"})
    BY <1>3, ReportsAppend
  <2> QED
    BY <1>0, <1>3, <2>1 DEF ExecStages
<1>4. ASSUME x = "wait", p # <<>>, Head(p).type = "CH_EXEC_SER"
      PROVE  ExecProtocol(a, "sleep", o, m, Tail(p))
  <2>1. Tail(p) = <<>> /\ Len(p) >= 1
    BY <1>4, ShortQueue
  <2>2. a = "select" => m = <<>>
    BY <1>0, <1>4, <2>1, ShortQueue
  <2> QED
    BY <1>0, <1>4, <2>1, <2>2 DEF ExecStages
<1>5. ASSUME x = "sleep", r.type = "CH_EXEC_SER_ACK" PROVE ExecProtocol(a, "wait", o, sent, p)
  <2>1. p = <<>>
    BY <1>5
  <2>2. m = <<>> => Len(Append(m, r)) = 1 /\ Head(Append(m, r)) = r
    BY <1>0, ShortQueue
  <2> QED
    BY <1>0, <1>5, <2>1, <2>2 DEF ExecStages
<1>6. ASSUME x = "wait", p # <<>>, Head(p).type # "CH_EXEC_SER", r.type \in ReportTypes,
             NEW y \in {"prompt", "dial", "run"}
      PROVE  ExecProtocol(a, y, o, sent, Tail(p))
  <2>1. Tail(p) = <<>>
    BY <1>6, ShortQueue
  <2>2. OnlyReports(<<>>)
    BY DEF OnlyReports
  <2>3. m = <<>> => OnlyReports(Append(m, r))
    BY <1>6, <2>2, ReportsAppend
  <2> QED
    BY <1>0, <1>6, <2>1, <2>2, <2>3 DEF ExecStages
<1>7. ASSUME x \in {"dial", "run"}, NEW y \in {"prompt", "run"}
      PROVE  /\ ExecProtocol(a, y, o, m, p)
             /\ r.type \in ReportTypes => ExecProtocol(a, y, o, sent, p)
  <2>1. r.type \in ReportTypes /\ OnlyReports(m) => OnlyReports(Append(m, r))
    BY ReportsAppend
  <2> QED
    BY <1>7, <2>1 DEF ExecStages
<1>8. ASSUME NEW n \in 0 .. Len(m)
      PROVE  ExecProtocol(a, "off", o \ {"peer"}, SubSeq(m, 1, n), <<>>)
  <2> DEFINE k == SubSeq(m, 1, n)
  <2>1. OnlyReports(m) => OnlyReports(k)
    BY ReportsPrefix
  <2>2. \A types : ReportsThen(m, types) => OnlyReports(k) \/ ReportsThen(k, types)
    BY LastPrefix
  <2>3. ReportsThen(k, {"JOB_REQ"}) => ReportsThen(k, {"JOB_REQ", "SERVER_CLOSED"})
    BY DEF ReportsThen
  <2>4. /\ Len(k) = n /\ n <= Len(m) /\ n \in Nat
        /\ k # <<>> => m # <<>> /\ Head(k) = Head(m)
    BY <1>0, ShortQueue
  <2>5. m = <<>> => OnlyReports(m)
    BY DEF OnlyReports
  <2> HIDE DEF k
  <2>6. Ends(a, "off" # "off", o \ {"peer"}, k, <<>>)
    BY <2>4
  <2>7. a \in {"off", "recv"} /\ "main" \in o =>
          OnlyReports(k) \/ ReportsThen(k, {"JOB_REQ", "SERVER_CLOSED"})
    BY <2>1, <2>2, <2>3, <2>5
  <2>8. a \in {"take", "check", "send"} => k = <<>>
    BY <2>4
  <2>a. Len(<<>>) <= 1
    BY <1>0
  <2>9. a = "select" =>
          Len(k) + Len(<<>>) <= 1 /\ (k # <<>> => Head(k).type = "CH_EXEC_SER_ACK")
    BY <1>0, <2>4
  <2>b. ExecProtocol(a, "off", o \ {"peer"}, k, <<>>)
    BY <2>6, <2>7, <2>8, <2>9, <2>a DEF ExecStages
  <2> QED
    BY <2>b DEF k
<1> QED
  BY <1>1, <1>2, <1>3, <1>4, <1>5, <1>6, <1>7, <1>8
     DEF ExecMoves

\* What the thread of a client and the client may do to their connection.
ClientMoves(a, x, o, m, p) ==
  /\ a = "off" /\ "main" \in o => ClientProtocol("recv", x, o, m, p)
  /\ a \in {"off", "recv"} => ClientProtocol("off", x, o \ {"main"}, <<>>, p)
  /\ a = "recv" /\ m # <<>> =>
       /\ ClientProtocol("remove", x, o, Tail(m), p)
       /\ \A r \in ClientResponses, b \in {"recv", "submit"} :
            ClientProtocol(b, x, o, Tail(m), IF "peer" \in o THEN Append(p, r) ELSE p)
  /\ a = "submit" => ClientProtocol("recv", x, o, m, p)
  /\ a = "remove" => ClientProtocol("mark", x, o, m, p)
  /\ a = "mark" => \A r \in ClientResponses :
       ClientProtocol("recv", x, o, m, IF "peer" \in o THEN Append(p, r) ELSE p)
  /\ x = "off" /\ o = {} => ClientProtocol(a, "prompt", {"main", "peer"}, <<>>, <<>>)
  /\ x = "prompt" => \A r \in ClientRequests :
       /\ \A y \in {"wait", "waitInter"} :
            ClientProtocol(a, y, o, IF "main" \in o THEN Append(m, r) ELSE m, p)
       /\ ClientProtocol(a, "off", o \ {"peer"}, IF "main" \in o THEN Append(m, r) ELSE m, <<>>)
  /\ ClientProtocol(a, "off", o \ {"peer"}, m, <<>>)
  /\ x \in {"wait", "waitInter", "hang"} /\ p # <<>> =>
       \A y \in {"prompt", "accept"} : ClientProtocol(a, y, o, m, Tail(p))
  /\ x \in {"wait", "waitInter", "hang"} /\ p = <<>> /\ "main" \notin o =>
       \A y \in {"prompt", "accept"} : ClientProtocol(a, y, o, m, p)
  /\ x \in {"prompt", "accept", "session"} =>
       \A y \in {"prompt", "hang", "session"} : ClientProtocol(a, y, o, m, p)

\* Such steps keep the protocol.
LEMMA ClientProtocolKept ==
  ASSUME NEW a \in ClientStages,
         NEW x \in {"off", "prompt", "wait", "waitInter", "hang", "accept", "session"},
         NEW o \in SUBSET {"main", "peer"},
         NEW m \in Seq(ClientRequests), NEW p \in Seq(ClientResponses),
         ClientProtocol(a, x, o, m, p)
  PROVE  ClientMoves(a, x, o, m, p)
<1> USE DEF ClientProtocol, Ends
<1>0. /\ Len(<<>>) = 0 /\ Len(m) \in Nat /\ Len(p) \in Nat
      /\ m # <<>> => Len(m) >= 1
      /\ p # <<>> => Len(p) >= 1
  BY ShortQueue
<1>1. a = "off" /\ "main" \in o => ClientProtocol("recv", x, o, m, p)
  OBVIOUS
<1>2. a \in {"off", "recv"} => ClientProtocol("off", x, o \ {"main"}, <<>>, p)
  BY <1>0
<1>3. ASSUME a = "recv", m # <<>>
      PROVE  /\ Tail(m) = <<>> /\ p = <<>>
             /\ x \in {"wait", "waitInter", "off"}
             /\ ClientProtocol("remove", x, o, Tail(m), p)
  <2>1. Len(m) <= 1 /\ ~(Len(p) >= 1)
    BY <1>0, <1>3
  <2>2. Tail(m) = <<>> /\ p = <<>>
    BY <1>0, <1>3, <2>1, ShortQueue
  <2> QED
    BY <1>0, <1>3, <2>2
<1>4. ASSUME a = "recv", m # <<>>, NEW r \in ClientResponses, NEW b \in {"recv", "submit"}
      PROVE  ClientProtocol(b, x, o, Tail(m), IF "peer" \in o THEN Append(p, r) ELSE p)
  <2>1. Len(Append(p, r)) = 1
    BY <1>0, <1>3, <1>4, ShortQueue
  <2> QED
    BY <1>0, <1>3, <1>4, <2>1
<1>5. a = "submit" => ClientProtocol("recv", x, o, m, p)
  OBVIOUS
<1>6. a = "remove" => ClientProtocol("mark", x, o, m, p)
  OBVIOUS
<1>7. ASSUME a = "mark", NEW r \in ClientResponses
      PROVE  ClientProtocol("recv", x, o, m, IF "peer" \in o THEN Append(p, r) ELSE p)
  <2>1. m = <<>> /\ p = <<>>
    BY <1>7
  <2>2. Len(Append(p, r)) = 1
    BY <1>0, <2>1, ShortQueue
  <2> QED
    BY <1>0, <1>7, <2>1, <2>2
<1>8. x = "off" /\ o = {} => ClientProtocol(a, "prompt", {"main", "peer"}, <<>>, <<>>)
  BY <1>0 DEF ClientStages
<1>9. ASSUME x = "prompt", NEW r \in ClientRequests, NEW y \in {"wait", "waitInter"}
      PROVE  /\ ClientProtocol(a, y, o, IF "main" \in o THEN Append(m, r) ELSE m, p)
             /\ ClientProtocol(a, "off", o \ {"peer"}, IF "main" \in o THEN Append(m, r) ELSE m, <<>>)
  <2>1. m = <<>> /\ p = <<>> /\ a \notin {"remove", "mark"}
    BY <1>9
  <2>2. Len(Append(m, r)) = 1
    BY <1>0, <2>1, ShortQueue
  <2> QED
    BY <1>0, <1>9, <2>1, <2>2
<1>10. ClientProtocol(a, "off", o \ {"peer"}, m, <<>>)
  BY <1>0
<1>11. ASSUME x \in {"wait", "waitInter", "hang"}, p # <<>>, NEW y \in {"prompt", "accept"}
       PROVE  ClientProtocol(a, y, o, m, Tail(p))
  <2>1. Len(p) <= 1 /\ ~(Len(m) >= 1)
    BY <1>0, <1>11
  <2>2. Tail(p) = <<>> /\ m = <<>>
    BY <1>0, <1>11, <2>1, ShortQueue
  <2> QED
    BY <1>0, <1>11, <2>2
<1>12. x \in {"wait", "waitInter", "hang"} /\ p = <<>> /\ "main" \notin o =>
         \A y \in {"prompt", "accept"} : ClientProtocol(a, y, o, m, p)
  OBVIOUS
<1>13. x \in {"prompt", "accept", "session"} =>
         \A y \in {"prompt", "hang", "session"} : ClientProtocol(a, y, o, m, p)
  OBVIOUS
<1> QED
  BY <1>1, <1>2, <1>3, <1>4, <1>5, <1>6, <1>7, <1>8, <1>9, <1>10, <1>11, <1>12, <1>13
     DEF ClientMoves

-----------------------------------------------------------------------------
\* A thread touches no connection but its own.
LEMMA ThreadFrame ==
  ASSUME Types, NEW t \in Peers, ThreadStep(t), NEW p \in Peers, p # t
  PROVE  /\ at'[p] = at[p] /\ open'[p] = open[p]
         /\ toMain'[p] = toMain[p] /\ toPeer'[p] = toPeer[p]
<1>0. /\ at \in [Peers -> ClientStages \cup ExecStages]
      /\ open \in [Peers -> SUBSET {"main", "peer"}]
      /\ toMain \in [Peers -> Seq(ClientRequests \cup ExecMessages)]
      /\ toPeer \in [Peers -> Seq(ClientResponses \cup JobMessages)]
  BY DEF Types, NetTypes, MainTypes, StageTypes, LinkTypes, ToMainType, ToPeerType
<1> USE <1>0 DEF netVars, linkVars, mainVars, Goto, Reply, Sent, Recv, Received, CloseSocket
<1> DEFINE G == /\ at'[p] = at[p] /\ open'[p] = open[p]
                /\ toMain'[p] = toMain[p] /\ toPeer'[p] = toPeer[p]
<1>1. ASSUME Accept(t) \/ Leave(t) \/ QueueState(t) \/ Misuse(t) PROVE G
  BY <1>1 DEF Accept, Leave, QueueState, Misuse
<1>2. ASSUME SendCheck(t) \/ RecvAck(t) \/ NoAck(t) PROVE G
  BY <1>2 DEF SendCheck, RecvAck, NoAck, PutBack
<1>3. ASSUME SendJob(t) PROVE G
  BY <1>3 DEF SendJob, PutBack
<1>4. ASSUME NewJob(t) \/ FinishSubmit(t) \/ JobState(t) PROVE G
  BY <1>4 DEF NewJob, FinishSubmit, PutJob, JobState
<1>5. ASSUME Unsubmit(t) \/ RemoveJob(t) \/ MarkJob(t) PROVE G
  BY <1>5 DEF Unsubmit, RemoveJob, MarkJob
<1>6. ASSUME JobReq(t) \/ TakeJob(t) \/ FinishBack(t) PROVE G
  BY <1>6 DEF JobReq, TakeJob, FinishBack, PutJob
<1>7. ASSUME Relink(t) \/ ChangeStateJob(t) PROVE G
  BY <1>7 DEF Relink, ChangeStateJob
<1> QED
  BY <1>1, <1>2, <1>3, <1>4, <1>5, <1>6, <1>7
     DEF ThreadStep, ExchangeStep, ClientThread, ExecThread

\* The thread of an execution server keeps the protocol with it.
LEMMA ExecThreadLink ==
  ASSUME Types, NEW t \in Execs, ThreadStep(t), ExecLink(t), es' = es
  PROVE  ExecLink(t)'
<1> DEFINE a == at[t]
           x == es[t]
           o == open[t]
           m == toMain[t]
           p == toPeer[t]
<1>0. /\ t \in Peers /\ t \notin Clients
      /\ at \in [Peers -> ClientStages \cup ExecStages] /\ a \in ExecStages
      /\ open \in [Peers -> SUBSET {"main", "peer"}]
      /\ toMain \in [Peers -> Seq(ClientRequests \cup ExecMessages)]
      /\ toPeer \in [Peers -> Seq(ClientResponses \cup JobMessages)]
      /\ x \in {"off", "prompt", "wait", "sleep", "dial", "run"}
      /\ m \in Seq(ExecMessages) /\ p \in Seq(JobMessages)
  BY PeerAssumption DEF Types, NetTypes, MainTypes, StageTypes, LinkTypes, ToMainType,
     ToPeerType, ExecTypes, Peers
<1>a. o \in SUBSET {"main", "peer"}
  BY <1>0
<1>b. ExecProtocol(a, x, o, m, p)
  BY DEF ExecLink
<1>c. SUFFICES ExecProtocol(at'[t], x, open'[t], toMain'[t], toPeer'[t])
  BY DEF ExecLink
<1> DEFINE G == ExecProtocol(at'[t], x, open'[t], toMain'[t], toPeer'[t])
<1>e. ServerMoves(a, x, o, m, p)
  BY <1>0, <1>a, <1>b, ServerKeepsProtocol
<1>d. m # <<>> => Head(m) \in ExecMessages
  BY <1>0, MessageQueue
<1>1. ASSUME Accept(t) PROVE G
  <2>1. CASE at' = [at EXCEPT ![t] = "recv"] /\ UNCHANGED netVars
    <3>1. /\ at'[t] = "recv" /\ open'[t] = o /\ toMain'[t] = m /\ toPeer'[t] = p
          /\ a = "off" /\ "main" \in o
      BY <1>0, <1>1, <2>1 DEF Accept, netVars, linkVars
    <3> QED
      BY <1>e, <3>1 DEF ServerMoves
  <2>2. CASE CloseSocket(t) /\ UNCHANGED <<toPeer, at>>
    <3>1. at'[t] = "off" /\ open'[t] = o \ {"main"} /\ toMain'[t] = <<>> /\ toPeer'[t] = p /\ a = "off"
      BY <1>0, <1>1, <2>2 DEF Accept, CloseSocket
    <3> QED
      BY <1>e, <3>1 DEF ServerMoves
  <2> QED
    BY <1>1, <2>1, <2>2 DEF Accept, Goto
<1>2. ASSUME Leave(t) PROVE G
  <2>1. at'[t] = "off" /\ open'[t] = o \ {"main"} /\ toMain'[t] = <<>> /\ toPeer'[t] = p /\ a = "recv"
    BY <1>0, <1>2 DEF Leave, CloseSocket, Goto
  <2> QED
    BY <1>e, <2>1 DEF ServerMoves
<1>3. ASSUME QueueState(t) PROVE G
  BY <1>3, <1>d DEF QueueState, Recv, Arrived, ExecMessages, Reports
<1>4. ASSUME Misuse(t) PROVE G
  BY <1>b, <1>4 DEF Misuse, netVars, linkVars
<1>5. ASSUME SendCheck(t) PROVE G
  <2>1. CASE Reply(t, SetCheckExecServer) /\ Goto(t, "select")
    <3>1. /\ at'[t] = "select" /\ open'[t] = o /\ toMain'[t] = m /\ a = "check"
          /\ toPeer'[t] = IF "peer" \in o THEN Append(p, SetCheckExecServer) ELSE p
      BY <1>0, <1>5, <2>1 DEF SendCheck, Goto, Reply, Sent, linkVars
    <3>2. SetCheckExecServer \in JobMessages /\ SetCheckExecServer.type = "CH_EXEC_SER"
      BY DEF SetCheckExecServer, JobMessages
    <3> QED
      BY <1>e, <3>1, <3>2 DEF ServerMoves
  <2>2. CASE PutBack(t) /\ UNCHANGED toPeer
    <3>1. at'[t] = "back" /\ open'[t] = o /\ toMain'[t] = m /\ toPeer'[t] = p /\ a = "check"
      BY <1>0, <1>5, <2>2 DEF SendCheck, PutBack, Goto, linkVars
    <3> QED
      BY <1>e, <3>1 DEF ServerMoves
  <2> QED
    BY <1>5, <2>1, <2>2 DEF SendCheck
<1>6. ASSUME RecvAck(t) PROVE G
  <2>1. /\ at'[t] = "send" /\ open'[t] = o /\ toMain'[t] = Tail(m) /\ toPeer'[t] = p
        /\ a = "select" /\ m # <<>>
    BY <1>0, <1>6 DEF RecvAck, Arrived, Received, Goto, linkVars
  <2> QED
    BY <1>e, <2>1 DEF ServerMoves
<1>7. ASSUME NoAck(t) PROVE G
  <2>1. at'[t] = "back" /\ open'[t] = o /\ toMain'[t] = m /\ toPeer'[t] = p /\ a = "select"
    BY <1>0, <1>7 DEF NoAck, PutBack, Goto, netVars, linkVars
  <2> QED
    BY <1>e, <2>1 DEF ServerMoves
<1>8. ASSUME SendJob(t) PROVE G
  <2> DEFINE r == IF held[t].port = NoAddr THEN SetFileExecNoInter(held[t].id)
                                           ELSE SetFileExecInter(held[t].id, held[t].port)
  <2>1. CASE held[t] \in live /\ Reply(t, r) /\ Goto(t, "recv")
    <3>1. /\ at'[t] = "recv" /\ open'[t] = o /\ toMain'[t] = m /\ a = "send"
          /\ toPeer'[t] = IF "peer" \in o THEN Append(p, r) ELSE p
      BY <1>0, <1>8, <2>1 DEF SendJob, Goto, Reply, Sent
    <3>2. held[t] \in Jobs
      BY <2>1 DEF Types, MainTypes, HeapTypes
    <3>3. r \in JobMessages /\ r.type # "CH_EXEC_SER"
      BY <3>2 DEF Jobs, JobMessages, SetFileExecNoInter, SetFileExecInter
    <3> HIDE DEF r
    <3> QED
      BY <1>e, <3>1, <3>3 DEF ServerMoves
  <2>2. CASE PutBack(t) /\ UNCHANGED toPeer
    <3>1. at'[t] = "back" /\ open'[t] = o /\ toMain'[t] = m /\ toPeer'[t] = p /\ a = "send"
      BY <1>0, <1>8, <2>2 DEF SendJob, PutBack, Goto
    <3> QED
      BY <1>e, <3>1 DEF ServerMoves
  <2>3. CASE UNCHANGED <<toPeer, at>>
    BY <1>b, <1>8, <2>3 DEF SendJob
  <2> QED
    BY <1>8, <2>1, <2>2, <2>3 DEF SendJob
<1>9. ASSUME JobReq(t) PROVE G
  <2>1. /\ at'[t] = "take" /\ open'[t] = o /\ toMain'[t] = Tail(m) /\ toPeer'[t] = p
        /\ a = "recv" /\ m # <<>> /\ Head(m).type = "JOB_REQ"
    BY <1>0, <1>9 DEF JobReq, Recv, Arrived, Received, Goto, linkVars
  <2> QED
    BY <1>e, <2>1 DEF ServerMoves
<1>10. ASSUME TakeJob(t) PROVE G
  <2>1. /\ at'[t] \in {"check", "take"} /\ open'[t] = o /\ toMain'[t] = m /\ toPeer'[t] = p
        /\ a = "take"
    BY <1>0, <1>10 DEF TakeJob, Goto, netVars, linkVars
  <2> QED
    BY <1>b, <1>e, <2>1 DEF ServerMoves
<1>11. ASSUME FinishBack(t) PROVE G
  <2>1. /\ at'[t] \in {"relink", "back"} /\ open'[t] = o /\ toMain'[t] = m /\ toPeer'[t] = p
        /\ a = "back"
    BY <1>0, <1>11 DEF FinishBack, PutJob, Goto, netVars, linkVars
  <2> QED
    BY <1>b, <1>e, <2>1 DEF ServerMoves
<1>12. ASSUME Relink(t) PROVE G
  <2>1. CASE CloseSocket(t) /\ Goto(t, "off")
    <3>1. at'[t] = "off" /\ open'[t] = o \ {"main"} /\ toMain'[t] = <<>> /\ toPeer'[t] = p /\ a = "relink"
      BY <1>0, <1>12, <2>1 DEF Relink, CloseSocket, Goto
    <3> QED
      BY <1>e, <3>1 DEF ServerMoves
  <2>2. CASE UNCHANGED <<toMain, linkVars, at>>
    BY <1>b, <1>12, <2>2 DEF Relink, linkVars
  <2> QED
    BY <1>12, <2>1, <2>2 DEF Relink
<1>13. ASSUME ChangeStateJob(t) PROVE G
  <2>1. /\ at'[t] = "recv" /\ open'[t] = o /\ toMain'[t] = Tail(m) /\ toPeer'[t] = p
        /\ a = "recv" /\ m # <<>> /\ Head(m).type \in ReportTypes
    BY <1>0, <1>13 DEF ChangeStateJob, Recv, Arrived, Received, linkVars, ReportTypes
  <2> QED
    BY <1>e, <2>1 DEF ServerMoves
<1> QED
  BY <1>0, <1>1, <1>2, <1>3, <1>4, <1>5, <1>6, <1>7, <1>8, <1>9, <1>10, <1>11, <1>12, <1>13
     DEF ThreadStep, ExchangeStep, ExecThread

\* The thread of a client keeps the protocol with it.
LEMMA ClientThreadLink ==
  ASSUME Types, NEW t \in Clients, ThreadStep(t), ClientLink(t), cl' = cl
  PROVE  ClientLink(t)'
<1> DEFINE a == at[t]
           x == cl[t]
           o == open[t]
           m == toMain[t]
           p == toPeer[t]
<1>0. /\ t \in Peers /\ t \notin Execs
      /\ at \in [Peers -> ClientStages \cup ExecStages] /\ a \in ClientStages
      /\ open \in [Peers -> SUBSET {"main", "peer"}]
      /\ toMain \in [Peers -> Seq(ClientRequests \cup ExecMessages)]
      /\ toPeer \in [Peers -> Seq(ClientResponses \cup JobMessages)]
      /\ x \in {"off", "prompt", "wait", "waitInter", "hang", "accept", "session"}
      /\ m \in Seq(ClientRequests) /\ p \in Seq(ClientResponses)
  BY PeerAssumption DEF Types, NetTypes, MainTypes, StageTypes, LinkTypes, ToMainType,
     ToPeerType, ClientTypes, Peers
<1>a. o \in SUBSET {"main", "peer"}
  BY <1>0
<1>b. ClientProtocol(a, x, o, m, p)
  BY DEF ClientLink
<1>c. SUFFICES ClientProtocol(at'[t], x, open'[t], toMain'[t], toPeer'[t])
  BY DEF ClientLink
<1> DEFINE G == ClientProtocol(at'[t], x, open'[t], toMain'[t], toPeer'[t])
<1>e. ClientMoves(a, x, o, m, p)
  BY <1>0, <1>a, <1>b, ClientProtocolKept
<1>1. ASSUME Accept(t) PROVE G
  <2>1. CASE at' = [at EXCEPT ![t] = "recv"] /\ UNCHANGED netVars
    <3>1. /\ at'[t] = "recv" /\ open'[t] = o /\ toMain'[t] = m /\ toPeer'[t] = p
          /\ a = "off" /\ "main" \in o
      BY <1>0, <1>1, <2>1 DEF Accept, netVars, linkVars
    <3> QED
      BY <1>e, <3>1 DEF ClientMoves
  <2>2. CASE CloseSocket(t) /\ UNCHANGED <<toPeer, at>>
    <3>1. at'[t] = "off" /\ open'[t] = o \ {"main"} /\ toMain'[t] = <<>> /\ toPeer'[t] = p /\ a = "off"
      BY <1>0, <1>1, <2>2 DEF Accept, CloseSocket
    <3> QED
      BY <1>e, <3>1 DEF ClientMoves
  <2> QED
    BY <1>1, <2>1, <2>2 DEF Accept, Goto
<1>2. ASSUME Leave(t) PROVE G
  <2>1. at'[t] = "off" /\ open'[t] = o \ {"main"} /\ toMain'[t] = <<>> /\ toPeer'[t] = p /\ a = "recv"
    BY <1>0, <1>2 DEF Leave, CloseSocket, Goto
  <2> QED
    BY <1>e, <2>1 DEF ClientMoves
<1>3. ASSUME NEW r \in ClientResponses, NEW b \in {"recv", "submit"},
             a = "recv", m # <<>>,
             at' = [at EXCEPT ![t] = b], UNCHANGED linkVars,
             toMain' = Received(toMain, t), Reply(t, r)
      PROVE  G
  <2>1. /\ at'[t] = b /\ open'[t] = o /\ toMain'[t] = Tail(m)
        /\ toPeer'[t] = IF "peer" \in o THEN Append(p, r) ELSE p
    BY <1>0, <1>3 DEF Received, Reply, Sent, linkVars
  <2> QED
    BY <1>3, <1>e, <2>1 DEF ClientMoves
<1>f. m # <<>> => Head(m) \in ClientRequests
  BY <1>0, MessageQueue
<1>d. a = "recv" => at = [at EXCEPT ![t] = "recv"]
  BY <1>0
<1>4. ASSUME QueueState(t) PROVE G
  <2> DEFINE r == IF Head(toMain[t]).queue = 0
                  THEN SetQueueState(Head(toMain[t]).queue, queue.state) ELSE SetBadParams
  <2>1. r \in ClientResponses
    <3>1. Head(toMain[t]).queue \in Queues
      BY <1>f, <1>4 DEF QueueState, Recv, Arrived, ClientRequests
    <3>2. SetQueueState(Head(toMain[t]).queue, queue.state) \in ClientResponses
      BY <3>1 DEF SetQueueState, ClientResponses, Types, MainTypes, QueueTypes, Q!QueueType
    <3>3. SetBadParams \in ClientResponses
      BY DEF SetBadParams, ClientResponses
    <3> QED
      BY <3>2, <3>3
  <2>2. /\ Reply(t, r) /\ a = "recv" /\ m # <<>>
        /\ at' = at /\ UNCHANGED linkVars /\ toMain' = Received(toMain, t)
    BY <1>4 DEF QueueState, Recv, Arrived, mainVars
  <2> HIDE DEF r
  <2> QED
    BY <1>3, <1>d, <2>1, <2>2
<1>5. ASSUME Misuse(t) PROVE G
  BY <1>b, <1>5 DEF Misuse, netVars, linkVars
<1>6. ASSUME NewJob(t) PROVE G
  <2>1. SetJobID(NewId) \in ClientResponses
    <3>1. NewId \in JobIds
      BY HistoryAssumption DEF NewId, JobIds, Types, MainTypes, HistoryTypes
    <3> QED
      BY <3>1 DEF ClientResponses, SetJobID
  <2>2. /\ Reply(t, SetJobID(NewId)) /\ a = "recv" /\ m # <<>>
        /\ at' = [at EXCEPT ![t] = "submit"] /\ UNCHANGED linkVars
        /\ toMain' = Received(toMain, t)
    BY <1>6 DEF NewJob, Recv, Arrived, Goto
  <2> QED
    BY <1>3, <2>1, <2>2
<1>7. ASSUME FinishSubmit(t) PROVE G
  <2>1. /\ at'[t] \in {"recv", "submit"} /\ open'[t] = o /\ toMain'[t] = m /\ toPeer'[t] = p
        /\ a = "submit"
    BY <1>0, <1>7 DEF FinishSubmit, PutJob, Goto, netVars, linkVars
  <2> QED
    BY <1>b, <1>e, <2>1 DEF ClientMoves
<1>8. ASSUME JobState(t) PROVE G
  <2> DEFINE jobid == Head(toMain[t]).id
             r == IF Knows(job_array, jobid)
                  THEN SetJobState(jobid, Entry(job_array, jobid)) ELSE SetBadParams
  <2>1. r \in ClientResponses
    <3>1. jobid \in JobIds
      BY <1>f, <1>8 DEF JobState, Recv, Arrived, ClientRequests
    <3>2. SetBadParams \in ClientResponses
      BY DEF SetBadParams, ClientResponses
    <3>3. ASSUME Knows(job_array, jobid)
          PROVE  SetJobState(jobid, Entry(job_array, jobid)) \in ClientResponses
      <4>1. PICK y \in Entries : y = Entry(job_array, jobid)
        BY <3>1, <3>3, HistoryOps DEF Types, MainTypes, HistoryTypes
      <4>2. SetJobState(jobid, y) \in ClientResponses
        BY <3>1 DEF SetJobState, ClientResponses, Entries
      <4> QED
        BY <4>1, <4>2
    <3> QED
      BY <3>2, <3>3
  <2>2. /\ Reply(t, r) /\ a = "recv" /\ m # <<>>
        /\ at' = at /\ UNCHANGED linkVars /\ toMain' = Received(toMain, t)
    BY <1>8 DEF JobState, Recv, Arrived, mainVars
  <2> HIDE DEF r
  <2> QED
    BY <1>3, <1>d, <2>1, <2>2
<1>9. ASSUME Unsubmit(t) PROVE G
  <2>1. CASE Goto(t, "remove") /\ UNCHANGED toPeer
    <3>1. /\ at'[t] = "remove" /\ open'[t] = o /\ toMain'[t] = Tail(m) /\ toPeer'[t] = p
          /\ a = "recv" /\ m # <<>>
      BY <1>0, <1>9, <2>1 DEF Unsubmit, Recv, Arrived, Received, Goto, linkVars
    <3> QED
      BY <1>e, <3>1 DEF ClientMoves
  <2>2. CASE Reply(t, SetBadParams) /\ UNCHANGED <<req, at>>
    <3>1. SetBadParams \in ClientResponses
      BY DEF ClientResponses, SetBadParams
    <3>2. /\ a = "recv" /\ m # <<>> /\ at' = at /\ UNCHANGED linkVars
          /\ toMain' = Received(toMain, t)
      BY <1>9, <2>2 DEF Unsubmit, Recv, Arrived
    <3> QED
      BY <1>3, <1>d, <2>2, <3>1, <3>2
  <2> QED
    BY <1>9, <2>1, <2>2 DEF Unsubmit
<1>10. ASSUME RemoveJob(t) PROVE G
  <2>1. /\ at'[t] \in {"mark", "remove"} /\ open'[t] = o /\ toMain'[t] = m /\ toPeer'[t] = p
        /\ a = "remove"
    BY <1>0, <1>10 DEF RemoveJob, Goto, netVars, linkVars
  <2> QED
    BY <1>b, <1>e, <2>1 DEF ClientMoves
<1>11. ASSUME MarkJob(t) PROVE G
  <2>1. CASE Reply(t, SetUnsubmit(req[t])) /\ Goto(t, "recv")
    <3>1. SetUnsubmit(req[t]) \in ClientResponses
      BY DEF ClientResponses, SetUnsubmit, Types, MainTypes, HeapTypes
    <3>2. /\ at'[t] = "recv" /\ open'[t] = o /\ toMain'[t] = m /\ a = "mark"
          /\ toPeer'[t] = IF "peer" \in o THEN Append(p, SetUnsubmit(req[t])) ELSE p
      BY <1>0, <1>11, <2>1 DEF MarkJob, Reply, Sent, Goto, linkVars
    <3> QED
      BY <1>e, <3>1, <3>2 DEF ClientMoves
  <2>2. CASE UNCHANGED <<job_array, toPeer, at>>
    BY <1>b, <1>11, <2>2 DEF MarkJob, linkVars
  <2> QED
    BY <1>11, <2>1, <2>2 DEF MarkJob
<1> QED
  BY <1>0, <1>1, <1>2, <1>4, <1>5, <1>6, <1>7, <1>8, <1>9, <1>10, <1>11
     DEF ThreadStep, ClientThread

-----------------------------------------------------------------------------
\* An execution server touches no connection but its own ...
LEMMA ExecFrame ==
  ASSUME Types, NEW e \in Execs,
         \/ ES!ExecStep(e) \/ ES!Start(e) \/ ES!JobRequest(e)
         \/ ES!CloseConnecMain(e) \/ ES!Crash(e),
         NEW p \in Peers, p # e
  PROVE  /\ p \in Execs => es'[p] = es[p]
         /\ open'[p] = open[p] /\ toMain'[p] = toMain[p] /\ toPeer'[p] = toPeer[p]
<1>0. /\ es \in [Execs -> {"off", "prompt", "wait", "sleep", "dial", "run"}]
      /\ open \in [Peers -> SUBSET {"main", "peer"}]
      /\ toMain \in [Peers -> Seq(ClientRequests \cup ExecMessages)]
      /\ toPeer \in [Peers -> Seq(ClientResponses \cup JobMessages)]
  BY DEF Types, NetTypes, LinkTypes, ToMainType, ToPeerType, ExecTypes
<1> USE <1>0 DEF ES!linkVars, ES!Become, ES!Tell, ES!Sent, ES!Received, ES!Disconnect, ES!Connect
<1> DEFINE G == /\ p \in Execs => es'[p] = es[p]
                /\ open'[p] = open[p] /\ toMain'[p] = toMain[p] /\ toPeer'[p] = toPeer[p]
<1>1. ASSUME ES!Start(e) \/ ES!JobRequest(e) \/ ES!CloseConnecMain(e) PROVE G
  BY <1>1 DEF ES!Start, ES!JobRequest, ES!CloseConnecMain
<1>2. ASSUME ES!Crash(e) PROVE G
  BY <1>2 DEF ES!Crash
<1>3. ASSUME ES!RecvCheck(e) \/ ES!SendAck(e) \/ ES!LoseMain(e) PROVE G
  BY <1>3 DEF ES!RecvCheck, ES!SendAck, ES!LoseMain
<1>4. ASSUME ES!RecvJob(e) PROVE G
  BY <1>4 DEF ES!RecvJob
<1>5. ASSUME ES!Dial(e) PROVE G
  BY <1>5 DEF ES!Dial
<1>6. ASSUME ES!ReportJob(e) PROVE G
  BY <1>6 DEF ES!ReportJob
<1> QED
  BY <1>1, <1>2, <1>3, <1>4, <1>5, <1>6 DEF ES!ExecStep

\* ... and keeps the protocol with its thread.
LEMMA ExecServerLink ==
  ASSUME Types, NEW e \in Execs,
         \/ ES!ExecStep(e) \/ ES!Start(e) \/ ES!JobRequest(e)
         \/ ES!CloseConnecMain(e) \/ ES!Crash(e),
         ExecLink(e), at' = at
  PROVE  ExecLink(e)'
<1> DEFINE a == at[e]
           x == es[e]
           o == open[e]
           m == toMain[e]
           p == toPeer[e]
           Sends(r) == IF "main" \in o THEN Append(m, r) ELSE m
<1>0. /\ e \in Peers
      /\ a \in ExecStages
      /\ es \in [Execs -> {"off", "prompt", "wait", "sleep", "dial", "run"}]
      /\ open \in [Peers -> SUBSET {"main", "peer"}]
      /\ toMain \in [Peers -> Seq(ClientRequests \cup ExecMessages)]
      /\ toPeer \in [Peers -> Seq(ClientResponses \cup JobMessages)]
      /\ m \in Seq(ExecMessages) /\ p \in Seq(JobMessages)
  BY DEF Types, NetTypes, MainTypes, StageTypes, LinkTypes, ToMainType, ToPeerType,
         ExecTypes, Peers
<1>a. /\ o \in SUBSET {"main", "peer"}
      /\ x \in {"off", "prompt", "wait", "sleep", "dial", "run"}
  BY <1>0
<1>b. ExecProtocol(a, x, o, m, p)
  BY DEF ExecLink
<1>c. SUFFICES ExecProtocol(a, es'[e], open'[e], toMain'[e], toPeer'[e])
  BY DEF ExecLink
<1> DEFINE G == ExecProtocol(a, es'[e], open'[e], toMain'[e], toPeer'[e])
<1>e. \A r \in ExecMessages : ExecMoves(a, x, o, m, p, r, Sends(r))
  BY <1>0, <1>a, <1>b, ExecKeepsProtocol
<1>f. ASSUME NEW r \in ExecMessages, ES!Tell(e, r) PROVE toMain'[e] = Sends(r)
  BY <1>0, <1>f DEF ES!Tell, ES!Sent
<1>g. PICK q \in ExecMessages : TRUE
  BY ExecMessageTypes
<1>h. ExecMoves(a, x, o, m, p, q, Sends(q))
  BY <1>e
<1> HIDE DEF Sends
<1>1. ASSUME ES!Start(e) PROVE G
  <2>1. /\ x = "off" /\ o = {} /\ es'[e] = "prompt" /\ open'[e] = {"main", "peer"}
        /\ toMain'[e] = <<>> /\ toPeer'[e] = <<>>
    BY <1>0, <1>1 DEF ES!Start, ES!Connect, ES!Become
  <2> QED
    BY <1>h, <2>1 DEF ExecMoves
<1>2. ASSUME ES!JobRequest(e) PROVE G
  <2> DEFINE r == ES!SetJobReq
  <2>1. r \in ExecMessages /\ r.type = "JOB_REQ" /\ ES!Tell(e, r)
    BY <1>2, ExecMessageTypes DEF ES!JobRequest, ES!SetJobReq
  <2>2. x = "prompt" /\ es'[e] = "wait" /\ open'[e] = o /\ toPeer'[e] = p
    BY <1>0, <1>2 DEF ES!JobRequest, ES!Become, ES!linkVars
  <2>3. ExecMoves(a, x, o, m, p, r, Sends(r)) /\ toMain'[e] = Sends(r)
    BY <1>e, <1>f, <2>1
  <2> HIDE DEF r
  <2> QED
    BY <2>1, <2>2, <2>3 DEF ExecMoves
<1>3. ASSUME ES!CloseConnecMain(e) PROVE G
  <2> DEFINE r == ES!SetClosedConnection_ExecServer
  <2>1. r \in ExecMessages /\ r.type = "SERVER_CLOSED" /\ ES!Tell(e, r)
    BY <1>3, ExecMessageTypes DEF ES!CloseConnecMain, ES!SetClosedConnection_ExecServer
  <2>2. x = "prompt" /\ es'[e] = "off" /\ open'[e] = o \ {"peer"} /\ toPeer'[e] = <<>>
    BY <1>0, <1>3 DEF ES!CloseConnecMain, ES!Disconnect, ES!Become
  <2>3. ExecMoves(a, x, o, m, p, r, Sends(r)) /\ toMain'[e] = Sends(r)
    BY <1>e, <1>f, <2>1
  <2> HIDE DEF r
  <2> QED
    BY <2>1, <2>2, <2>3 DEF ExecMoves
<1>4. ASSUME ES!RecvCheck(e) PROVE G
  <2>1. /\ x = "wait" /\ p # <<>> /\ Head(p).type = "CH_EXEC_SER" /\ es'[e] = "sleep"
        /\ open'[e] = o /\ toMain'[e] = m /\ toPeer'[e] = Tail(p)
    BY <1>0, <1>4 DEF ES!RecvCheck, ES!Arrived, ES!Received, ES!Become, ES!linkVars
  <2> QED
    BY <1>h, <2>1 DEF ExecMoves
<1>5. ASSUME ES!SendAck(e) PROVE G
  <2> DEFINE r == ES!SetCheckExecServerAck
  <2>1. r \in ExecMessages /\ r.type = "CH_EXEC_SER_ACK" /\ ES!Tell(e, r)
    BY <1>5, ExecMessageTypes DEF ES!SendAck, ES!SetCheckExecServerAck
  <2>2. x = "sleep" /\ es'[e] = "wait" /\ open'[e] = o /\ toPeer'[e] = p
    BY <1>0, <1>5 DEF ES!SendAck, ES!Become, ES!linkVars
  <2>3. ExecMoves(a, x, o, m, p, r, Sends(r)) /\ toMain'[e] = Sends(r)
    BY <1>e, <1>f, <2>1
  <2> HIDE DEF r
  <2> QED
    BY <2>1, <2>2, <2>3 DEF ExecMoves
<1>r. \A j \in JobIds :
        /\ ES!SetJobRun(j).type \in ReportTypes
        /\ \A status \in Statuses : /\ ES!SetJobDone(j, status).type \in ReportTypes
                                    /\ ES!SetJobSignaled(j, status).type \in ReportTypes
  BY DEF ES!SetJobRun, ES!SetJobDone, ES!SetJobSignaled, ReportTypes
<1>s. 0 \in Statuses /\ ES!ForkFailed \in Statuses
      /\ ES!ChildStatuses \subseteq Statuses /\ Signals \subseteq Statuses
  BY DEF ES!ChildStatuses, ES!ExecFailed, ES!ForkFailed, ExecFailed, ForkFailed, Statuses
<1>6. ASSUME ES!RecvJob(e) PROVE G
  <2>1. /\ x = "wait" /\ p # <<>> /\ Head(p).type # "CH_EXEC_SER" /\ Head(p).id \in JobIds
        /\ es'[e] \in {"prompt", "dial", "run"}
        /\ open'[e] = o /\ toPeer'[e] = Tail(p)
    <3>1. x = "wait" /\ p # <<>> /\ Head(p).type \in {"SENDJOB_NOINTER", "SENDJOB_INTER"}
      BY <1>6 DEF ES!RecvJob, ES!Arrived, ES!JobTypes
    <3>2. Head(p) \in JobMessages
      BY <1>0, <3>1, MessageQueue
    <3>3. Head(p).id \in JobIds
      BY <3>1, <3>2 DEF JobMessages
    <3> QED
      BY <1>0, <1>6, <3>1, <3>3 DEF ES!RecvJob, ES!Received, ES!Become, ES!linkVars
  <2>2. PICK r \in ExecMessages : r.type \in ReportTypes /\ ES!Tell(e, r)
    BY <1>6, <1>r, <1>s, <2>1, ExecMessageTypes DEF ES!RecvJob
  <2>3. ExecMoves(a, x, o, m, p, r, Sends(r)) /\ toMain'[e] = Sends(r)
    BY <1>e, <1>f, <2>2
  <2> QED
    BY <2>1, <2>2, <2>3 DEF ExecMoves
<1>i. cur[e].id \in JobIds
  BY DEF Types, ExecTypes, Jobs
<1>7. ASSUME ES!Dial(e) PROVE G
  <2>1. /\ x = "dial" /\ es'[e] \in {"prompt", "run"}
        /\ open'[e] = o /\ toPeer'[e] = p
    BY <1>0, <1>7 DEF ES!Dial, ES!Become
  <2>2. CASE toMain' = toMain
    BY <1>h, <2>1, <2>2 DEF ExecMoves
  <2>3. CASE ES!Tell(e, ES!SetJobDone(cur[e].id, 0))
    <3>2. PICK r \in ExecMessages : r.type \in ReportTypes /\ ES!Tell(e, r)
      BY <1>i, <1>r, <1>s, <2>3, ExecMessageTypes
    <3>3. ExecMoves(a, x, o, m, p, r, Sends(r)) /\ toMain'[e] = Sends(r)
      BY <1>e, <1>f, <3>2
    <3> QED
      BY <2>1, <3>2, <3>3 DEF ExecMoves
  <2> QED
    BY <1>7, <2>2, <2>3 DEF ES!Dial
<1>8. ASSUME ES!ReportJob(e) PROVE G
  <2>1. x = "run" /\ es'[e] = "prompt" /\ open'[e] = o /\ toPeer'[e] = p
    BY <1>0, <1>8 DEF ES!ReportJob, ES!Become
  <2>2. PICK r \in ExecMessages : r.type \in ReportTypes /\ ES!Tell(e, r)
    BY <1>8, <1>i, <1>r, <1>s, ExecMessageTypes DEF ES!ReportJob
  <2>3. ExecMoves(a, x, o, m, p, r, Sends(r)) /\ toMain'[e] = Sends(r)
    BY <1>e, <1>f, <2>2
  <2> QED
    BY <2>1, <2>2, <2>3 DEF ExecMoves
<1>9. ASSUME NEW n \in 0 .. Len(m), es'[e] = "off", open'[e] = o \ {"peer"},
             toPeer'[e] = <<>>, toMain'[e] = SubSeq(m, 1, n)
      PROVE  G
  BY <1>h, <1>9 DEF ExecMoves
<1>10. ASSUME ES!LoseMain(e) PROVE G
  <2>1. /\ es'[e] = "off" /\ open'[e] = o \ {"peer"} /\ toPeer'[e] = <<>> /\ toMain'[e] = m
    BY <1>0, <1>10 DEF ES!LoseMain, ES!Disconnect, ES!Become
  <2>2. Len(m) \in 0 .. Len(m) /\ SubSeq(m, 1, Len(m)) = m
    BY <1>0, SubSeqProperties
  <2> QED
    BY <1>9, <2>1, <2>2
<1>11. ASSUME ES!Crash(e) PROVE G
  <2>1. PICK n \in 0 .. Len(m) : toMain' = [toMain EXCEPT ![e] = SubSeq(@, 1, n)]
    BY <1>11 DEF ES!Crash
  <2>2. /\ es'[e] = "off" /\ open'[e] = o \ {"peer"} /\ toPeer'[e] = <<>>
        /\ toMain'[e] = SubSeq(m, 1, n)
    BY <1>0, <1>11, <2>1 DEF ES!Crash, ES!Disconnect, ES!Become
  <2> QED
    BY <1>9, <2>2
<1> QED
  BY <1>1, <1>2, <1>3, <1>4, <1>5, <1>6, <1>7, <1>8, <1>10, <1>11 DEF ES!ExecStep

-----------------------------------------------------------------------------
\* The steps of a client.
ClientActs(c) ==
  \/ CL!Start(c) \/ CL!Submit(c) \/ CL!SubmitInt(c) \/ CL!SubmitFails(c)
  \/ CL!JobState(c) \/ CL!QueueState(c) \/ CL!Unsubmit(c)
  \/ CL!Stop(c) \/ CL!Kill(c) \/ CL!ClientStep(c) \/ CL!EndSession(c)

\* A client touches no connection but its own ...
LEMMA ClientFrame ==
  ASSUME Types, NEW c \in Clients, ClientActs(c), NEW p \in Peers, p # c
  PROVE  /\ p \in Clients => cl'[p] = cl[p]
         /\ open'[p] = open[p] /\ toMain'[p] = toMain[p] /\ toPeer'[p] = toPeer[p]
<1>0. /\ cl \in [Clients -> {"off", "prompt", "wait", "waitInter", "hang", "accept", "session"}]
      /\ open \in [Peers -> SUBSET {"main", "peer"}]
      /\ toMain \in [Peers -> Seq(ClientRequests \cup ExecMessages)]
      /\ toPeer \in [Peers -> Seq(ClientResponses \cup JobMessages)]
  BY DEF Types, NetTypes, LinkTypes, ToMainType, ToPeerType, ClientTypes
<1> USE <1>0 DEF CL!netVars, CL!linkVars, CL!Become, CL!Sent, CL!Received, CL!Disconnect, CL!Connect
<1> DEFINE G == /\ p \in Clients => cl'[p] = cl[p]
                /\ open'[p] = open[p] /\ toMain'[p] = toMain[p] /\ toPeer'[p] = toPeer[p]
<1>1. ASSUME CL!Start(c) \/ CL!SubmitFails(c) \/ CL!Stop(c) \/ CL!Kill(c) PROVE G
  BY <1>1 DEF CL!Start, CL!SubmitFails, CL!Stop, CL!Kill
<1>2. ASSUME NEW msg, NEW stage, CL!Request(c, msg, stage) PROVE G
  BY <1>2 DEF CL!Request
<1>3. ASSUME CL!Submit(c) \/ CL!SubmitInt(c) PROVE G
  BY <1>2, <1>3 DEF CL!Submit, CL!SubmitInt
<1>4. ASSUME CL!JobState(c) \/ CL!QueueState(c) \/ CL!Unsubmit(c) PROVE G
  BY <1>2, <1>4 DEF CL!JobState, CL!QueueState, CL!Unsubmit
<1>5. ASSUME CL!Response(c) PROVE G
  BY <1>5 DEF CL!Response
<1>6. ASSUME CL!NoResponse(c) \/ CL!ClientAccept(c) \/ CL!EndSession(c) PROVE G
  BY <1>6 DEF CL!NoResponse, CL!ClientAccept, CL!EndSession
<1> QED
  BY <1>1, <1>3, <1>4, <1>5, <1>6 DEF ClientActs, CL!ClientStep

\* ... and keeps the protocol with its thread.
LEMMA ClientOwnLink ==
  ASSUME Types, NEW c \in Clients, ClientActs(c), ClientLink(c), at' = at
  PROVE  ClientLink(c)'
<1> DEFINE a == at[c]
           x == cl[c]
           o == open[c]
           m == toMain[c]
           p == toPeer[c]
<1>0. /\ c \in Peers
      /\ a \in ClientStages
      /\ cl \in [Clients -> {"off", "prompt", "wait", "waitInter", "hang", "accept", "session"}]
      /\ open \in [Peers -> SUBSET {"main", "peer"}]
      /\ toMain \in [Peers -> Seq(ClientRequests \cup ExecMessages)]
      /\ toPeer \in [Peers -> Seq(ClientResponses \cup JobMessages)]
      /\ m \in Seq(ClientRequests) /\ p \in Seq(ClientResponses)
  BY DEF Types, NetTypes, MainTypes, StageTypes, LinkTypes, ToMainType, ToPeerType,
         ClientTypes, Peers
<1>a. /\ o \in SUBSET {"main", "peer"}
      /\ x \in {"off", "prompt", "wait", "waitInter", "hang", "accept", "session"}
  BY <1>0
<1>b. ClientProtocol(a, x, o, m, p)
  BY DEF ClientLink
<1>c. SUFFICES ClientProtocol(a, cl'[c], open'[c], toMain'[c], toPeer'[c])
  BY DEF ClientLink
<1> DEFINE G == ClientProtocol(a, cl'[c], open'[c], toMain'[c], toPeer'[c])
<1>e. ClientMoves(a, x, o, m, p)
  BY <1>0, <1>a, <1>b, ClientProtocolKept
<1>1. ASSUME CL!Start(c) PROVE G
  <2>1. /\ x = "off" /\ o = {} /\ cl'[c] = "prompt" /\ open'[c] = {"main", "peer"}
        /\ toMain'[c] = <<>> /\ toPeer'[c] = <<>>
    BY <1>0, <1>1 DEF CL!Start, CL!Connect, CL!Become
  <2> QED
    BY <1>e, <2>1 DEF ClientMoves
<1>2. ASSUME NEW msg \in ClientRequests, NEW stage \in {"wait", "waitInter"},
             CL!Request(c, msg, stage)
      PROVE  G
  <2>1. /\ x = "prompt" /\ cl'[c] = stage /\ open'[c] = o /\ toPeer'[c] = p
        /\ toMain'[c] = IF "main" \in o THEN Append(m, msg) ELSE m
    BY <1>0, <1>2 DEF CL!Request, CL!Sent, CL!Become
  <2> QED
    BY <1>e, <2>1 DEF ClientMoves
<1>3. ASSUME CL!Submit(c) PROVE G
  BY <1>2, <1>3, ClientMessageTypes DEF CL!Submit
<1>4. ASSUME CL!SubmitInt(c) PROVE G
  <2>1. <<c, submits + 1>> \in Ports
    BY <1>4, PeerAssumption DEF CL!SubmitInt, Ports, Types, ClientTypes
  <2>2. PICK msg \in ClientRequests : CL!Request(c, msg, "waitInter")
    BY <1>4, <2>1, ClientMessageTypes DEF CL!SubmitInt
  <2> QED
    BY <1>2, <2>2
<1>5. ASSUME CL!JobState(c) \/ CL!QueueState(c) \/ CL!Unsubmit(c) PROVE G
  <2>1. PICK msg \in ClientRequests : CL!Request(c, msg, "wait")
    BY <1>5, ValueAssumption, ClientMessageTypes DEF CL!JobState, CL!QueueState, CL!Unsubmit
  <2> QED
    BY <1>2, <2>1
<1>6. ASSUME CL!SubmitFails(c) PROVE G
  <2>1. /\ x = "prompt" /\ cl'[c] = "hang" /\ open'[c] = o /\ toMain'[c] = m /\ toPeer'[c] = p
    BY <1>0, <1>6 DEF CL!SubmitFails, CL!netVars, CL!linkVars, CL!Become
  <2> QED
    BY <1>e, <2>1 DEF ClientMoves
<1>7. ASSUME CL!Stop(c) PROVE G
  <2> DEFINE r == CL!SetClosedConnection
  <2>1. r \in ClientRequests
    BY ClientMessageTypes
  <2>2. /\ x = "prompt" /\ cl'[c] = "off" /\ open'[c] = o \ {"peer"} /\ toPeer'[c] = <<>>
        /\ toMain'[c] = IF "main" \in o THEN Append(m, r) ELSE m
    BY <1>0, <1>7 DEF CL!Stop, CL!Disconnect, CL!Sent, CL!Become
  <2> HIDE DEF r
  <2> QED
    BY <1>e, <2>1, <2>2 DEF ClientMoves
<1>8. ASSUME CL!Kill(c) PROVE G
  <2>1. /\ cl'[c] = "off" /\ open'[c] = o \ {"peer"} /\ toPeer'[c] = <<>> /\ toMain'[c] = m
    BY <1>0, <1>8 DEF CL!Kill, CL!Disconnect, CL!Become
  <2> QED
    BY <1>e, <2>1 DEF ClientMoves
<1>9. ASSUME CL!Response(c) PROVE G
  <2>1. /\ x \in {"wait", "waitInter", "hang"} /\ p # <<>>
        /\ cl'[c] \in {"prompt", "accept"}
        /\ open'[c] = o /\ toMain'[c] = m /\ toPeer'[c] = Tail(p)
    BY <1>0, <1>9 DEF CL!Response, CL!Arrived, CL!Received, CL!Become, CL!After, CL!linkVars
  <2> QED
    BY <1>e, <2>1 DEF ClientMoves
<1>10. ASSUME CL!NoResponse(c) PROVE G
  <2>1. /\ x \in {"wait", "waitInter", "hang"} /\ p = <<>> /\ "main" \notin o
        /\ cl'[c] \in {"prompt", "accept"}
        /\ open'[c] = o /\ toMain'[c] = m /\ toPeer'[c] = p
    BY <1>0, <1>10 DEF CL!NoResponse, CL!Ended, CL!Become, CL!After, CL!netVars, CL!linkVars
  <2> QED
    BY <1>e, <2>1 DEF ClientMoves
<1>11. ASSUME CL!ClientAccept(c) \/ CL!EndSession(c) PROVE G
  <2>1. /\ x \in {"accept", "session"} /\ cl'[c] \in {"session", "prompt"}
        /\ open'[c] = o /\ toMain'[c] = m /\ toPeer'[c] = p
    BY <1>0, <1>11 DEF CL!ClientAccept, CL!EndSession, CL!Become, CL!netVars, CL!linkVars
  <2> QED
    BY <1>e, <2>1 DEF ClientMoves
<1> QED
  BY <1>1, <1>3, <1>4, <1>5, <1>6, <1>7, <1>8, <1>9, <1>10, <1>11
     DEF ClientActs, CL!ClientStep

-----------------------------------------------------------------------------
\* Initially there is no connection.
LEMMA LinksInit == Init => Links
<1> SUFFICES ASSUME Init PROVE Links
  OBVIOUS
<1>0. \A p \in Peers : toMain[p] = <<>> /\ toPeer[p] = <<>> /\ open[p] = {} /\ at[p] = "off"
  BY DEF Init, NetInit, MainInit
<1>1. /\ \A e \in Execs : es[e] = "off"
      /\ \A c \in Clients : cl[c] = "off"
  BY DEF Init, ES!ExecInit, CL!ClientInit
<1>2. Len(<<>>) = 0
  BY EmptySeq
<1>3. ASSUME NEW e \in Execs PROVE ExecLink(e)
  <2>1. e \in Peers
    BY DEF Peers
  <2>2. ExecProtocol("off", "off", {}, <<>>, <<>>)
    BY <1>2 DEF ExecProtocol, Ends
  <2> QED
    BY <1>0, <1>1, <2>1, <2>2 DEF ExecLink
<1>4. ASSUME NEW c \in Clients PROVE ClientLink(c)
  <2>1. c \in Peers
    BY DEF Peers
  <2>2. ClientProtocol("off", "off", {}, <<>>, <<>>)
    BY <1>2 DEF ClientProtocol, Ends
  <2> QED
    BY <1>0, <1>1, <2>1, <2>2 DEF ClientLink
<1> QED
  BY <1>3, <1>4 DEF Links

\* Every step of the system keeps every connection within the protocol.
LEMMA LinksStep == Types /\ Links /\ [Next]_vars => Links'
<1> SUFFICES ASSUME Types, Links, [Next]_vars PROVE Links'
  OBVIOUS
<1> USE DEF Links
<1>a. /\ \A e \in Execs : e \in Peers /\ e \notin Clients
      /\ \A c \in Clients : c \in Peers /\ c \notin Execs
  BY PeerAssumption DEF Peers
<1>1. ASSUME UNCHANGED <<toMain, toPeer, open, at, es, cl>> PROVE Links'
  BY <1>1 DEF ExecLink, ClientLink
<1>2. ASSUME NEW t \in Peers, ThreadStep(t), es' = es, cl' = cl PROVE Links'
  <2>1. ASSUME NEW e \in Execs PROVE ExecLink(e)'
    <3>1. CASE e = t
      BY <1>2, <3>1, ExecThreadLink
    <3>2. CASE e # t
      BY <1>a, <1>2, <3>2, ThreadFrame DEF ExecLink
    <3> QED
      BY <3>1, <3>2
  <2>2. ASSUME NEW c \in Clients PROVE ClientLink(c)'
    <3>1. CASE c = t
      BY <1>2, <3>1, ClientThreadLink
    <3>2. CASE c # t
      BY <1>a, <1>2, <3>2, ThreadFrame DEF ClientLink
    <3> QED
      BY <3>1, <3>2
  <2> QED
    BY <2>1, <2>2
<1>3. CASE MainStep
  <2>1. es' = es /\ cl' = cl
    BY <1>3 DEF MainStep, execVars, clientVars
  <2>2. ASSUME NEW t \in Peers, Wakeup(t) PROVE Links'
    BY <1>1, <2>1, <2>2 DEF Wakeup, netVars, linkVars
  <2>3. ASSUME Stop PROVE Links'
    BY <1>1, <2>1, <2>3 DEF Stop, netVars, linkVars
  <2> QED
    BY <1>2, <1>3, <2>1, <2>2, <2>3 DEF MainStep, MainNext
<1>4. CASE ExecStep
  <2>1. at' = at /\ cl' = cl
    BY <1>4 DEF ExecStep, mainVars, clientVars
  <2>2. PICK e \in Execs : \/ ES!ExecStep(e) \/ ES!Start(e) \/ ES!JobRequest(e)
                           \/ ES!CloseConnecMain(e) \/ ES!Crash(e)
    BY <1>4 DEF ExecStep, ES!ExecNext
  <2>3. ASSUME NEW f \in Execs PROVE ExecLink(f)'
    <3>1. CASE f = e
      BY <2>1, <2>2, <3>1, ExecServerLink
    <3>2. CASE f # e
      <4>1. /\ es'[f] = es[f] /\ open'[f] = open[f] /\ toMain'[f] = toMain[f]
            /\ toPeer'[f] = toPeer[f]
        BY <1>a, <2>2, <3>2, ExecFrame
      <4> QED
        BY <2>1, <4>1 DEF ExecLink
    <3> QED
      BY <3>1, <3>2
  <2>4. ASSUME NEW c \in Clients PROVE ClientLink(c)'
    <3>1. /\ open'[c] = open[c] /\ toMain'[c] = toMain[c] /\ toPeer'[c] = toPeer[c]
      BY <1>a, <2>2, ExecFrame
    <3> QED
      BY <2>1, <3>1 DEF ClientLink
  <2> QED
    BY <2>3, <2>4
<1>5. CASE ClientStep
  <2>1. at' = at /\ es' = es
    BY <1>5 DEF ClientStep, mainVars, execVars
  <2>2. PICK c \in Clients : ClientActs(c)
    BY <1>5 DEF ClientStep, CL!ClientNext, ClientActs
  <2>3. ASSUME NEW d \in Clients PROVE ClientLink(d)'
    <3>1. CASE d = c
      BY <2>1, <2>2, <3>1, ClientOwnLink
    <3>2. CASE d # c
      <4>1. /\ cl'[d] = cl[d] /\ open'[d] = open[d] /\ toMain'[d] = toMain[d]
            /\ toPeer'[d] = toPeer[d]
        BY <1>a, <2>2, <3>2, ClientFrame
      <4> QED
        BY <2>1, <4>1 DEF ClientLink
    <3> QED
      BY <3>1, <3>2
  <2>4. ASSUME NEW e \in Execs PROVE ExecLink(e)'
    <3>1. /\ open'[e] = open[e] /\ toMain'[e] = toMain[e] /\ toPeer'[e] = toPeer[e]
      BY <1>a, <2>2, ClientFrame
    <3> QED
      BY <2>1, <3>1 DEF ExecLink
  <2> QED
    BY <2>3, <2>4
<1>6. CASE UNCHANGED vars
  BY <1>1, <1>6 DEF vars, netVars, linkVars, mainVars, execVars, clientVars
<1> QED
  BY <1>3, <1>4, <1>5, <1>6 DEF Next

\* Every connection is always within the protocol.
LEMMA LinksCorrect == Spec => []Links
<1>1. Init => Links
  BY LinksInit
<1>2. Types /\ Links /\ [Next]_vars => Links'
  BY LinksStep
<1> QED
  BY <1>1, <1>2, TypesCorrect, PTL DEF Spec

\* Whoever waits for a message gets one that it knows, at both ends of every
\* connection, however many peers there are and whenever they crash, are killed,
\* time out or connect again: the default branches of the message loops are never
\* taken, an answer to the check that comes too late is never read, and no client
\* reads the response to an earlier request.
THEOREM ExpectedMessagesCorrect == Spec => []ExpectedMessages
<1>1. Types /\ Links => ExpectedMessages
  <2> SUFFICES ASSUME Types, Links PROVE ExpectedMessages
    OBVIOUS
  <2>1. ASSUME NEW e \in Execs
        PROVE  /\ at[e] = "select" /\ toMain[e] # <<>> => Arrived(toMain, e, {"CH_EXEC_SER_ACK"})
               /\ at[e] = "recv" /\ toMain[e] # <<>> =>
                    Arrived(toMain, e, {"JOB_REQ", "JOB_RUN", "JOB_DONE", "JOB_SIG", "SERVER_CLOSED"})
               /\ es[e] = "wait" /\ toPeer[e] # <<>> =>
                    Arrived(toPeer, e, {"CH_EXEC_SER", "SENDJOB_NOINTER", "SENDJOB_INTER"})
               /\ es[e] \in {"prompt", "sleep", "dial", "run"} => toPeer[e] = <<>>
    <3>1. ExecProtocol(at[e], es[e], open[e], toMain[e], toPeer[e])
      BY DEF Links, ExecLink
    <3>2. /\ toMain[e] \in Seq(ExecMessages) /\ toPeer[e] \in Seq(JobMessages)
          /\ es[e] \in {"off", "prompt", "wait", "sleep", "dial", "run"}
      BY DEF Types, NetTypes, ToMainType, ToPeerType, ExecTypes
    <3>3. at[e] = "select" /\ toMain[e] # <<>> => Arrived(toMain, e, {"CH_EXEC_SER_ACK"})
      BY <3>1 DEF ExecProtocol, Arrived
    <3>4. at[e] = "recv" /\ toMain[e] # <<>> =>
            Arrived(toMain, e, {"JOB_REQ", "JOB_RUN", "JOB_DONE", "JOB_SIG", "SERVER_CLOSED"})
      <4> SUFFICES ASSUME at[e] = "recv", toMain[e] # <<>>
                   PROVE  Head(toMain[e]).type \in ReportTypes \cup {"JOB_REQ", "SERVER_CLOSED"}
        BY DEF Arrived, ReportTypes
      <4>1. \/ OnlyReports(toMain[e])
            \/ ReportsThen(toMain[e], {"JOB_REQ"})
            \/ ReportsThen(toMain[e], {"JOB_REQ", "SERVER_CLOSED"})
        BY <3>1, <3>2 DEF ExecProtocol, Ends
      <4>2. /\ Len(toMain[e]) \in Nat /\ Len(toMain[e]) >= 1
            /\ Head(toMain[e]) = toMain[e][1]
        BY <3>2, ShortQueue
      <4> QED
        BY <4>1, <4>2 DEF OnlyReports, ReportsThen
    <3>5. es[e] = "wait" /\ toPeer[e] # <<>> =>
            Arrived(toPeer, e, {"CH_EXEC_SER", "SENDJOB_NOINTER", "SENDJOB_INTER"})
      <4>1. toPeer[e] # <<>> => Head(toPeer[e]) \in JobMessages
        BY <3>2, MessageQueue
      <4> QED
        BY <4>1 DEF JobMessages, Arrived
    <3>6. es[e] \in {"prompt", "sleep", "dial", "run"} => toPeer[e] = <<>>
      BY <3>1 DEF ExecProtocol
    <3> QED
      BY <3>3, <3>4, <3>5, <3>6
  <2>2. ASSUME NEW c \in Clients
        PROVE  /\ at[c] = "recv" /\ toMain[c] # <<>> => Arrived(toMain, c, Requests)
               /\ cl[c] \in {"wait", "waitInter"} /\ toPeer[c] # <<>> =>
                    Arrived(toPeer, c, CL!Responses)
               /\ cl[c] \in {"prompt", "hang", "accept", "session"} => toPeer[c] = <<>>
               /\ Len(toPeer[c]) <= 1
    <3>1. ClientProtocol(at[c], cl[c], open[c], toMain[c], toPeer[c])
      BY DEF Links, ClientLink
    <3>2. toMain[c] \in Seq(ClientRequests) /\ toPeer[c] \in Seq(ClientResponses)
      BY DEF Types, NetTypes, ToMainType, ToPeerType
    <3>3. Len(toMain[c]) \in Nat /\ Len(toPeer[c]) \in Nat
      BY <3>2, LenProperties
    <3>4. \A i, k \in Nat : i + k <= 1 => k <= 1
      OBVIOUS
    <3>5. Len(toPeer[c]) <= 1
      BY <3>1, <3>3, <3>4 DEF ClientProtocol
    <3>6. toMain[c] # <<>> => Arrived(toMain, c, Requests)
      <4>1. toMain[c] # <<>> => Head(toMain[c]) \in ClientRequests
        BY <3>2, MessageQueue
      <4> QED
        BY <4>1 DEF ClientRequests, Requests, Arrived
    <3>7. toPeer[c] # <<>> => Arrived(toPeer, c, CL!Responses)
      <4>1. toPeer[c] # <<>> => Head(toPeer[c]) \in ClientResponses
        BY <3>2, MessageQueue
      <4> QED
        BY <4>1 DEF ClientResponses, CL!Responses, Arrived
    <3> QED
      BY <3>1, <3>5, <3>6, <3>7 DEF ClientProtocol
  <2> QED
    BY <2>1, <2>2 DEF ExpectedMessages
<1> QED
  BY <1>1, TypesCorrect, LinksCorrect, PTL

\* A client that waits for a response is never forgotten, with any number of
\* clients, whatever they are killed in and whichever connections end: its request
\* is still to be read, its thread works on it, or there is a response or the end
\* of the connection for the client to read.
THEOREM AnswerIsDueCorrect == Spec => []AnswerIsDue
<1>1. Links => AnswerIsDue
  BY DEF Links, ClientLink, ClientProtocol, AnswerIsDue
<1> QED
  BY <1>1, LinksCorrect, PTL
=============================================================================
