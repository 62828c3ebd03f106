--------------------------- MODULE JobFlowProofs ---------------------------
(***************************************************************************)
(* Proofs about the way of the jobs through the system, for any number of  *)
(* clients and execution servers: the threads change the history as        *)
(* History says; a job is with the main server, on its way, executed or    *)
(* gone, and so it is started at most once; inside the main server it is   *)
(* in one place, and so the queue is used as JobQueue says.                *)
(***************************************************************************)
EXTENDS DistQueueProofs, FiniteSetTheorems

SubmitTypes == {"SUB_NO_INTER", "SUB_INTERACTIVE"}

\* The clients whose submission the main server has not read yet.
Pending == {c \in Clients : Arrived(toMain, c, SubmitTypes)}

\* Every submission that was read, or is still on its way, was counted.
SubmitsCounted ==
  /\ IsFiniteSet(Pending)
  /\ history_putidx + Cardinality(Pending) <= submits
  /\ submits <= MaxSubmits

\* job_array is filled from the front, and has no NULL any more from then on.
Filled == \A i \in HistIdx : job_array[i] # NoEntry <=> i < history_putidx

HistoryLink == SubmitsCounted /\ Filled

-----------------------------------------------------------------------------
\* A thread reads one message from its own connection, or loses what is left.
LEMMA ThreadReads ==
  ASSUME Types, NEW t \in Peers, ThreadStep(t)
  PROVE  \/ toMain'[t] \in {toMain[t], <<>>}
         \/ toMain[t] # <<>> /\ toMain'[t] = Tail(toMain[t])
<1>0. toMain \in [Peers -> Seq(ClientRequests \cup ExecMessages)]
  BY DEF Types, NetTypes, ToMainType
<1> USE <1>0 DEF netVars, linkVars, mainVars, Recv, Arrived, Received, CloseSocket
<1> DEFINE G == \/ toMain'[t] \in {toMain[t], <<>>}
                \/ toMain[t] # <<>> /\ toMain'[t] = Tail(toMain[t])
<1>1. ASSUME Accept(t) \/ Leave(t) \/ QueueState(t) \/ Misuse(t) PROVE G
  BY <1>1 DEF Accept, Leave, QueueState, Misuse
<1>2. ASSUME SendCheck(t) \/ RecvAck(t) \/ NoAck(t) \/ SendJob(t) PROVE G
  BY <1>2 DEF SendCheck, RecvAck, NoAck, SendJob
<1>3. ASSUME NewJob(t) \/ FinishSubmit(t) \/ JobState(t) PROVE G
  BY <1>3 DEF NewJob, FinishSubmit, PutJob, JobState
<1>4. ASSUME Unsubmit(t) \/ RemoveJob(t) \/ MarkJob(t) PROVE G
  BY <1>4 DEF Unsubmit, RemoveJob, MarkJob
<1>5. ASSUME JobReq(t) \/ TakeJob(t) \/ FinishBack(t) PROVE G
  BY <1>5 DEF JobReq, TakeJob, FinishBack, PutJob
<1>6. ASSUME Relink(t) \/ ChangeStateJob(t) PROVE G
  BY <1>6 DEF Relink, ChangeStateJob
<1> QED
  BY <1>1, <1>2, <1>3, <1>4, <1>5, <1>6
     DEF ThreadStep, ExchangeStep, ClientThread, ExecThread

\* A client has one request on its way at most.
LEMMA OneRequest ==
  ASSUME Types, Links, NEW c \in Clients
  PROVE  /\ toMain[c] # <<>> => Tail(toMain[c]) = <<>>
         /\ cl[c] = "prompt" => toMain[c] = <<>>
<1>1. ClientProtocol(at[c], cl[c], open[c], toMain[c], toPeer[c])
  BY DEF Links, ClientLink
<1>2. toMain[c] \in Seq(ClientRequests) /\ toPeer[c] \in Seq(ClientResponses)
  BY DEF Types, NetTypes, ToMainType, ToPeerType
<1>3. Len(toMain[c]) \in Nat /\ Len(toPeer[c]) \in Nat
  BY <1>2, LenProperties
<1>4. \A i, k \in Nat : i + k <= 1 => i <= 1
  OBVIOUS
<1>5. Len(toMain[c]) <= 1
  BY <1>1, <1>3, <1>4 DEF ClientProtocol
<1> QED
  BY <1>1, <1>2, <1>5, ShortQueue DEF ClientProtocol

\* Submissions do not appear by a step of the main server.
LEMMA ThreadPending ==
  ASSUME Types, Links, NEW t \in Peers, ThreadStep(t)
  PROVE  Pending' \subseteq Pending
<1> SUFFICES ASSUME NEW c \in Clients, Arrived(toMain', c, SubmitTypes)
             PROVE  Arrived(toMain, c, SubmitTypes)
  BY DEF Pending
<1>0. c \in Peers
  BY DEF Peers
<1>1. CASE c # t
  BY <1>0, <1>1, ThreadFrame DEF Arrived
<1>2. CASE c = t
  BY <1>2, ThreadReads, OneRequest DEF Arrived
<1> QED
  BY <1>1, <1>2

\* The count of the submissions when there are no more of them on their way than
\* before.
LEMMA CountKept ==
  ASSUME Types, SubmitsCounted, Pending' \subseteq Pending,
         history_putidx' = history_putidx, submits' = submits
  PROVE  SubmitsCounted'
<1>1. IsFiniteSet(Pending') /\ Cardinality(Pending') <= Cardinality(Pending)
  BY FS_Subset DEF SubmitsCounted
<1>2. Cardinality(Pending) \in Nat /\ Cardinality(Pending') \in Nat
  BY <1>1, FS_CardinalityType DEF SubmitsCounted
<1>3. history_putidx \in Nat /\ submits \in Nat
  BY DEF Types, MainTypes, HistoryTypes, ClientTypes
<1> QED
  BY <1>1, <1>2, <1>3 DEF SubmitsCounted

\* newJob: a submission that was on its way becomes one that was read.
LEMMA CountRead ==
  ASSUME Types, Links, SubmitsCounted, NEW t \in Clients, NewJob(t), submits' = submits,
         Pending' \subseteq Pending
  PROVE  SubmitsCounted' /\ history_putidx < MaxSubmits
<1>0. /\ toMain[t] # <<>> /\ toMain' = [toMain EXCEPT ![t] = Tail(@)] /\ t \in Pending
      /\ history_putidx' = history_putidx + 1
  BY DEF NewJob, Recv, Arrived, Received, Pending, SubmitTypes
<1>1. toMain'[t] = <<>>
  <2>1. toMain \in [Peers -> Seq(ClientRequests \cup ExecMessages)] /\ t \in Peers
    BY DEF Types, NetTypes, ToMainType, Peers
  <2> QED
    BY <1>0, <2>1, OneRequest
<1>2. Pending' \subseteq Pending \ {t}
  BY <1>1 DEF Pending, Arrived
<1>3. /\ IsFiniteSet(Pending \ {t}) /\ Cardinality(Pending \ {t}) = Cardinality(Pending) - 1
  BY <1>0, FS_RemoveElement DEF SubmitsCounted
<1>4. IsFiniteSet(Pending') /\ Cardinality(Pending') <= Cardinality(Pending) - 1
  BY <1>2, <1>3, FS_Subset
<1>5. Cardinality(Pending) \in Nat /\ Cardinality(Pending') \in Nat
  BY <1>4, FS_CardinalityType DEF SubmitsCounted
<1>6. history_putidx \in Nat /\ submits \in Nat /\ MaxSubmits \in Nat
  BY PeerAssumption DEF Types, MainTypes, HistoryTypes, ClientTypes
<1> QED
  BY <1>0, <1>4, <1>5, <1>6 DEF SubmitsCounted

\* A submission of a client is counted when it is sent.
LEMMA CountSubmit ==
  ASSUME Types, SubmitsCounted, NEW c \in Clients, submits < MaxSubmits,
         submits' = submits + 1, history_putidx' = history_putidx,
         Pending' \subseteq Pending \cup {c}
  PROVE  SubmitsCounted'
<1>1. /\ IsFiniteSet(Pending \cup {c})
      /\ Cardinality(Pending \cup {c}) = IF c \in Pending THEN Cardinality(Pending)
                                         ELSE Cardinality(Pending) + 1
  BY FS_AddElement DEF SubmitsCounted
<1>2. IsFiniteSet(Pending') /\ Cardinality(Pending') <= Cardinality(Pending \cup {c})
  BY <1>1, FS_Subset
<1>3. Cardinality(Pending) \in Nat /\ Cardinality(Pending') \in Nat
  BY <1>2, FS_CardinalityType DEF SubmitsCounted
<1>4. history_putidx \in Nat /\ submits \in Nat /\ MaxSubmits \in Nat
  BY PeerAssumption DEF Types, MainTypes, HistoryTypes, ClientTypes
<1>5. Cardinality(Pending \cup {c}) <= Cardinality(Pending) + 1
  BY <1>1, <1>3
<1>6. Cardinality(Pending') <= Cardinality(Pending) + 1
  BY <1>1, <1>2, <1>3, <1>5
<1> QED
  BY <1>2, <1>3, <1>4, <1>6 DEF SubmitsCounted

\* The steps of a client keep the count.
LEMMA ClientCount ==
  ASSUME Types, Links, SubmitsCounted, NEW c \in Clients, ClientActs(c),
         history_putidx' = history_putidx
  PROVE  SubmitsCounted'
<1>0. /\ c \in Peers
      /\ toMain \in [Peers -> Seq(ClientRequests \cup ExecMessages)]
      /\ toMain[c] \in Seq(ClientRequests)
  BY DEF Peers, Types, NetTypes, ToMainType
<1>1. \A d \in Clients : d # c => (d \in Pending' <=> d \in Pending)
  <2> SUFFICES ASSUME NEW d \in Clients, d # c PROVE d \in Pending' <=> d \in Pending
    OBVIOUS
  <2>1. toMain'[d] = toMain[d]
    BY ClientFrame DEF Peers
  <2> QED
    BY <2>1 DEF Pending, Arrived
<1>2. Pending' \subseteq Pending \cup {c}
  BY <1>1 DEF Pending
<1>3. ASSUME toMain'[c] \in {toMain[c], <<>>}, submits' = submits PROVE SubmitsCounted'
  <2>1. c \in Pending' => c \in Pending
    BY <1>3 DEF Pending, Arrived
  <2> QED
    BY <1>1, <1>2, <1>3, <2>1, CountKept
<1>4. ASSUME NEW r \in ClientRequests, cl[c] = "prompt", r.type \notin SubmitTypes,
             submits' = submits,
             toMain' = IF "main" \in open[c] THEN [toMain EXCEPT ![c] = Append(@, r)] ELSE toMain
      PROVE  SubmitsCounted'
  <2>1. toMain[c] = <<>>
    BY <1>4, OneRequest
  <2>2. Head(Append(toMain[c], r)) = r
    BY <1>0, <2>1, ShortQueue
  <2>3. toMain'[c] \in {toMain[c], Append(toMain[c], r)}
    BY <1>0, <1>4
  <2>4. c \notin Pending'
    BY <1>4, <2>1, <2>2, <2>3 DEF Pending, Arrived
  <2> QED
    BY <1>1, <1>2, <1>4, <2>4, CountKept
<1>5. ASSUME CL!Submit(c) \/ CL!SubmitInt(c) PROVE SubmitsCounted'
  <2>1. submits < MaxSubmits /\ submits' = submits + 1
    BY <1>5 DEF CL!Submit, CL!SubmitInt
  <2> QED
    BY <1>2, <2>1, CountSubmit
<1>6. ASSUME CL!JobState(c) \/ CL!QueueState(c) \/ CL!Unsubmit(c) PROVE SubmitsCounted'
  <2>1. PICK r \in ClientRequests :
           r.type \in {"JOBSTATE", "QUESTATE", "UNSUB"} /\ CL!Request(c, r, "wait")
    BY <1>6, ValueAssumption, ClientMessageTypes
       DEF CL!JobState, CL!QueueState, CL!Unsubmit,
           CL!SetJobState_CLIENT, CL!SetQueueState_CLIENT, CL!SetUnsubmit_CLIENT
  <2>2. submits' = submits
    BY <1>6 DEF CL!JobState, CL!QueueState, CL!Unsubmit
  <2> QED
    BY <1>4, <2>1, <2>2 DEF CL!Request, CL!Sent, SubmitTypes
<1>7. ASSUME CL!Stop(c) PROVE SubmitsCounted'
  <2>1. /\ CL!SetClosedConnection \in ClientRequests
        /\ CL!SetClosedConnection.type \notin SubmitTypes
    BY ClientMessageTypes DEF CL!SetClosedConnection, SubmitTypes
  <2> QED
    BY <1>4, <1>7, <2>1 DEF CL!Stop, CL!Disconnect, CL!Sent
<1>8. ASSUME CL!Start(c) \/ CL!SubmitFails(c) \/ CL!Kill(c) PROVE SubmitsCounted'
  BY <1>0, <1>3, <1>8
     DEF CL!Start, CL!SubmitFails, CL!Kill, CL!Connect, CL!Disconnect, CL!netVars
<1>9. ASSUME CL!ClientStep(c) \/ CL!EndSession(c) PROVE SubmitsCounted'
  BY <1>3, <1>9
     DEF CL!ClientStep, CL!EndSession, CL!Response, CL!NoResponse, CL!ClientAccept, CL!netVars
<1> QED
  BY <1>5, <1>6, <1>7, <1>8, <1>9 DEF ClientActs

-----------------------------------------------------------------------------
\* What a thread does to the history: newJob, the last part of unsubmit and
\* changeStateJob change it, and nothing else does.
LEMMA ThreadHistory ==
  ASSUME Types, NEW t \in Peers, ThreadStep(t)
  PROVE  \/ t \in Clients /\ NewJob(t)
         \/ /\ t \in Clients /\ at[t] = "mark"
            /\ Knows(job_array, req[t]) /\ req[t] \in JobIds
            /\ job_array' = MarkUnsubmitted(job_array, req[t])
            /\ UNCHANGED history_putidx
         \/ \E r \in Reports : /\ t \in Execs /\ toMain[t] # <<>> /\ r = Head(toMain[t])
                               /\ job_array' = SetState(job_array, r.id, r.state, r.exit)
                               /\ UNCHANGED history_putidx
         \/ UNCHANGED histVars
<1> DEFINE G == \/ t \in Clients /\ NewJob(t)
                \/ /\ t \in Clients /\ at[t] = "mark"
                   /\ Knows(job_array, req[t]) /\ req[t] \in JobIds
                   /\ job_array' = MarkUnsubmitted(job_array, req[t])
                   /\ UNCHANGED history_putidx
                \/ \E r \in Reports :
                     /\ t \in Execs /\ toMain[t] # <<>> /\ r = Head(toMain[t])
                     /\ job_array' = SetState(job_array, r.id, r.state, r.exit)
                     /\ UNCHANGED history_putidx
                \/ UNCHANGED histVars
<1> USE DEF mainVars
<1>1. ASSUME Accept(t) \/ Leave(t) \/ QueueState(t) \/ Misuse(t) PROVE G
  BY <1>1 DEF Accept, Leave, QueueState, Misuse
<1>2. ASSUME SendCheck(t) \/ RecvAck(t) \/ NoAck(t) \/ SendJob(t) PROVE G
  BY <1>2 DEF SendCheck, RecvAck, NoAck, SendJob
<1>3. ASSUME t \in Clients, NewJob(t) PROVE G
  BY <1>3
<1>4. ASSUME FinishSubmit(t) \/ JobState(t) \/ Unsubmit(t) \/ RemoveJob(t) PROVE G
  BY <1>4 DEF FinishSubmit, PutJob, JobState, Unsubmit, RemoveJob
<1>5. ASSUME t \in Clients, MarkJob(t) PROVE G
  <2>1. req[t] \in JobIds
    BY <1>5 DEF Types, MainTypes, HeapTypes
  <2> QED
    BY <1>5, <2>1 DEF MarkJob, histVars
<1>6. ASSUME JobReq(t) \/ TakeJob(t) \/ FinishBack(t) \/ Relink(t) PROVE G
  BY <1>6 DEF JobReq, TakeJob, FinishBack, PutJob, Relink
<1>7. ASSUME t \in Execs, ChangeStateJob(t) PROVE G
  <2>1. toMain[t] \in Seq(ExecMessages) /\ toMain[t] # <<>>
    BY <1>7 DEF Types, NetTypes, ToMainType, ChangeStateJob, Recv, Arrived
  <2>2. Head(toMain[t]) \in ExecMessages
    BY <2>1, MessageQueue
  <2>3. Head(toMain[t]) \in Reports
    BY <1>7, <2>2 DEF ChangeStateJob, Recv, Arrived, ExecMessages
  <2> QED
    BY <1>7, <2>1, <2>3 DEF ChangeStateJob
<1> QED
  BY <1>1, <1>2, <1>3, <1>4, <1>5, <1>6, <1>7
     DEF ThreadStep, ExchangeStep, ClientThread, ExecThread

\* The first round: the places are filled in their order.
LEMMA FilledNew ==
  ASSUME Types, Filled, job_array' = AddEntry(job_array, NewId),
         history_putidx' = history_putidx + 1
  PROVE  Filled'
<1> DEFINE n == history_putidx
           p == NewId % JOB_HISTORY_MAX
           e == [id |-> NewId, state |-> "WAIT", exit |-> Garbage]
<1>0. /\ n \in Nat /\ NewId \in JobIds /\ p \in HistIdx
      /\ job_array \in [HistIdx -> Entries \cup {NoEntry}]
      /\ JOB_HISTORY_MAX \in Nat \ {0} /\ ID_MOD \in Nat \ {0} /\ ID_MOD >= JOB_HISTORY_MAX
  <2>1. n \in Nat /\ job_array \in [HistIdx -> Entries \cup {NoEntry}]
    BY DEF Types, MainTypes, HistoryTypes
  <2>2. NewId \in 0 .. ID_MOD - 1
    BY <2>1, HistoryAssumption, DivMod DEF NewId
  <2>3. p \in 0 .. JOB_HISTORY_MAX - 1
    BY <2>2, HistoryAssumption, DivMod
  <2> QED
    BY <2>1, <2>2, <2>3, HistoryAssumption, WindowAssumption DEF JobIds, HistIdx
<1>1. e # NoEntry
  <2>1. e \in EntryType(0 .. 255)
    BY <1>0 DEF EntryType, States
  <2> QED
    BY <2>1, ValueAssumption
<1>2. job_array' = [job_array EXCEPT ![p] = e]
  BY DEF AddEntry
<1>3. n < JOB_HISTORY_MAX => p = n
  <2>1. n < JOB_HISTORY_MAX => NewId = n
    BY <1>0, ModSmall DEF NewId
  <2> QED
    BY <1>0, <2>1, ModSmall
<1> HIDE DEF p, e
<1>4. ASSUME NEW i \in HistIdx PROVE job_array'[i] # NoEntry <=> i < n + 1
  <2>1. i \in Nat /\ i < JOB_HISTORY_MAX
    BY <1>0 DEF HistIdx
  <2>2. CASE i = p
    <3>1. i < n + 1
      BY <1>0, <1>3, <2>1, <2>2
    <3> QED
      BY <1>0, <1>1, <1>2, <2>2, <3>1
  <2>3. CASE i # p
    <3>1. job_array'[i] = job_array[i]
      BY <1>0, <1>2, <2>3
    <3>2. i < n + 1 <=> i < n
      BY <1>0, <1>3, <2>1, <2>3
    <3> QED
      BY <3>1, <3>2 DEF Filled
  <2> QED
    BY <2>2, <2>3
<1> QED
  BY <1>4 DEF Filled

\* An entry that is changed stays an entry.
LEMMA FilledKept ==
  ASSUME Types, Filled, history_putidx' = history_putidx, NEW i \in HistIdx,
         job_array[i] # NoEntry, NEW e \in EntryType(0 .. 255),
         job_array' = [job_array EXCEPT ![i] = e]
  PROVE  Filled'
<1>1. job_array \in [HistIdx -> Entries \cup {NoEntry}]
  BY DEF Types, MainTypes, HistoryTypes
<1>2. e # NoEntry
  BY ValueAssumption
<1>3. \A k \in HistIdx : job_array'[k] # NoEntry <=> job_array[k] # NoEntry
  BY <1>1, <1>2
<1> QED
  BY <1>3 DEF Filled

\* The entries are those that History speaks of.
LEMMA EntriesTyped == Entries \subseteq EntryType(0 .. 255)
BY StatusRange DEF Entries, EntryType, States

\* What a thread does keeps the link between the history and the submissions.
LEMMA ThreadLink ==
  ASSUME Types, Links, HistoryLink, NEW t \in Peers, ThreadStep(t), submits' = submits
  PROVE  HistoryLink'
<1>0. job_array \in [HistIdx -> Entries \cup {NoEntry}] /\ Filled /\ SubmitsCounted
  BY DEF Types, MainTypes, HistoryTypes, HistoryLink
<1>1. Pending' \subseteq Pending
  BY ThreadPending
<1>2. ASSUME t \in Clients, NewJob(t) PROVE HistoryLink'
  <2>1. SubmitsCounted'
    BY <1>0, <1>1, <1>2, CountRead
  <2>2. job_array' = AddEntry(job_array, NewId) /\ history_putidx' = history_putidx + 1
    BY <1>2 DEF NewJob
  <2> QED
    BY <1>0, <2>1, <2>2, FilledNew DEF HistoryLink
<1>3. ASSUME UNCHANGED history_putidx, NEW i \in HistIdx, job_array[i] # NoEntry,
             NEW e \in EntryType(0 .. 255), job_array' = [job_array EXCEPT ![i] = e]
      PROVE  HistoryLink'
  BY <1>0, <1>1, <1>3, CountKept, FilledKept DEF HistoryLink
<1>4. ASSUME UNCHANGED histVars PROVE HistoryLink'
  BY <1>0, <1>1, <1>4, CountKept DEF HistoryLink, histVars, Filled
<1>5. ASSUME Knows(job_array, req[t]), job_array' = MarkUnsubmitted(job_array, req[t]),
             UNCHANGED history_putidx
      PROVE  HistoryLink'
  <2> DEFINE i == FindJob(job_array, req[t])
             e == [job_array[i] EXCEPT !.state = "UNSUBMITED"]
  <2>1. i \in HistIdx /\ job_array[i] # NoEntry
    BY <1>5, FindJobFinds
  <2>2. job_array' = [job_array EXCEPT ![i] = e]
    BY <1>5 DEF MarkUnsubmitted
  <2> HIDE DEF i
  <2>3. job_array[i] \in EntryType(0 .. 255)
    BY <1>0, <2>1, EntriesTyped
  <2>4. e \in EntryType(0 .. 255)
    BY <2>3 DEF EntryType, States
  <2> QED
    BY <1>3, <1>5, <2>1, <2>2, <2>4
<1>6. ASSUME NEW r \in Reports, job_array' = SetState(job_array, r.id, r.state, r.exit),
             UNCHANGED history_putidx
      PROVE  HistoryLink'
  <2> DEFINE i == FindJob(job_array, r.id)
             e == [id |-> r.id, state |-> r.state, exit |-> r.exit]
  <2>1. CASE Knows(job_array, r.id)
    <3>1. i \in HistIdx /\ job_array[i] # NoEntry
      BY <2>1, FindJobFinds
    <3>2. job_array' = [job_array EXCEPT ![i] = e]
      BY <1>6, <2>1 DEF SetState
    <3> HIDE DEF i
    <3>3. e \in EntryType(0 .. 255)
      BY StatusRange DEF Reports, EntryType, States
    <3> QED
      BY <1>3, <1>6, <3>1, <3>2, <3>3
  <2>2. CASE ~Knows(job_array, r.id)
    BY <1>4, <1>6, <2>2 DEF SetState, histVars
  <2> QED
    BY <2>1, <2>2
<1> QED
  BY <1>2, <1>4, <1>5, <1>6, ThreadHistory

\* Every step of the system keeps that link.
LEMMA HistoryLinkStep == Types /\ Links /\ HistoryLink /\ [Next]_vars => HistoryLink'
<1> SUFFICES ASSUME Types, Links, HistoryLink, [Next]_vars PROVE HistoryLink'
  OBVIOUS
<1>1. ASSUME UNCHANGED <<histVars, submits>>, Pending' \subseteq Pending PROVE HistoryLink'
  BY <1>1, CountKept DEF HistoryLink, histVars, Filled
<1>2. ASSUME UNCHANGED <<histVars, submits, toMain>> PROVE HistoryLink'
  BY <1>1, <1>2 DEF Pending, Arrived
<1>3. CASE MainStep
  <2>1. submits' = submits
    BY <1>3 DEF MainStep, clientVars
  <2>2. ASSUME NEW t \in Peers, Wakeup(t) PROVE HistoryLink'
    BY <1>2, <2>1, <2>2 DEF Wakeup, netVars
  <2>3. ASSUME Stop PROVE HistoryLink'
    BY <1>2, <2>1, <2>3 DEF Stop, netVars
  <2> QED
    BY <1>3, <2>1, <2>2, <2>3, ThreadLink DEF MainStep, MainNext
<1>4. CASE ExecStep
  <2>1. UNCHANGED <<histVars, submits>>
    BY <1>4 DEF ExecStep, mainVars, clientVars
  <2>2. PICK e \in Execs : \/ ES!ExecStep(e) \/ ES!Start(e) \/ ES!JobRequest(e)
                           \/ ES!CloseConnecMain(e) \/ ES!Crash(e)
    BY <1>4 DEF ExecStep, ES!ExecNext
  <2>3. \A c \in Clients : toMain'[c] = toMain[c]
    <3> SUFFICES ASSUME NEW c \in Clients PROVE toMain'[c] = toMain[c]
      OBVIOUS
    <3>1. c \in Peers /\ c # e
      BY PeerAssumption DEF Peers
    <3> QED
      BY <2>2, <3>1, ExecFrame
  <2>4. Pending' \subseteq Pending
    BY <2>3 DEF Pending, Arrived
  <2> QED
    BY <1>1, <2>1, <2>4
<1>5. CASE ClientStep
  <2>1. UNCHANGED histVars
    BY <1>5 DEF ClientStep, mainVars
  <2>2. PICK c \in Clients : ClientActs(c)
    BY <1>5 DEF ClientStep, CL!ClientNext, ClientActs
  <2>3. SubmitsCounted'
    BY <2>1, <2>2, ClientCount DEF HistoryLink, histVars
  <2> QED
    BY <2>1, <2>3 DEF HistoryLink, histVars, Filled
<1>6. CASE UNCHANGED vars
  BY <1>2, <1>6 DEF vars, netVars, mainVars, clientVars
<1> QED
  BY <1>3, <1>4, <1>5, <1>6 DEF Next

\* Initially there are no jobs.
LEMMA HistoryLinkInit == Init => HistoryLink
<1> SUFFICES ASSUME Init PROVE HistoryLink
  OBVIOUS
<1>1. Pending = {}
  BY DEF Init, NetInit, Peers, Pending, Arrived
<1>2. IsFiniteSet(Pending) /\ Cardinality(Pending) = 0
  BY <1>1, FS_EmptySet
<1>3. submits = 0 /\ history_putidx = 0 /\ job_array = HistoryInit /\ MaxSubmits \in Nat
  BY PeerAssumption DEF Init, MainInit, CL!ClientInit
<1>4. Filled
  BY <1>3, HistoryAssumption DEF Filled, HistoryInit, HistIdx
<1> QED
  BY <1>2, <1>3, <1>4 DEF HistoryLink, SubmitsCounted

\* No more jobs are in the history than were submitted, and it is filled from the
\* front.
LEMMA HistoryLinkCorrect == Spec => []HistoryLink
<1>1. Init => HistoryLink
  BY HistoryLinkInit
<1>2. Types /\ Links /\ HistoryLink /\ [Next]_vars => HistoryLink'
  BY HistoryLinkStep
<1> QED
  BY <1>1, <1>2, TypesCorrect, LinksCorrect, PTL DEF Spec

-----------------------------------------------------------------------------
(***************************************************************************)
(* The threads change the history as History says.                         *)
(***************************************************************************)
\* newJob leaks the entry it overwrites in the first JOB_HISTORY_MAX places of
\* every round of the ids but the first one.
LEMMA LeakedNew ==
  ASSUME Types, Filled, history_putidx' = history_putidx + 1
  PROVE  Leaked' = IF /\ job_array[NewId % JOB_HISTORY_MAX] # NoEntry
                      /\ ~(NewId >= JOB_HISTORY_MAX)
                   THEN Leaked + 1 ELSE Leaked
<1> DEFINE H == JOB_HISTORY_MAX
           M == ID_MOD
           taken == job_array[NewId % H] # NoEntry
<1>1. PICK p \in Nat, q \in Nat, r \in 0 .. M - 1 :
        p = history_putidx /\ q = p \div M /\ r = p % M /\ p = M * q + r
  BY HistoryAssumption, DivMod DEF Types, MainTypes, HistoryTypes
<1>2. H \in Nat \ {0} /\ M \in Nat \ {0} /\ M >= H /\ 1 \in 0 .. M
  BY HistoryAssumption, WindowAssumption
<1>3. NewId = r
  BY <1>1 DEF NewId
<1>4. r < H => (taken <=> q # 0)
  <2> SUFFICES ASSUME r < H PROVE taken <=> q # 0
    OBVIOUS
  <2>1. r \in HistIdx /\ r \in 0 .. H - 1
    BY <1>1, <1>2 DEF HistIdx
  <2>2. r % H = r
    BY <1>2, <2>1, ModSmall
  <2>3. taken <=> r < p
    BY <1>1, <1>3, <2>1, <2>2 DEF Filled
  <2>4. q # 0 => M * q >= M
    BY <1>1, <1>2
  <2> QED
    BY <1>1, <1>2, <2>3, <2>4
<1>5. Leaked = IF q = 0 THEN 0 ELSE H * (q - 1) + (IF r < H THEN r ELSE H)
  BY <1>1 DEF Leaked
<1>6. Leaked' = IF (p + 1) \div M = 0 THEN 0
                ELSE H * (((p + 1) \div M) - 1) + (IF (p + 1) % M < H THEN (p + 1) % M ELSE H)
  BY <1>1 DEF Leaked
<1> SUFFICES Leaked' = IF taken /\ ~(r >= H) THEN Leaked + 1 ELSE Leaked
  BY <1>3
<1> HIDE DEF taken
<1>7. CASE r + 1 < M
  <2>1. (p % M) + 1 < M
    BY <1>1, <1>7
  <2>2. (p + 1) % M = (p % M) + 1 /\ (p + 1) \div M = p \div M
    BY <1>1, <1>2, <2>1, ModAddBelow, Zenon
  <2>3. (p + 1) % M = r + 1 /\ (p + 1) \div M = q
    BY <1>1, <2>2
  <2>4. H * (q - 1) \in Int
    BY <1>1, <1>2
  <2> HIDE DEF H, M
  <2> QED
    BY <1>1, <1>2, <1>4, <1>5, <1>6, <2>3, <2>4
<1>8. CASE r + 1 >= M
  <2>1. (p % M) + 1 >= M
    BY <1>1, <1>8
  <2>2. (p + 1) % M = (p % M) + 1 - M /\ (p + 1) \div M = (p \div M) + 1
    BY <1>1, <1>2, <2>1, ModAddAbove, Zenon
  <2>3. (p + 1) % M = 0 /\ (p + 1) \div M = q + 1 /\ r = M - 1
    BY <1>1, <1>2, <1>8, <2>2
  <2>4. H * (q - 1) + H = H * q /\ H * (q - 1) \in Int /\ H * q \in Int /\ H * 0 = 0
    BY <1>1, <1>2
  <2> HIDE DEF H, M
  <2>5. Leaked' = H * q
    <3>1. (p + 1) \div M # 0 /\ ((p + 1) \div M) - 1 = q /\ (p + 1) % M < H
      BY <1>1, <1>2, <2>3
    <3>2. Leaked' = H * q + 0
      BY <1>6, <2>3, <3>1
    <3> QED
      BY <2>4, <3>2
  <2>6. r < H => r + 1 = H
    BY <1>1, <1>2, <2>3
  <2>7. CASE q = 0
    BY <1>1, <1>2, <1>4, <1>5, <2>4, <2>5, <2>7
  <2>8. CASE q # 0
    BY <1>1, <1>2, <1>4, <1>5, <2>4, <2>5, <2>6, <2>8
  <2> QED
    BY <2>7, <2>8
<1> QED
  BY <1>1, <1>2, <1>7, <1>8

\* The history of History and that of the main server are the same operations.
LEMMA SameHistory ==
  /\ Hist!HistIdx = HistIdx /\ Hist!JobIds = JobIds /\ Hist!Final = Final
  /\ Hist!HistoryInit = HistoryInit
  /\ \A h, j : /\ Hist!Knows(h, j) <=> Knows(h, j)
               /\ Hist!AddEntry(h, j) = AddEntry(h, j)
               /\ Hist!MarkUnsubmitted(h, j) = MarkUnsubmitted(h, j)
               /\ \A s, x : Hist!SetState(h, j, s, x) = SetState(h, j, s, x)
<1>1. Hist!HistIdx = HistIdx /\ Hist!JobIds = JobIds /\ Hist!Final = Final
  BY DEF Hist!HistIdx, HistIdx, Hist!JobIds, JobIds, Hist!Final, Final
<1>2. \A S : Hist!Min(S) = Min(S)
  BY DEF Hist!Min, Min
<1>3. \A h, j : Hist!FindJob(h, j) = FindJob(h, j)
  BY <1>1, <1>2 DEF Hist!FindJob, FindJob
<1>4. \A h, j : Hist!Knows(h, j) <=> Knows(h, j)
  BY <1>3 DEF Hist!Knows, Knows
<1> QED
  BY <1>1, <1>3, <1>4
     DEF Hist!HistoryInit, HistoryInit, Hist!AddEntry, AddEntry,
         Hist!MarkUnsubmitted, MarkUnsubmitted, Hist!SetState, SetState

\* A step of the system is a step of History or leaves the history alone.
LEMMA HistoryRefined ==
  Types /\ Links /\ HistoryLink /\ [Next]_vars => [Hist!Next]_(Hist!vars)
<1> SUFFICES ASSUME Types, Links, HistoryLink, [Next]_vars
             PROVE  Hist!Next \/ UNCHANGED Hist!vars
  OBVIOUS
<1>0. UNCHANGED history_putidx => UNCHANGED Leaked
  BY DEF Leaked
<1>1. ASSUME UNCHANGED histVars PROVE UNCHANGED Hist!vars
  BY <1>0, <1>1 DEF histVars, Hist!vars
<1>2. ASSUME NEW t \in Clients, ThreadStep(t), NewJob(t), submits' = submits PROVE Hist!Next
  <2>1. /\ job_array' = AddEntry(job_array, NewId)
        /\ history_putidx' = history_putidx + 1
    BY <1>2 DEF NewJob
  <2>2. history_putidx < MaxSubmits
    BY <1>2, CountRead, ThreadPending DEF HistoryLink, Peers
  <2>3. Leaked' = IF /\ job_array[NewId % JOB_HISTORY_MAX] # NoEntry
                     /\ ~(NewId >= JOB_HISTORY_MAX)
                  THEN Leaked + 1 ELSE Leaked
    BY <2>1, LeakedNew DEF HistoryLink
  <2>4. Hist!NewEntry
    BY <2>1, <2>2, <2>3, SameHistory DEF Hist!NewEntry, Hist!Frees, NewId
  <2> QED
    BY <2>4 DEF Hist!Next
<1>3. ASSUME NEW t \in Peers, ThreadStep(t), submits' = submits
      PROVE  Hist!Next \/ UNCHANGED Hist!vars
  <2>1. ASSUME NEW j \in JobIds, Knows(job_array, j), job_array' = MarkUnsubmitted(job_array, j),
               UNCHANGED history_putidx
        PROVE  Hist!Next
    <3>1. Hist!Mark(j)
      BY <1>0, <2>1, SameHistory DEF Hist!Mark
    <3> QED
      BY <3>1, SameHistory DEF Hist!Next
  <2>2. ASSUME NEW r \in Reports, job_array' = SetState(job_array, r.id, r.state, r.exit),
               UNCHANGED history_putidx
        PROVE  Hist!Next
    <3>1. r.id \in JobIds /\ r.state \in {"RUN"} \cup Final /\ r.exit \in Statuses
      BY DEF Reports
    <3>2. Hist!Report(r.id, r.state, r.exit)
      BY <1>0, <2>2, SameHistory DEF Hist!Report
    <3> QED
      BY <3>1, <3>2, SameHistory DEF Hist!Next
  <2> QED
    BY <1>1, <1>2, <1>3, <2>1, <2>2, ThreadHistory
<1>4. CASE MainStep
  <2>1. submits' = submits
    BY <1>4 DEF MainStep, clientVars
  <2>2. ASSUME NEW t \in Peers, Wakeup(t) PROVE UNCHANGED Hist!vars
    BY <1>1, <2>2 DEF Wakeup
  <2>3. ASSUME Stop PROVE UNCHANGED Hist!vars
    BY <1>1, <2>3 DEF Stop
  <2> QED
    BY <1>3, <1>4, <2>1, <2>2, <2>3 DEF MainStep, MainNext
<1>5. CASE ExecStep \/ ClientStep \/ UNCHANGED vars
  BY <1>1, <1>5 DEF ExecStep, ClientStep, vars, mainVars
<1> QED
  BY <1>4, <1>5 DEF Next

\* Whatever clients and execution servers do, the main server changes its history
\* as History says: what is proved of History holds in the whole system.
THEOREM HistorySpecCorrect == Spec => HistorySpec
<1>1. Init => Hist!Init
  <2>1. 0 \div ID_MOD = 0
    BY HistoryAssumption, ModSmall
  <2>2. Init => history_putidx = 0 /\ job_array = HistoryInit
    BY DEF Init, MainInit
  <2>3. history_putidx = 0 => Leaked = 0
    BY <2>1 DEF Leaked
  <2> QED
    BY <2>2, <2>3, SameHistory DEF Hist!Init
<1>2. Types /\ Links /\ HistoryLink /\ [Next]_vars => [Hist!Next]_(Hist!vars)
  BY HistoryRefined
<1> QED
  BY <1>1, <1>2, TypesCorrect, LinksCorrect, HistoryLinkCorrect, PTL
     DEF Spec, HistorySpec, Hist!Spec

HP == INSTANCE HistoryProofs WITH Exits <- Statuses, MaxJobs <- MaxSubmits, leaked <- Leaked

\* In the whole system too the history is of the latest jobs, whatever clients
\* and execution servers do, and also when the ids have started again.
THEOREM SystemHistoryWindow == Spec => []Hist!HistoryWindow
<1> USE DEF HP!HistIdx, Hist!HistIdx, HP!JobIds, Hist!JobIds, HP!Final, Hist!Final
<1>1. HP!Spec => []HP!HistoryWindow
  <2>1. NoEntry \notin HP!EntryType(Statuses)
    BY ValueAssumption, StatusRange
       DEF EntryType, HP!EntryType, States, HP!States, JobIds, Final
  <2> QED
    BY <2>1, HistoryAssumption, WindowAssumption, HP!HistoryWindowCorrect
<1>2. \A h, j : /\ HP!FindJob(h, j) = Hist!FindJob(h, j)
                /\ HP!Knows(h, j) = Hist!Knows(h, j)
  BY DEF HP!FindJob, Hist!FindJob, HP!Knows, Hist!Knows, HP!Min, Hist!Min
<1>3. Hist!Init => HP!Init
  BY DEF HP!Init, Hist!Init, HP!HistoryInit, Hist!HistoryInit
<1>4. [Hist!Next]_(Hist!vars) => [HP!Next]_(HP!vars)
  BY <1>2 DEF HP!Next, Hist!Next, HP!vars, Hist!vars, HP!NewEntry, Hist!NewEntry,
     HP!Mark, Hist!Mark, HP!Report, Hist!Report, HP!AddEntry, Hist!AddEntry, HP!Frees, Hist!Frees,
     HP!MarkUnsubmitted, Hist!MarkUnsubmitted, HP!SetState, Hist!SetState
<1>5. HP!HistoryWindow => Hist!HistoryWindow
  BY <1>2 DEF HP!HistoryWindow, Hist!HistoryWindow, HP!Certain, Hist!Certain, HP!Oldest, Hist!Oldest,
     HP!Max, Hist!Max, HP!Remainder, Hist!Remainder
<1> QED
  BY <1>1, <1>3, <1>4, <1>5, HistorySpecCorrect, PTL DEF HistorySpec, Hist!Spec, HP!Spec

-----------------------------------------------------------------------------
(***************************************************************************)
(* Jobs from hand to hand, as long as the ids do not start again: a job is *)
(* with the main server, then on its way to an execution server, then      *)
(* gone.                                                                   *)
(***************************************************************************)
\* The job on its way to an execution server: there is one message at most.
Carries(e, j) ==
  toPeer[e] # <<>> /\ Head(toPeer[e]).type \in ES!JobTypes /\ Head(toPeer[e]).id = j

\* A job that an execution server has received, or that is lost.
Gone(j) ==
  /\ j < history_putidx
  /\ \A job \in live : job.id # j
  /\ \A e \in Execs : ~Carries(e, j)

Executes(e, j) == es[e] \in {"dial", "run"} /\ cur[e].id = j

\* There is a report on job j among the messages.
ReportIn(msgs, j) ==
  \E i \in 1 .. Len(msgs) : msgs[i].type \in ReportTypes /\ msgs[i].id = j

\* A job that the main server has was not given to anybody yet ...
HeldOnce ==
  \A job \in live : /\ job.id < history_putidx /\ ran[job.id] = 0
                    /\ \A other \in live : other.id = job.id => other = job
                    /\ \A e \in Execs : ~Carries(e, job.id)

\* ... one that is on its way was given to one execution server ...
CarriedOnce ==
  \A e \in Execs, j \in JobIds :
    Carries(e, j) => /\ j < history_putidx /\ ran[j] = 0
                     /\ \A f \in Execs : Carries(f, j) => f = e

\* ... which starts it once, and reports on it when it is nowhere else any more.
RanOnce == \A j \in JobIds : ran[j] <= 1 /\ (ran[j] # 0 => j < history_putidx)

ReportsOnGone ==
  \A e \in Execs, j \in JobIds : Executes(e, j) \/ ReportIn(toMain[e], j) => Gone(j)

Custody == HeldOnce /\ CarriedOnce /\ RanOnce /\ ReportsOnGone

\* A step by which no job gets into other hands, though one may be dropped.
FlowsOn ==
  /\ live' \subseteq live
  /\ \A e \in Execs, j \in JobIds :
       /\ Carries(e, j)' => Carries(e, j)
       /\ Executes(e, j)' => Executes(e, j)
       /\ ReportIn(toMain'[e], j) => ReportIn(toMain[e], j) \/ Executes(e, j)
  /\ UNCHANGED <<ran, history_putidx>>

\* The same of what execution servers do and report.
NoNewReports ==
  \A e \in Execs, j \in JobIds :
    /\ Executes(e, j)' => Executes(e, j)
    /\ ReportIn(toMain'[e], j) => ReportIn(toMain[e], j)

\* newJob: a job with an id of its own.
NewFlow(job) ==
  /\ job.id = history_putidx /\ history_putidx' = history_putidx + 1
  /\ live' = live \cup {job}
  /\ \A e \in Execs, j \in JobIds : Carries(e, j)' => Carries(e, j)
  /\ NoNewReports
  /\ UNCHANGED ran

\* sendJob: the job is sent and freed.
SendFlow(t, job) ==
  /\ job \in live /\ live' = live \ {job}
  /\ \A e \in Execs, j \in JobIds : Carries(e, j)' => Carries(e, j) \/ (e = t /\ j = job.id)
  /\ NoNewReports
  /\ UNCHANGED <<ran, history_putidx>>

\* execJob: the job is received, and started or not.
RecvFlow(t, id) ==
  /\ Carries(t, id) /\ live' = live
  /\ \A e \in Execs, j \in JobIds :
       /\ Carries(e, j)' => Carries(e, j) /\ e # t
       /\ Executes(e, j)' => Executes(e, j) \/ (e = t /\ j = id)
       /\ ReportIn(toMain'[e], j) => ReportIn(toMain[e], j) \/ (e = t /\ j = id)
  /\ ran' \in {ran, [ran EXCEPT ![id] = @ + 1]}
  /\ UNCHANGED history_putidx

\* A step that drops jobs or nothing keeps every job in one hand ...
LEMMA FlowsOnKeeps ==
  ASSUME Types, Custody, FlowsOn
  PROVE  Custody'
<1>0. live \in SUBSET Jobs /\ \A job \in Jobs : job.id \in JobIds
  BY DEF Types, MainTypes, HeapTypes, Jobs
<1>1. HeldOnce' /\ CarriedOnce' /\ RanOnce'
  BY <1>0 DEF Custody, HeldOnce, CarriedOnce, RanOnce, FlowsOn
<1>2. \A j \in JobIds : Gone(j) => Gone(j)'
  BY DEF Gone, FlowsOn
<1>3. ReportsOnGone'
  BY <1>2 DEF Custody, ReportsOnGone, FlowsOn
<1> QED
  BY <1>1, <1>3 DEF Custody

\* ... and so does newJob, whose id nobody has had ...
LEMMA NewFlowKeeps ==
  ASSUME Types, Custody, NEW job \in Jobs, NewFlow(job)
  PROVE  Custody'
<1>0. /\ live \in SUBSET Jobs /\ \A x \in Jobs : x.id \in JobIds
      /\ JobIds \subseteq Nat /\ history_putidx \in Nat /\ ran \in [JobIds -> Nat]
  BY HistoryAssumption DEF Types, MainTypes, HeapTypes, HistoryTypes, ExecTypes, Jobs, JobIds
<1>1. \A j \in JobIds : j < history_putidx => j < history_putidx' /\ j # job.id
  BY <1>0 DEF NewFlow
<1>2. ran[job.id] = 0 /\ \A e \in Execs : ~Carries(e, job.id)
  <2>1. ~(job.id < history_putidx)
    BY <1>0 DEF NewFlow
  <2> QED
    BY <1>0, <2>1 DEF Custody, CarriedOnce, RanOnce
<1>3. job.id < history_putidx'
  BY <1>0 DEF NewFlow
<1>4. HeldOnce'
  BY <1>0, <1>1, <1>2, <1>3 DEF Custody, HeldOnce, NewFlow
<1>5. CarriedOnce' /\ RanOnce'
  BY <1>1 DEF Custody, CarriedOnce, RanOnce, NewFlow
<1>6. \A j \in JobIds : Gone(j) => Gone(j)'
  BY <1>1 DEF Gone, NewFlow
<1>7. ReportsOnGone'
  BY <1>6 DEF Custody, ReportsOnGone, NewFlow, NoNewReports
<1> QED
  BY <1>4, <1>5, <1>7 DEF Custody

\* ... sendJob, which frees the job that it has sent ...
LEMMA SendFlowKeeps ==
  ASSUME Types, Custody, NEW t \in Execs, NEW job \in Jobs, SendFlow(t, job)
  PROVE  Custody'
<1>0. live \in SUBSET Jobs /\ \A x \in Jobs : x.id \in JobIds
  BY DEF Types, MainTypes, HeapTypes, Jobs
<1>1. /\ job.id < history_putidx /\ ran[job.id] = 0 /\ job.id \in JobIds
      /\ \A x \in live' : x.id # job.id
      /\ \A e \in Execs : ~Carries(e, job.id)
  BY <1>0 DEF Custody, HeldOnce, SendFlow
<1>2. HeldOnce'
  BY <1>0, <1>1 DEF Custody, HeldOnce, SendFlow
<1>3. CarriedOnce'
  BY <1>1 DEF Custody, CarriedOnce, SendFlow
<1>4. RanOnce'
  BY DEF Custody, RanOnce, SendFlow
<1>5. \A j \in JobIds : Gone(j) => Gone(j)'
  BY DEF Gone, SendFlow
<1>6. ReportsOnGone'
  BY <1>5 DEF Custody, ReportsOnGone, SendFlow, NoNewReports
<1> QED
  BY <1>2, <1>3, <1>4, <1>6 DEF Custody

\* ... and execJob, which starts the job that it has received.
LEMMA RecvFlowKeeps ==
  ASSUME Types, Custody, NEW t \in Execs, NEW id \in JobIds, RecvFlow(t, id)
  PROVE  Custody'
<1>0. /\ live \in SUBSET Jobs /\ \A x \in Jobs : x.id \in JobIds
      /\ ran \in [JobIds -> Nat]
  BY DEF Types, MainTypes, HeapTypes, ExecTypes, Jobs
<1>1. /\ id < history_putidx /\ ran[id] = 0
      /\ \A e \in Execs : Carries(e, id) => e = t
  BY DEF Custody, CarriedOnce, RecvFlow
<1>2. \A job \in live : job.id # id
  BY DEF Custody, HeldOnce, RecvFlow
<1>3. \A e \in Execs : ~Carries(e, id)'
  BY <1>1 DEF RecvFlow
<1>4. Gone(id)'
  BY <1>1, <1>2, <1>3 DEF Gone, RecvFlow
<1>5. /\ \A j \in JobIds : j # id => ran'[j] = ran[j]
      /\ ran'[id] \in {0, 1}
  BY <1>0, <1>1 DEF RecvFlow
<1>6. HeldOnce'
  BY <1>0, <1>2, <1>5 DEF Custody, HeldOnce, RecvFlow
<1>7. CarriedOnce'
  BY <1>3, <1>5 DEF Custody, CarriedOnce, RecvFlow
<1>8. RanOnce'
  BY <1>0, <1>1, <1>5 DEF Custody, RanOnce, RecvFlow
<1>9. \A j \in JobIds : Gone(j) => Gone(j)'
  BY DEF Gone, RecvFlow
<1>10. ReportsOnGone'
  BY <1>4, <1>9 DEF Custody, ReportsOnGone, RecvFlow
<1> QED
  BY <1>6, <1>7, <1>8, <1>10 DEF Custody

\* What becomes of the reports among the messages of a queue.
LEMMA ReportQueue ==
  ASSUME NEW S, NEW s \in Seq(S), NEW j
  PROVE  /\ ~ReportIn(<<>>, j)
         /\ s # <<>> /\ ReportIn(Tail(s), j) => ReportIn(s, j)
         /\ \A r \in S : ReportIn(Append(s, r), j) =>
              ReportIn(s, j) \/ (r.type \in ReportTypes /\ r.id = j)
         /\ \A n \in 0 .. Len(s) : ReportIn(SubSeq(s, 1, n), j) => ReportIn(s, j)
<1>0. Len(s) \in Nat
  OBVIOUS
<1>1. ~ReportIn(<<>>, j)
  BY EmptySeq DEF ReportIn
<1>2. ASSUME s # <<>>, ReportIn(Tail(s), j) PROVE ReportIn(s, j)
  <2>1. PICK i \in 1 .. Len(Tail(s)) : Tail(s)[i].type \in ReportTypes /\ Tail(s)[i].id = j
    BY <1>2 DEF ReportIn
  <2>2. i + 1 \in 1 .. Len(s) /\ Tail(s)[i] = s[i + 1]
    BY <1>0, <1>2
  <2> QED
    BY <2>1, <2>2 DEF ReportIn
<1>3. ASSUME NEW r \in S, ReportIn(Append(s, r), j)
      PROVE  ReportIn(s, j) \/ (r.type \in ReportTypes /\ r.id = j)
  BY <1>0, <1>3 DEF ReportIn
<1>4. ASSUME NEW n \in 0 .. Len(s), ReportIn(SubSeq(s, 1, n), j) PROVE ReportIn(s, j)
  <2>1. PICK i \in 1 .. Len(SubSeq(s, 1, n)) :
          SubSeq(s, 1, n)[i].type \in ReportTypes /\ SubSeq(s, 1, n)[i].id = j
    BY <1>4 DEF ReportIn
  <2>2. i \in 1 .. Len(s) /\ SubSeq(s, 1, n)[i] = s[i]
    BY <1>0
  <2> QED
    BY <2>1, <2>2 DEF ReportIn
<1> QED
  BY <1>1, <1>2, <1>3, <1>4

\* The threads of the main server do not report.
LEMMA ThreadReports ==
  ASSUME Types, NEW t \in Peers, ThreadStep(t), es' = es, cur' = cur
  PROVE  NoNewReports
<1> SUFFICES ASSUME NEW e \in Execs, NEW j \in JobIds, ReportIn(toMain'[e], j)
             PROVE  ReportIn(toMain[e], j)
  BY DEF NoNewReports, Executes
<1>0. e \in Peers /\ toMain[e] \in Seq(ExecMessages)
  BY DEF Peers, Types, NetTypes, ToMainType
<1>1. CASE e # t
  BY <1>0, <1>1, ThreadFrame
<1>2. CASE e = t
  BY <1>0, <1>2, ThreadReads, ReportQueue
<1> QED
  BY <1>1, <1>2

\* Only sendJob sends jobs.
LEMMA ThreadCarries ==
  ASSUME Types, Links, NEW t \in Peers, ThreadStep(t), t \in Execs => ~SendJob(t)
  PROVE  \A e \in Execs, j \in JobIds : Carries(e, j)' => Carries(e, j)
<1> SUFFICES ASSUME NEW e \in Execs, NEW j \in JobIds, Carries(e, j)'
             PROVE  Carries(e, j)
  OBVIOUS
<1>0. e \in Peers /\ e \notin Clients
  BY PeerAssumption DEF Peers
<1>1. CASE e # t
  BY <1>0, <1>1, ThreadFrame DEF Carries
<1>2. CASE e = t
  <2>0. /\ toPeer \in [Peers -> Seq(ClientResponses \cup JobMessages)]
        /\ toMain[e] \in Seq(ExecMessages) /\ toPeer[e] \in Seq(JobMessages)
    BY DEF Types, NetTypes, ToMainType, ToPeerType
  <2>1. ASSUME toPeer'[e] = toPeer[e] PROVE Carries(e, j)
    BY <2>1 DEF Carries
  <2>2. ASSUME SendCheck(e) PROVE Carries(e, j)
    <3>1. CASE Reply(e, SetCheckExecServer)
      <4>1. toPeer[e] = <<>>
        BY <2>2 DEF Links, ExecLink, ExecProtocol, SendCheck
      <4>2. toPeer'[e] = IF "peer" \in open[e] THEN Append(toPeer[e], SetCheckExecServer)
                         ELSE toPeer[e]
        BY <1>0, <2>0, <3>1 DEF Reply, Sent
      <4>3. SetCheckExecServer \in JobMessages
        BY DEF JobMessages, SetCheckExecServer
      <4>4. Head(Append(toPeer[e], SetCheckExecServer)) = SetCheckExecServer
        BY <2>0, <4>1, <4>3, ShortQueue
      <4> QED
        BY <4>1, <4>2, <4>4 DEF Carries, SetCheckExecServer, ES!JobTypes
    <3>2. CASE UNCHANGED toPeer
      BY <2>1, <3>2
    <3> QED
      BY <2>2, <3>1, <3>2 DEF SendCheck
  <2>3. ~QueueState(e)
    <3> SUFFICES ASSUME QueueState(e) PROVE FALSE
      OBVIOUS
    <3>1. toMain[e] # <<>> /\ Head(toMain[e]).type = "QUESTATE"
      BY DEF QueueState, Recv, Arrived
    <3>2. Head(toMain[e]) \in ExecMessages
      BY <2>0, <3>1, MessageQueue
    <3> QED
      BY <3>1, <3>2 DEF ExecMessages, Reports
  <2>4. ASSUME Accept(e) \/ Leave(e) \/ Misuse(e) PROVE Carries(e, j)
    BY <2>1, <2>4 DEF Accept, Leave, Misuse, netVars
  <2>5. ASSUME RecvAck(e) \/ NoAck(e) PROVE Carries(e, j)
    BY <2>1, <2>5 DEF RecvAck, NoAck, netVars
  <2>6. ASSUME ExecThread(e) PROVE Carries(e, j)
    BY <2>1, <2>6 DEF ExecThread, JobReq, TakeJob, FinishBack, PutJob, Relink, ChangeStateJob,
       netVars
  <2> QED
    BY <1>0, <1>2, <2>2, <2>3, <2>4, <2>5, <2>6 DEF ThreadStep, ExchangeStep
<1> QED
  BY <1>1, <1>2

\* Only newJob allocates jobs.
LEMMA ThreadHeap ==
  ASSUME NEW t \in Peers, ThreadStep(t), t \in Clients => ~NewJob(t)
  PROVE  live' \subseteq live /\ history_putidx' = history_putidx
<1> USE DEF histVars, mainVars
<1>1. ASSUME Accept(t) \/ Leave(t) \/ QueueState(t) \/ Misuse(t)
      PROVE  live' \subseteq live /\ history_putidx' = history_putidx
  BY <1>1 DEF Accept, Leave, QueueState, Misuse
<1>2. ASSUME ExchangeStep(t) PROVE live' \subseteq live /\ history_putidx' = history_putidx
  BY <1>2 DEF ExchangeStep, SendCheck, RecvAck, NoAck, SendJob
<1>3. ASSUME FinishSubmit(t) \/ JobState(t) \/ Unsubmit(t) \/ RemoveJob(t) \/ MarkJob(t)
      PROVE  live' \subseteq live /\ history_putidx' = history_putidx
  BY <1>3 DEF FinishSubmit, PutJob, JobState, Unsubmit, RemoveJob, MarkJob
<1>4. ASSUME ExecThread(t) PROVE live' \subseteq live /\ history_putidx' = history_putidx
  BY <1>4 DEF ExecThread, JobReq, TakeJob, FinishBack, PutJob, Relink, ChangeStateJob
<1> QED
  BY <1>1, <1>2, <1>3, <1>4 DEF ThreadStep, ClientThread

\* What a thread of the main server does with the jobs.
LEMMA ThreadFlow ==
  ASSUME Types, Links, SubmitsCounted, MaxSubmits <= ID_MOD,
         NEW t \in Peers, ThreadStep(t), UNCHANGED <<execVars, submits>>
  PROVE  \/ FlowsOn
         \/ \E job \in Jobs : NewFlow(job)
         \/ t \in Execs /\ \E job \in Jobs : SendFlow(t, job)
<1>0. NoNewReports /\ ran' = ran
  BY ThreadReports DEF execVars
<1>1. ASSUME t \in Clients, NewJob(t) PROVE \E job \in Jobs : NewFlow(job)
  <2> DEFINE msg == Head(toMain[t])
             job == [id |-> NewId, port |-> IF msg.type = "SUB_INTERACTIVE" THEN msg.port
                                            ELSE NoAddr]
  <2>1. /\ live' = live \cup {job} /\ history_putidx' = history_putidx + 1
        /\ toMain[t] # <<>>
    BY <1>1 DEF NewJob, Recv, Arrived
  <2>2. NewId = history_putidx /\ NewId \in JobIds
    <3>1. history_putidx \in Nat /\ history_putidx < MaxSubmits /\ MaxSubmits \in Nat
      BY <1>1, CountRead, ThreadPending, PeerAssumption DEF Types, MainTypes, HistoryTypes
    <3>2. history_putidx \in 0 .. ID_MOD - 1
      BY <3>1, HistoryAssumption
    <3> QED
      BY <3>2, HistoryAssumption, ModSmall DEF NewId, JobIds
  <2>3. msg \in ClientRequests
    <3>1. toMain[t] \in Seq(ClientRequests)
      BY <1>1 DEF Types, NetTypes, ToMainType
    <3> QED
      BY <2>1, <3>1, MessageQueue
  <2>4. job \in Jobs
    BY <2>2, <2>3 DEF ClientRequests, Jobs
  <2>5. ~(t \in Execs)
    BY <1>1, PeerAssumption
  <2>6. \A e \in Execs, j \in JobIds : Carries(e, j)' => Carries(e, j)
    BY <2>5, ThreadCarries
  <2>7. job.id = history_putidx
    BY <2>2
  <2>8. NewFlow(job)
    BY <1>0, <2>1, <2>6, <2>7 DEF NewFlow
  <2> QED
    BY <2>4, <2>8
<1>2. ASSUME t \in Execs => ~SendJob(t), t \in Clients => ~NewJob(t) PROVE FlowsOn
  BY <1>0, <1>2, ThreadHeap, ThreadCarries DEF FlowsOn, NoNewReports
<1>3. ASSUME t \in Execs, SendJob(t)
      PROVE  FlowsOn \/ \E job \in Jobs : SendFlow(t, job)
  <2>0. /\ toPeer \in [Peers -> Seq(ClientResponses \cup JobMessages)]
        /\ toPeer[t] \in Seq(JobMessages) /\ live \in SUBSET Jobs
    BY <1>3 DEF Types, NetTypes, ToPeerType, MainTypes, HeapTypes
  <2>1. history_putidx' = history_putidx
    BY <1>3 DEF SendJob, histVars
  <2>2. ASSUME UNCHANGED <<toPeer, live>> PROVE FlowsOn
    BY <1>0, <2>1, <2>2 DEF FlowsOn, NoNewReports, Carries
  <2>3. ASSUME held[t] \in live, live' = live \ {held[t]},
               Reply(t, IF held[t].port = NoAddr
                        THEN SetFileExecNoInter(held[t].id)
                        ELSE SetFileExecInter(held[t].id, held[t].port))
        PROVE  SendFlow(t, held[t])
    <3> DEFINE r == IF held[t].port = NoAddr THEN SetFileExecNoInter(held[t].id)
                    ELSE SetFileExecInter(held[t].id, held[t].port)
    <3>1. r \in JobMessages /\ r.id = held[t].id
      <4>1. held[t] \in Jobs
        BY <2>0, <2>3
      <4> QED
        BY <4>1 DEF Jobs, JobMessages, SetFileExecNoInter, SetFileExecInter
    <3>2. toPeer[t] = <<>>
      BY <1>3 DEF Links, ExecLink, ExecProtocol, SendJob
    <3>3. toPeer'[t] = IF "peer" \in open[t] THEN Append(toPeer[t], r) ELSE toPeer[t]
      BY <2>0, <2>3 DEF Reply, Sent
    <3> HIDE DEF r
    <3>4. Head(Append(toPeer[t], r)) = r
      BY <2>0, <3>1, <3>2, ShortQueue
    <3>5. ASSUME NEW e \in Execs, NEW j \in JobIds, Carries(e, j)'
          PROVE  Carries(e, j) \/ (e = t /\ j = held[t].id)
      <4>1. CASE e # t
        BY <3>5, <4>1, ThreadFrame DEF Carries, Peers
      <4>2. CASE e = t
        BY <3>1, <3>2, <3>3, <3>4, <3>5, <4>2 DEF Carries
      <4> QED
        BY <4>1, <4>2
    <3> QED
      BY <1>0, <2>1, <2>3, <3>5 DEF SendFlow
  <2> QED
    BY <1>3, <2>0, <2>2, <2>3 DEF SendJob
<1> QED
  BY <1>1, <1>2, <1>3

\* What an execution server does with the jobs.
LEMMA ExecFlow ==
  ASSUME Types, Links, NEW e \in Execs,
         \/ ES!ExecStep(e) \/ ES!Start(e) \/ ES!JobRequest(e)
         \/ ES!CloseConnecMain(e) \/ ES!Crash(e),
         UNCHANGED <<live, history_putidx>>
  PROVE  FlowsOn \/ \E id \in JobIds : RecvFlow(e, id)
<1>0. /\ e \in Peers /\ toMain[e] \in Seq(ExecMessages) /\ toPeer[e] \in Seq(JobMessages)
      /\ toMain \in [Peers -> Seq(ClientRequests \cup ExecMessages)]
      /\ toPeer \in [Peers -> Seq(ClientResponses \cup JobMessages)]
      /\ es \in [Execs -> {"off", "prompt", "wait", "sleep", "dial", "run"}]
      /\ cur \in [Execs -> Jobs] /\ ran \in [JobIds -> Nat]
  BY DEF Peers, Types, NetTypes, ToMainType, ToPeerType, ExecTypes
<1>1. Len(toPeer[e]) <= 1
  BY DEF Links, ExecLink, ExecProtocol
<1>2. ASSUME toPeer[e] # <<>> PROVE Tail(toPeer[e]) = <<>>
  BY <1>0, <1>1, <1>2, ShortQueue
<1>3. \A f \in Execs, j \in JobIds :
        f # e => /\ Carries(f, j)' <=> Carries(f, j)
                 /\ ReportIn(toMain'[f], j) <=> ReportIn(toMain[f], j)
  <2> SUFFICES ASSUME NEW f \in Execs, NEW j \in JobIds, f # e
               PROVE  /\ Carries(f, j)' <=> Carries(f, j)
                      /\ ReportIn(toMain'[f], j) <=> ReportIn(toMain[f], j)
    OBVIOUS
  <2>1. toPeer'[f] = toPeer[f] /\ toMain'[f] = toMain[f]
    BY ExecFrame DEF Peers
  <2> QED
    BY <2>1 DEF Carries
\* The step of a server that receives no job.
<1>4. ASSUME toPeer'[e] \in {toPeer[e], <<>>}, ran' = ran,
             \A f \in Execs, j \in JobIds : Executes(f, j)' => Executes(f, j),
             \A j \in JobIds : ReportIn(toMain'[e], j) => ReportIn(toMain[e], j) \/ Executes(e, j)
      PROVE  FlowsOn
  <2>1. \A j \in JobIds : Carries(e, j)' => Carries(e, j)
    BY <1>4 DEF Carries
  <2> QED
    BY <1>3, <1>4, <2>1 DEF FlowsOn
<1>5. ASSUME NEW r \in ExecMessages, NEW j \in JobIds, ReportIn(toMain'[e], j),
             toMain' = IF "main" \in open[e] THEN [toMain EXCEPT ![e] = Append(@, r)] ELSE toMain
      PROVE  ReportIn(toMain[e], j) \/ (r.type \in ReportTypes /\ r.id = j)
  <2>1. toMain'[e] \in {toMain[e], Append(toMain[e], r)}
    BY <1>0, <1>5
  <2> QED
    BY <1>0, <1>5, <2>1, ReportQueue
<1>6. ASSUME NEW stage \in {"off", "prompt", "wait", "sleep"}, ES!Become(e, stage),
             \A f \in Execs : f # e => cur'[f] = cur[f]
      PROVE  \A f \in Execs, j \in JobIds : Executes(f, j)' => Executes(f, j)
  BY <1>0, <1>6 DEF ES!Become, Executes
<1>a. \A j \in JobIds :
        /\ ES!SetJobRun(j) \in ExecMessages /\ ES!SetJobRun(j).id = j
        /\ \A status \in Statuses :
             /\ ES!SetJobDone(j, status) \in ExecMessages /\ ES!SetJobDone(j, status).id = j
             /\ ES!SetJobSignaled(j, status) \in ExecMessages
             /\ ES!SetJobSignaled(j, status).id = j
  BY ExecMessageTypes DEF ES!SetJobRun, ES!SetJobDone, ES!SetJobSignaled
<1>b. /\ 0 \in Statuses /\ ES!ForkFailed \in Statuses
      /\ ES!ChildStatuses \subseteq Statuses /\ Signals \subseteq Statuses
  BY DEF Statuses, ES!ForkFailed, ForkFailed, ES!ChildStatuses, ES!ExecFailed, ExecFailed
<1>7. ASSUME ES!Start(e) PROVE FlowsOn
  <2>1. toPeer'[e] = <<>> /\ toMain'[e] = <<>> /\ UNCHANGED <<cur, ran>>
    BY <1>0, <1>7 DEF ES!Start, ES!Connect
  <2>2. \A j \in JobIds : ~ReportIn(toMain'[e], j)
    BY <1>0, <2>1, ReportQueue
  <2>3. ES!Become(e, "prompt")
    BY <1>7 DEF ES!Start
  <2> QED
    BY <1>4, <1>6, <2>1, <2>2, <2>3
<1>8. ASSUME ES!JobRequest(e) \/ ES!SendAck(e) \/ ES!CloseConnecMain(e) PROVE FlowsOn
  <2>1. PICK r \in ExecMessages : r.type \notin ReportTypes /\ ES!Tell(e, r)
    BY <1>8 DEF ES!JobRequest, ES!SendAck, ES!CloseConnecMain, ExecMessages, ReportTypes,
       ES!SetJobReq, ES!SetCheckExecServerAck, ES!SetClosedConnection_ExecServer
  <2>2. toPeer'[e] \in {toPeer[e], <<>>} /\ UNCHANGED <<cur, ran>>
    BY <1>0, <1>8 DEF ES!JobRequest, ES!SendAck, ES!CloseConnecMain, ES!Disconnect
  <2>3. \E stage \in {"off", "wait"} : ES!Become(e, stage)
    BY <1>8 DEF ES!JobRequest, ES!SendAck, ES!CloseConnecMain, ES!Disconnect
  <2>4. \A j \in JobIds : ReportIn(toMain'[e], j) => ReportIn(toMain[e], j)
    BY <1>5, <2>1 DEF ES!Tell, ES!Sent
  <2> QED
    BY <1>4, <1>6, <2>2, <2>3, <2>4
<1>9. ASSUME ES!RecvCheck(e) \/ ES!LoseMain(e) PROVE FlowsOn
  <2>1. UNCHANGED <<toMain, cur, ran>>
    BY <1>9 DEF ES!RecvCheck, ES!LoseMain
  <2>2. \E stage \in {"off", "sleep"} : ES!Become(e, stage)
    BY <1>9 DEF ES!RecvCheck, ES!LoseMain, ES!Disconnect
  <2>3. toPeer'[e] = <<>>
    BY <1>0, <1>2, <1>9 DEF ES!RecvCheck, ES!LoseMain, ES!Disconnect, ES!Received, ES!Arrived
  <2> QED
    BY <1>4, <1>6, <2>1, <2>2, <2>3
<1>10. ASSUME ES!Crash(e) PROVE FlowsOn
  <2>1. ran' = ran /\ ES!Become(e, "off") /\ toPeer'[e] = <<>>
    BY <1>0, <1>10 DEF ES!Crash, ES!Disconnect
  <2>2. \A f \in Execs : f # e => cur'[f] = cur[f]
    BY <1>0, <1>10 DEF ES!Crash
  <2>3. PICK n \in 0 .. Len(toMain[e]) : toMain'[e] = SubSeq(toMain[e], 1, n)
    BY <1>0, <1>10 DEF ES!Crash
  <2>4. \A j \in JobIds : ReportIn(toMain'[e], j) => ReportIn(toMain[e], j)
    BY <1>0, <2>3, ReportQueue
  <2> QED
    BY <1>4, <1>6, <2>1, <2>2, <2>4
<1>11. ASSUME ES!ReportJob(e) PROVE FlowsOn
  <2>0. cur[e] \in Jobs /\ cur[e].id \in JobIds
    BY <1>0 DEF Jobs
  <2>1. PICK r \in ExecMessages : r.id = cur[e].id /\ ES!Tell(e, r)
    BY <1>11, <1>a, <1>b, <2>0 DEF ES!ReportJob
  <2>2. toPeer'[e] = toPeer[e] /\ ran' = ran /\ ES!Become(e, "prompt") /\ es[e] = "run"
    BY <1>11 DEF ES!ReportJob
  <2>3. \A f \in Execs : f # e => cur'[f] = cur[f]
    BY <1>0, <1>11 DEF ES!ReportJob
  <2>4. \A j \in JobIds : ReportIn(toMain'[e], j) => ReportIn(toMain[e], j) \/ Executes(e, j)
    BY <1>5, <2>1, <2>2 DEF ES!Tell, ES!Sent, Executes
  <2> QED
    BY <1>4, <1>6, <2>2, <2>3, <2>4
<1>12. ASSUME ES!Dial(e) PROVE FlowsOn
  <2>0. cur[e] \in Jobs /\ cur[e].id \in JobIds
    BY <1>0 DEF Jobs
  <2>1. toPeer'[e] = toPeer[e] /\ ran' = ran /\ es[e] = "dial"
    BY <1>12 DEF ES!Dial
  <2>2. CASE UNCHANGED toMain /\ ES!Become(e, "run")
             /\ (cur' = cur \/ cur' = [cur EXCEPT ![e].port = NoAddr])
    <3>1. \A f \in Execs : cur'[f].id = cur[f].id
      <4>1. [cur[e] EXCEPT !.port = NoAddr].id = cur[e].id
        BY <2>0 DEF Jobs
      <4>2. \/ cur' = cur
            \/ cur' = [cur EXCEPT ![e] = [cur[e] EXCEPT !.port = NoAddr]]
        BY <2>2
      <4> QED
        BY <1>0, <4>1, <4>2
    <3>2. \A f \in Execs : f # e => es'[f] = es[f]
      BY <1>0, <2>2 DEF ES!Become
    <3>3. \A f \in Execs, j \in JobIds : Executes(f, j)' => Executes(f, j)
      BY <2>1, <3>1, <3>2 DEF Executes
    <3> QED
      BY <1>4, <2>1, <2>2, <3>3
  <2>3. CASE /\ ES!Tell(e, ES!SetJobDone(cur[e].id, 0)) /\ ES!Become(e, "prompt")
             /\ cur' = [cur EXCEPT ![e] = ES!Idle]
    <3>1. /\ ES!SetJobDone(cur[e].id, 0) \in ExecMessages
          /\ ES!SetJobDone(cur[e].id, 0).id = cur[e].id
      BY <1>a, <1>b, <2>0
    <3>2. \A f \in Execs : f # e => cur'[f] = cur[f]
      BY <1>0, <2>3
    <3>3. \A j \in JobIds : ReportIn(toMain'[e], j) => ReportIn(toMain[e], j) \/ Executes(e, j)
      BY <1>5, <2>1, <2>3, <3>1 DEF ES!Tell, ES!Sent, Executes
    <3> QED
      BY <1>4, <1>6, <2>1, <2>3, <3>2, <3>3
  <2> QED
    BY <1>12, <2>2, <2>3 DEF ES!Dial
<1>13. ASSUME ES!RecvJob(e) PROVE \E id \in JobIds : RecvFlow(e, id)
  <2> DEFINE msg == Head(toPeer[e])
  <2>1. /\ toPeer[e] # <<>> /\ msg \in JobMessages /\ msg.type \in ES!JobTypes
        /\ toPeer'[e] = Tail(toPeer[e])
    BY <1>0, <1>13, MessageQueue DEF ES!RecvJob, ES!Arrived, ES!Received
  <2>2. msg.id \in JobIds /\ Carries(e, msg.id)
    BY <2>1 DEF JobMessages, ES!JobTypes, Carries
  <2>3. PICK r \in ExecMessages : r.id = msg.id /\ ES!Tell(e, r)
    BY <1>13, <1>a, <1>b, <2>2 DEF ES!RecvJob
  <2>4. \A f \in Execs, j \in JobIds : Executes(f, j)' => Executes(f, j) \/ (f = e /\ j = msg.id)
    BY <1>0, <1>13 DEF ES!RecvJob, ES!Become, Executes
  <2>5. ran' \in {ran, [ran EXCEPT ![msg.id] = @ + 1]}
    BY <1>13 DEF ES!RecvJob
  <2> HIDE DEF msg
  <2>6. \A j \in JobIds : ReportIn(toMain'[e], j) => ReportIn(toMain[e], j) \/ j = msg.id
    BY <1>5, <2>3 DEF ES!Tell, ES!Sent
  <2>7. \A j \in JobIds : ~Carries(e, j)'
    BY <1>2, <2>1 DEF Carries
  <2> QED
    BY <1>3, <2>2, <2>4, <2>5, <2>6, <2>7 DEF RecvFlow
<1> QED
  BY <1>7, <1>8, <1>9, <1>10, <1>11, <1>12, <1>13 DEF ES!ExecStep

\* As long as the ids do not start again, every step of the system keeps every
\* job in one hand.
LEMMA CustodyStep ==
  ASSUME MaxSubmits <= ID_MOD
  PROVE  Types /\ Links /\ HistoryLink /\ Custody /\ [Next]_vars => Custody'
<1> SUFFICES ASSUME Types, Links, HistoryLink, Custody, [Next]_vars PROVE Custody'
  OBVIOUS
<1>1. ASSUME UNCHANGED <<execVars, history_putidx>>, live' \subseteq live,
             \A e \in Execs : toMain'[e] = toMain[e] /\ toPeer'[e] = toPeer[e]
      PROVE  Custody'
  <2>1. FlowsOn
    BY <1>1 DEF FlowsOn, execVars, Carries, Executes
  <2> QED
    BY <2>1, FlowsOnKeeps
<1>2. CASE MainStep
  <2>1. UNCHANGED <<execVars, submits>>
    BY <1>2 DEF MainStep, clientVars
  <2>2. ASSUME NEW t \in Peers, ThreadStep(t) PROVE Custody'
    BY <2>1, <2>2, ThreadFlow, FlowsOnKeeps, NewFlowKeeps, SendFlowKeeps DEF HistoryLink
  <2>3. ASSUME NEW t \in Peers, Wakeup(t) PROVE Custody'
    BY <1>1, <2>1, <2>3 DEF Wakeup, netVars, histVars
  <2>4. ASSUME Stop PROVE Custody'
    BY <1>1, <2>1, <2>4 DEF Stop, netVars, histVars
  <2> QED
    BY <1>2, <2>2, <2>3, <2>4 DEF MainStep, MainNext
<1>3. CASE ExecStep
  <2>1. UNCHANGED <<live, history_putidx>>
    BY <1>3 DEF ExecStep, mainVars, histVars
  <2>2. PICK e \in Execs : \/ ES!ExecStep(e) \/ ES!Start(e) \/ ES!JobRequest(e)
                           \/ ES!CloseConnecMain(e) \/ ES!Crash(e)
    BY <1>3 DEF ExecStep, ES!ExecNext
  <2> QED
    BY <2>1, <2>2, ExecFlow, FlowsOnKeeps, RecvFlowKeeps
<1>4. CASE ClientStep
  <2>1. UNCHANGED <<execVars, live, history_putidx>>
    BY <1>4 DEF ClientStep, mainVars, histVars
  <2>2. PICK c \in Clients : ClientActs(c)
    BY <1>4 DEF ClientStep, CL!ClientNext, ClientActs
  <2>3. ASSUME NEW e \in Execs PROVE toMain'[e] = toMain[e] /\ toPeer'[e] = toPeer[e]
    <3>1. e \in Peers /\ e # c
      BY PeerAssumption DEF Peers
    <3> QED
      BY <2>2, <3>1, ClientFrame
  <2> QED
    BY <1>1, <2>1, <2>3
<1>5. CASE UNCHANGED vars
  BY <1>1, <1>5 DEF vars, netVars, mainVars, histVars
<1> QED
  BY <1>2, <1>3, <1>4, <1>5 DEF Next

\* Initially there are no jobs.
LEMMA CustodyInit == Init => Custody
<1> SUFFICES ASSUME Init PROVE Custody
  OBVIOUS
<1>1. /\ live = {} /\ history_putidx = 0
      /\ \A e \in Execs : toMain[e] = <<>> /\ toPeer[e] = <<>> /\ es[e] = "off"
      /\ \A j \in JobIds : ran[j] = 0
  BY DEF Init, NetInit, MainInit, ES!ExecInit, Peers
<1>2. \A j : ~ReportIn(<<>>, j)
  BY EmptySeq DEF ReportIn
<1> QED
  BY <1>1, <1>2 DEF Custody, HeldOnce, CarriedOnce, RanOnce, ReportsOnGone, Carries, Executes

\* Every job is always in one hand.
LEMMA CustodyCorrect ==
  ASSUME MaxSubmits <= ID_MOD
  PROVE  Spec => []Custody
<1>1. Init => Custody
  BY CustodyInit
<1>2. Types /\ Links /\ HistoryLink /\ Custody /\ [Next]_vars => Custody'
  BY CustodyStep
<1> QED
  BY <1>1, <1>2, TypesCorrect, LinksCorrect, HistoryLinkCorrect, PTL DEF Spec

\* No job is started twice, and none that the main server still has was ever
\* started, for any number of clients and execution servers and through any
\* crashes, timeouts, put-backs, removals and evictions, as long as the ids do
\* not start again.
THEOREM StartedOnceCorrect ==
  ASSUME MaxSubmits <= ID_MOD
  PROVE  Spec => []StartedOnce
<1>1. Custody => StartedOnce
  BY DEF Custody, HeldOnce, RanOnce, StartedOnce
<1> QED
  BY <1>1, CustodyCorrect, PTL

-----------------------------------------------------------------------------
(***************************************************************************)
(* The places of a job in the main server.  It is the argument of a call   *)
(* of putJob (arg), it is in the queue, or a thread has it in hand.        *)
(***************************************************************************)
Pointers == Jobs \cup {NoJob}

\* The jobs that the threads of execution servers have in hand.
InHand == [e \in Execs |-> IF at[e] \in {"check", "select", "send"} THEN held[e] ELSE NoJob]

\* No id is in two places: of arguments a, n jobs in the queue s, jobs in hand h.
Apart(a, n, s, h) ==
  /\ \A t, u \in Peers : a[t] # NoJob /\ a[u] # NoJob /\ a[t].id = a[u].id => t = u
  /\ \A k, l \in 1 .. n : s[k].id = s[l].id => k = l
  /\ \A e, f \in Execs : h[e] # NoJob /\ h[f] # NoJob /\ h[e].id = h[f].id => e = f
  /\ \A t \in Peers, k \in 1 .. n : a[t] # NoJob => a[t].id # s[k].id
  /\ \A t \in Peers, e \in Execs : a[t] # NoJob /\ h[e] # NoJob => a[t].id # h[e].id
  /\ \A k \in 1 .. n, e \in Execs : h[e] # NoJob => s[k].id # h[e].id

\* Well-formed places.
Orderly(a, n, s, h) ==
  /\ a \in [Peers -> Pointers] /\ h \in [Execs -> Pointers]
  /\ n \in Nat /\ \A k \in 1 .. n : s[k] \in Jobs
  /\ Apart(a, n, s, h)

\* The jobs that are in some place.
Placed(a, n, s, h) ==
  {job \in Jobs : \/ \E t \in Peers : a[t] = job
                  \/ \E k \in 1 .. n : s[k] = job
                  \/ \E e \in Execs : h[e] = job}

\* Function g is f with the value v at x.
Becomes(f, g, S, x, v) == g[x] = v /\ \A y \in S : y # x => g[y] = f[y]

\* No job in any place has the id of this one.
Unplaced(job, a, n, s, h) == \A x \in Placed(a, n, s, h) : x.id # job.id

\* newJob: a job with an id of its own becomes the argument of putJob ...
LEMMA PlaceNew ==
  ASSUME NEW a, NEW n, NEW s, NEW h, Orderly(a, n, s, h),
         NEW t \in Peers, a[t] = NoJob, NEW job \in Jobs,
         Unplaced(job, a, n, s, h), NEW b, Becomes(a, b, Peers, t, job)
  PROVE  /\ Apart(b, n, s, h)
         /\ Placed(b, n, s, h) = Placed(a, n, s, h) \cup {job}
<1>0. /\ a \in [Peers -> Pointers] /\ h \in [Execs -> Pointers]
      /\ n \in Nat /\ \A x \in 1 .. n : s[x] \in Jobs
      /\ Apart(a, n, s, h)
  BY DEF Orderly
<1> USE <1>0
<1>1. b[t] = job /\ \A u \in Peers : u # t => b[u] = a[u]
  BY DEF Becomes
<1>2. NoJob \notin Jobs
  BY MainAssumption
<1>3. /\ \A u \in Peers : a[u] # NoJob => a[u].id # job.id
      /\ \A k \in 1 .. n : s[k].id # job.id
      /\ \A e \in Execs : h[e] # NoJob => h[e].id # job.id
  BY <1>2 DEF Unplaced, Placed, Pointers
<1>4. Apart(b, n, s, h)
  BY <1>1, <1>3 DEF Apart
<1>5. Placed(b, n, s, h) = Placed(a, n, s, h) \cup {job}
  <2> SUFFICES ASSUME NEW x \in Jobs
               PROVE  (\E u \in Peers : b[u] = x) <=> (\E u \in Peers : a[u] = x) \/ x = job
    BY DEF Placed
  <2> QED
    BY <1>1, <1>2
<1> QED
  BY <1>4, <1>5

\* ... putJob puts it into the queue ...
LEMMA PlacePut ==
  ASSUME NEW a, NEW n, NEW s, NEW h, Orderly(a, n, s, h),
         NEW t \in Peers, a[t] # NoJob,
         NEW r, \A k \in 1 .. n : r[k] = s[k], r[n + 1] = a[t],
         NEW b, Becomes(a, b, Peers, t, NoJob)
  PROVE  /\ Apart(b, n + 1, r, h)
         /\ Placed(b, n + 1, r, h) = Placed(a, n, s, h)
<1>0. /\ a \in [Peers -> Pointers] /\ h \in [Execs -> Pointers]
      /\ n \in Nat /\ \A x \in 1 .. n : s[x] \in Jobs
      /\ Apart(a, n, s, h)
  BY DEF Orderly
<1> USE <1>0
<1>1. b[t] = NoJob /\ \A u \in Peers : u # t => b[u] = a[u]
  BY DEF Becomes
<1>2. NoJob \notin Jobs
  BY MainAssumption
<1>3. ASSUME NEW k \in 1 .. n + 1
      PROVE  (k \in 1 .. n /\ r[k] = s[k]) \/ (k = n + 1 /\ r[k] = a[t])
  <2>1. k \in 1 .. n \/ k = n + 1
    OBVIOUS
  <2> QED
    BY <2>1
<1>4. n + 1 \in 1 .. n + 1 /\ \A k \in 1 .. n : k \in 1 .. n + 1
  OBVIOUS
<1>5. Apart(b, n + 1, r, h)
  BY <1>1, <1>3 DEF Apart
<1>6. Placed(b, n + 1, r, h) = Placed(a, n, s, h)
  <2> SUFFICES ASSUME NEW x \in Jobs
               PROVE  (\E u \in Peers : b[u] = x) \/ (\E k \in 1 .. n + 1 : r[k] = x)
                        <=> (\E u \in Peers : a[u] = x) \/ (\E k \in 1 .. n : s[k] = x)
    BY DEF Placed
  <2>1. ASSUME NEW u \in Peers, b[u] = x PROVE \E v \in Peers : a[v] = x
    BY <1>1, <1>2, <2>1
  <2>2. ASSUME NEW k \in 1 .. n + 1, r[k] = x
        PROVE  (\E u \in Peers : a[u] = x) \/ (\E l \in 1 .. n : s[l] = x)
    BY <1>3, <2>2
  <2>3. ASSUME NEW u \in Peers, a[u] = x
        PROVE  (\E v \in Peers : b[v] = x) \/ (\E k \in 1 .. n + 1 : r[k] = x)
    BY <1>1, <1>4, <2>3
  <2>4. ASSUME NEW k \in 1 .. n, s[k] = x PROVE \E l \in 1 .. n + 1 : r[l] = x
    BY <1>4, <2>4
  <2> QED
    BY <2>1, <2>2, <2>3, <2>4
<1> QED
  BY <1>5, <1>6

\* ... sendJob takes the oldest one ...
LEMMA PlaceTake ==
  ASSUME NEW a, NEW n, NEW s, NEW h, Orderly(a, n, s, h), n # 0,
         NEW e \in Execs, h[e] = NoJob,
         NEW r, \A k \in 1 .. n - 1 : r[k] = s[k + 1],
         NEW old, old = s[1], NEW g, Becomes(h, g, Execs, e, old)
  PROVE  /\ Apart(a, n - 1, r, g)
         /\ Placed(a, n - 1, r, g) = Placed(a, n, s, h)
<1>0. /\ a \in [Peers -> Pointers] /\ h \in [Execs -> Pointers]
      /\ n \in Nat /\ \A x \in 1 .. n : s[x] \in Jobs
      /\ Apart(a, n, s, h)
  BY DEF Orderly
<1> USE <1>0
<1>1. g[e] = s[1] /\ \A f \in Execs : f # e => g[f] = h[f]
  BY DEF Becomes
<1>2. NoJob \notin Jobs
  BY MainAssumption
<1>3. /\ \A k \in 1 .. n - 1 : k + 1 \in 1 .. n /\ k + 1 # 1 /\ r[k] = s[k + 1]
      /\ \A k \in 1 .. n : k # 1 => k - 1 \in 1 .. n - 1 /\ s[k] = r[k - 1]
      /\ 1 \in 1 .. n
  <2>1. ASSUME NEW k \in 1 .. n, k # 1 PROVE k - 1 \in 1 .. n - 1 /\ s[k] = r[k - 1]
    <3>1. k - 1 \in 1 .. n - 1 /\ (k - 1) + 1 = k
      BY <2>1
    <3> QED
      BY <3>1
  <2> QED
    BY <2>1
<1>4. \A k, l \in 1 .. n - 1 : k + 1 = l + 1 => k = l
  OBVIOUS
<1>5. Apart(a, n - 1, r, g)
  <2>1. \A k, l \in 1 .. n - 1 : r[k].id = r[l].id => k = l
    BY <1>3, <1>4 DEF Apart
  <2>2. \A k \in 1 .. n - 1 : r[k].id # s[1].id
    BY <1>3 DEF Apart
  <2> QED
    BY <1>1, <1>3, <2>1, <2>2 DEF Apart
<1>6. Placed(a, n - 1, r, g) = Placed(a, n, s, h)
  <2> SUFFICES ASSUME NEW x \in Jobs
               PROVE  (\E k \in 1 .. n - 1 : r[k] = x) \/ (\E f \in Execs : g[f] = x)
                        <=> (\E k \in 1 .. n : s[k] = x) \/ (\E f \in Execs : h[f] = x)
    BY DEF Placed
  <2>1. ASSUME NEW k \in 1 .. n - 1, r[k] = x PROVE \E l \in 1 .. n : s[l] = x
    BY <1>3, <2>1
  <2>2. ASSUME NEW f \in Execs, g[f] = x
        PROVE  (\E k \in 1 .. n : s[k] = x) \/ (\E d \in Execs : h[d] = x)
    BY <1>1, <1>3, <2>2
  <2>3. ASSUME NEW k \in 1 .. n, s[k] = x
        PROVE  (\E l \in 1 .. n - 1 : r[l] = x) \/ (\E f \in Execs : g[f] = x)
    BY <1>1, <1>3, <2>3
  <2>4. ASSUME NEW f \in Execs, h[f] = x PROVE \E d \in Execs : g[d] = x
    BY <1>1, <1>2, <2>4
  <2> QED
    BY <2>1, <2>2, <2>3, <2>4
<1> QED
  BY <1>5, <1>6

\* ... putJobBack calls putJob with it again ...
LEMMA PlaceBack ==
  ASSUME NEW a, NEW n, NEW s, NEW h, Orderly(a, n, s, h),
         NEW e \in Execs, h[e] # NoJob, a[e] = NoJob,
         NEW b, Becomes(a, b, Peers, e, h[e]), NEW g, Becomes(h, g, Execs, e, NoJob)
  PROVE  /\ Apart(b, n, s, g)
         /\ Placed(b, n, s, g) = Placed(a, n, s, h)
<1>0. /\ a \in [Peers -> Pointers] /\ h \in [Execs -> Pointers]
      /\ n \in Nat /\ \A x \in 1 .. n : s[x] \in Jobs
      /\ Apart(a, n, s, h)
  BY DEF Orderly
<1> USE <1>0
<1>1. /\ e \in Peers /\ b[e] = h[e] /\ \A u \in Peers : u # e => b[u] = a[u]
      /\ g[e] = NoJob /\ \A f \in Execs : f # e => g[f] = h[f]
  BY DEF Peers, Becomes
<1>2. NoJob \notin Jobs
  BY MainAssumption
<1>3. Apart(b, n, s, g)
  BY <1>1 DEF Apart
<1>4. Placed(b, n, s, g) = Placed(a, n, s, h)
  <2> SUFFICES ASSUME NEW x \in Jobs
               PROVE  (\E u \in Peers : b[u] = x) \/ (\E f \in Execs : g[f] = x)
                        <=> (\E u \in Peers : a[u] = x) \/ (\E f \in Execs : h[f] = x)
    BY DEF Placed
  <2> QED
    BY <1>1, <1>2
<1> QED
  BY <1>3, <1>4

\* ... or sendJob sends it and frees it.
LEMMA PlaceSend ==
  ASSUME NEW a, NEW n, NEW s, NEW h, Orderly(a, n, s, h),
         NEW e \in Execs, h[e] # NoJob,
         NEW g, Becomes(h, g, Execs, e, NoJob)
  PROVE  /\ Apart(a, n, s, g)
         /\ Placed(a, n, s, g) = Placed(a, n, s, h) \ {h[e]}
<1>0. /\ a \in [Peers -> Pointers] /\ h \in [Execs -> Pointers]
      /\ n \in Nat /\ \A x \in 1 .. n : s[x] \in Jobs
      /\ Apart(a, n, s, h)
  BY DEF Orderly
<1> USE <1>0
<1>1. g[e] = NoJob /\ \A f \in Execs : f # e => g[f] = h[f]
  BY DEF Becomes
<1>2. NoJob \notin Jobs
  BY MainAssumption
<1>3. Apart(a, n, s, g)
  BY <1>1 DEF Apart
<1>4. Placed(a, n, s, g) = Placed(a, n, s, h) \ {h[e]}
  <2>1. /\ \A u \in Peers : a[u] # h[e]
        /\ \A k \in 1 .. n : s[k] # h[e]
        /\ \A f \in Execs : f # e => h[f] # h[e]
    BY DEF Apart
  <2> QED
    BY <1>1, <1>2, <2>1 DEF Placed
<1> QED
  BY <1>3, <1>4

\* removeJob takes one out of the queue.
LEMMA PlaceRemove ==
  ASSUME NEW a, NEW n, NEW s, NEW h, Orderly(a, n, s, h), n # 0,
         NEW k \in 1 .. n,
         NEW r, \A i \in 1 .. n - 1 : r[i] = IF i < k THEN s[i] ELSE s[i + 1]
  PROVE  /\ Apart(a, n - 1, r, h)
         /\ Placed(a, n - 1, r, h) = Placed(a, n, s, h) \ {s[k]}
<1>0. /\ a \in [Peers -> Pointers] /\ h \in [Execs -> Pointers]
      /\ n \in Nat /\ \A x \in 1 .. n : s[x] \in Jobs
      /\ Apart(a, n, s, h)
  BY DEF Orderly
<1> USE <1>0
<1> DEFINE m(i) == IF i < k THEN i ELSE i + 1
<1>1. NoJob \notin Jobs
  BY MainAssumption
<1>2. \A i \in 1 .. n - 1 : m(i) \in 1 .. n /\ m(i) # k /\ r[i] = s[m(i)]
  OBVIOUS
<1>3. \A i, j \in 1 .. n - 1 : m(i) = m(j) => i = j
  OBVIOUS
<1>4. ASSUME NEW i \in 1 .. n, i # k PROVE \E j \in 1 .. n - 1 : m(j) = i
  <2>1. CASE i < k
    BY <2>1
  <2>2. CASE i > k
    <3>1. i - 1 \in 1 .. n - 1 /\ ~(i - 1 < k) /\ (i - 1) + 1 = i
      BY <2>2
    <3> QED
      BY <3>1
  <2> QED
    BY <1>4, <2>1, <2>2
<1> HIDE DEF m
<1>5. Apart(a, n - 1, r, h)
  <2>1. \A i, j \in 1 .. n - 1 : r[i].id = r[j].id => i = j
    BY <1>2, <1>3 DEF Apart
  <2> QED
    BY <1>2, <2>1 DEF Apart
<1>6. Placed(a, n - 1, r, h) = Placed(a, n, s, h) \ {s[k]}
  <2>1. /\ \A u \in Peers : a[u] # s[k]
        /\ \A i \in 1 .. n : i # k => s[i] # s[k]
        /\ \A e \in Execs : h[e] # s[k]
    BY <1>1 DEF Apart
  <2>2. ASSUME NEW x \in Jobs, x # s[k]
        PROVE  (\E i \in 1 .. n - 1 : r[i] = x) <=> (\E i \in 1 .. n : s[i] = x)
    <3>1. ASSUME NEW i \in 1 .. n - 1, r[i] = x PROVE \E j \in 1 .. n : s[j] = x
      BY <1>2, <3>1
    <3>2. ASSUME NEW i \in 1 .. n, s[i] = x PROVE \E j \in 1 .. n - 1 : r[j] = x
      BY <1>2, <1>4, <2>2, <3>2
    <3> QED
      BY <3>1, <3>2
  <2>3. ~\E i \in 1 .. n - 1 : r[i] = s[k]
    BY <1>2, <2>1
  <2> QED
    BY <2>1, <2>2, <2>3 DEF Placed
<1> QED
  BY <1>5, <1>6
-----------------------------------------------------------------------------
\* Between its critical sections a thread is in a call of the queue's functions
\* exactly at the stages that make one ...
InCall(t) ==
  /\ pc[t] \in {"put", "putWait"} <=> at[t] \in {"submit", "back"}
  /\ pc[t] \in {"get", "getWait"} <=> at[t] = "take"
  /\ arg[t] # NoJob <=> at[t] \in {"submit", "back"}

\* ... and has a job in hand at those that need it.
Calls ==
  /\ \A t \in Peers : InCall(t)
  /\ \A e \in Execs : at[e] \in {"check", "select", "send"} => held[e] # NoJob

\* The ring has no more jobs than slots, and nothing but jobs.
RingFits ==
  /\ Q!Count(queue) <= MAX_JOBS_QUEUE
  /\ \A k \in 1 .. Q!Count(queue) : Q!Items(queue)[k] \in Jobs

\* The jobs in some place of the main server.
AllPlaced == Placed(arg, Q!Count(queue), Q!Items(queue), InHand)

\* Each is in one place, was submitted, and is allocated unless the history has
\* forgotten it.
InPlace ==
  /\ Apart(arg, Q!Count(queue), Q!Items(queue), InHand)
  /\ \A job \in AllPlaced : job.id < history_putidx
  /\ ~stopped => \A job \in AllPlaced : Knows(job_array, job.id) => job \in live

\* Without unsubmissions every allocated job is in some place; after stop that is
\* not the queue.
NoLeak ==
  live \subseteq Placed(arg, IF stopped THEN 0 ELSE Q!Count(queue), Q!Items(queue), InHand)
-----------------------------------------------------------------------------
\* What JobQueueProofs says of rings does not depend on the threads.
RP == INSTANCE JobQueueProofs WITH Putters <- {}, Getters <- {}, Removed <- {}

\* A ring of the main server is one of JobQueueProofs.
LEMMA SameRing ==
  ASSUME NEW q, NEW job, NEW jobid
  PROVE  /\ RP!Count(q) = Q!Count(q) /\ RP!Items(q) = Q!Items(q)
         /\ RP!PutInto(q, job) = Q!PutInto(q, job) /\ RP!TakeFrom(q) = Q!TakeFrom(q)
         /\ RP!RemoveFrom(q, jobid) = Q!RemoveFrom(q, jobid)
         /\ RP!Matches(q, jobid) = Q!Matches(q, jobid)
         /\ RP!ShiftOverruns(q) = Q!ShiftOverruns(q)
         /\ RP!QueueType(Jobs) = Q!QueueType(Jobs)
         /\ \A i : RP!Slot(i) = Q!Slot(i)
<1>1. \A i, k : RP!IdxAdd(i, k) = Q!IdxAdd(i, k) /\ RP!Slot(i) = Q!Slot(i)
                /\ RP!Inc(i) = Q!Inc(i) /\ RP!Dec(i) = Q!Dec(i)
  BY DEF RP!IdxAdd, Q!IdxAdd, RP!Slot, Q!Slot, RP!Inc, Q!Inc, RP!Dec, Q!Dec
<1>2. RP!Count(q) = Q!Count(q)
  BY DEF RP!Count, Q!Count
<1>3. RP!Items(q) = Q!Items(q)
  BY <1>1, <1>2 DEF RP!Items, Q!Items
<1>4. RP!PutInto(q, job) = Q!PutInto(q, job) /\ RP!TakeFrom(q) = Q!TakeFrom(q)
  BY <1>1, <1>2 DEF RP!PutInto, Q!PutInto, RP!TakeFrom, Q!TakeFrom
<1>5. RP!Matches(q, jobid) = Q!Matches(q, jobid)
  BY <1>1 DEF RP!Matches, Q!Matches
<1>6. RP!ScanEnd(q, jobid) = Q!ScanEnd(q, jobid)
  <2>1. \A S : RP!Min(S) = Q!Min(S) /\ RP!Max(S) = Q!Max(S)
    BY Zenon DEF RP!Min, Q!Min, RP!Max, Q!Max
  <2> QED
    BY <1>1, <1>5, <2>1 DEF RP!ScanEnd, Q!ScanEnd
<1>7. RP!RemoveFrom(q, jobid) = Q!RemoveFrom(q, jobid)
  <2>1. RP!Slots = Q!Slots /\ RP!Slot(q.put_idx) = Q!Slot(q.put_idx)
        /\ RP!Dec(q.put_idx) = Q!Dec(q.put_idx)
    BY <1>1 DEF RP!Slots, Q!Slots
  <2> QED
    BY <1>6, <2>1 DEF RP!RemoveFrom, Q!RemoveFrom
<1>8. RP!ShiftOverruns(q) = Q!ShiftOverruns(q)
  BY <1>1 DEF RP!ShiftOverruns, Q!ShiftOverruns
<1>9. RP!QueueType(Jobs) = Q!QueueType(Jobs)
  BY DEF RP!QueueType, Q!QueueType, RP!Slots, Q!Slots, RP!Indices, Q!Indices
<1> QED
  BY <1>1, <1>2, <1>3, <1>4, <1>5, <1>7, <1>8, <1>9

\* The assumptions of JobQueueProofs hold here.
LEMMA RingGiven ==
  /\ MAX_JOBS_QUEUE \in Nat \ {0} /\ IDX_MOD \in Nat /\ IDX_MOD > MAX_JOBS_QUEUE
  /\ RP!IsFiniteSet({}) /\ NoJob \notin Jobs
<1>1. <<>> \in Seq({})
  OBVIOUS
<1>2. RP!IsFiniteSet({})
  BY <1>1 DEF RP!IsFiniteSet
<1> QED
  BY <1>2, MainAssumption

\* What the three operations do to the jobs in the queue.
LEMMA RingTake ==
  ASSUME NEW q \in Q!QueueType(Jobs), Q!Count(q) <= MAX_JOBS_QUEUE, Q!Count(q) # 0
  PROVE  /\ Q!Count(q) \in Nat \ {0} /\ Q!Count(Q!TakeFrom(q)) = Q!Count(q) - 1
         /\ Q!Oldest(q) = Q!Items(q)[1]
         /\ \A k \in 1 .. Q!Count(q) - 1 : Q!Items(Q!TakeFrom(q))[k] = Q!Items(q)[k + 1]
<1>1. RP!GoodQueue(q) /\ RP!Count(q) # 0
  BY SameRing DEF RP!GoodQueue
<1>2. RP!Items(q) # <<>> /\ RP!Items(RP!TakeFrom(q)) = Tail(RP!Items(q))
  BY <1>1, RingGiven, RP!TakeIsTail
<1>3. /\ RP!Count(q) \in Nat /\ RP!Items(q) \in Seq(RP!Pointers) /\ Len(RP!Items(q)) = RP!Count(q)
  BY <1>1, RingGiven, RP!ItemsType
<1>4. /\ Q!Count(q) \in Nat /\ Q!Items(q) \in Seq(RP!Pointers) /\ Len(Q!Items(q)) = Q!Count(q)
      /\ Q!Items(Q!TakeFrom(q)) = Tail(Q!Items(q))
  BY <1>2, <1>3, SameRing
<1>5. q.put_idx \in RP!Indices /\ q.get_idx \in RP!Indices /\ q.get_idx \in 0 .. IDX_MOD - 1
  BY DEF Q!QueueType, Q!Indices, RP!Indices
<1>6. Q!Count(Q!TakeFrom(q)) = Q!Count(q) - 1
  <2>1. RP!Count(RP!TakeFrom(q)) = RP!Count(q) - 1
    BY <1>1, <1>5, RingGiven, RP!CountTake
  <2> QED
    BY <2>1, SameRing
<1>7. Q!Oldest(q) = Q!Items(q)[1]
  <2>1. 1 \in 1 .. Q!Count(q)
    BY <1>4
  <2>2. Q!IdxAdd(q.get_idx, 1 - 1) = q.get_idx
    BY <1>5, MainAssumption DEF Q!IdxAdd
  <2> QED
    BY <2>1, <2>2 DEF Q!Oldest, Q!Items
<1>8. ASSUME NEW k \in 1 .. Q!Count(q) - 1 PROVE Tail(Q!Items(q))[k] = Q!Items(q)[k + 1]
  BY <1>4
<1> QED
  BY <1>4, <1>6, <1>7, <1>8

\* putJob adds a job at the end, as long as no index has wrapped between the jobs.
LEMMA RingPut ==
  ASSUME NEW q \in Q!QueueType(Jobs), Q!Count(q) <= MAX_JOBS_QUEUE, RP!Ordered(q),
         Q!Count(q) # MAX_JOBS_QUEUE, NEW job \in Jobs
  PROVE  /\ Q!Count(q) \in Nat /\ Q!Count(Q!PutInto(q, job)) = Q!Count(q) + 1
         /\ \A k \in 1 .. Q!Count(q) : Q!Items(Q!PutInto(q, job))[k] = Q!Items(q)[k]
         /\ Q!Items(Q!PutInto(q, job))[Q!Count(q) + 1] = job
<1>1. RP!GoodQueue(q) /\ RP!Count(q) # MAX_JOBS_QUEUE
  BY SameRing DEF RP!GoodQueue
<1>2. job \in RP!Pointers
  BY DEF RP!Pointers
<1>3. RP!Items(RP!PutInto(q, job)) = Append(RP!Items(q), job)
  BY <1>1, <1>2, RingGiven, RP!PutIsAppend
<1>4. RP!Count(q) \in Nat /\ RP!Items(q) \in Seq(RP!Pointers) /\ Len(RP!Items(q)) = RP!Count(q)
  BY <1>1, RingGiven, RP!ItemsType
<1>5. q.put_idx \in RP!Indices /\ q.get_idx \in RP!Indices
  BY DEF Q!QueueType, Q!Indices, RP!Indices
<1>6. RP!Count(RP!PutInto(q, job)) = RP!Count(q) + 1
  <2>1. RP!Count(q) <= MAX_JOBS_QUEUE - 1
    BY <1>1, <1>4, RingGiven DEF RP!GoodQueue
  <2> QED
    BY <1>5, <2>1, RingGiven, RP!CountPut
<1>7. /\ Q!Count(q) \in Nat /\ Q!Items(q) \in Seq(RP!Pointers) /\ Len(Q!Items(q)) = Q!Count(q)
      /\ Q!Items(Q!PutInto(q, job)) = Append(Q!Items(q), job)
      /\ Q!Count(Q!PutInto(q, job)) = Q!Count(q) + 1
  BY <1>3, <1>4, <1>6, SameRing
<1>8. /\ \A k \in 1 .. Q!Count(q) : Append(Q!Items(q), job)[k] = Q!Items(q)[k]
      /\ Append(Q!Items(q), job)[Q!Count(q) + 1] = job
  BY <1>2, <1>7, AppendProperties
<1> QED
  BY <1>7, <1>8

\* removeJob takes out one job, and one with the id that it was asked for if its
\* first loop finds one.
LEMMA RingRemove ==
  ASSUME NEW q \in Q!QueueType(Jobs), Q!Count(q) <= MAX_JOBS_QUEUE, RP!Ordered(q),
         Q!Count(q) # 0, ~Q!ShiftOverruns(q), NEW jobid
  PROVE  /\ Q!Count(q) \in Nat \ {0} /\ Q!Count(Q!RemoveFrom(q, jobid)) = Q!Count(q) - 1
         /\ \E k \in 1 .. Q!Count(q) :
              /\ Q!Matches(q, jobid) # {} => Q!Items(q)[k].id = jobid
              /\ \A i \in 1 .. Q!Count(q) - 1 :
                   Q!Items(Q!RemoveFrom(q, jobid))[i] =
                     IF i < k THEN Q!Items(q)[i] ELSE Q!Items(q)[i + 1]
<1>1. RP!GoodQueue(q) /\ RP!Count(q) # 0 /\ ~RP!ShiftOverruns(q)
  BY SameRing DEF RP!GoodQueue
<1>2. PICK k \in 1 .. RP!Count(q) :
        /\ RP!Items(RP!RemoveFrom(q, jobid)) = RP!Without(RP!Items(q), k)
        /\ RP!Matches(q, jobid) # {} => RP!Items(q)[k].id = jobid
  BY <1>1, RingGiven, RP!RemoveIsWithdraw
<1>3. RP!Count(q) \in Nat /\ RP!Items(q) \in Seq(RP!Pointers) /\ Len(RP!Items(q)) = RP!Count(q)
  BY <1>1, RingGiven, RP!ItemsType
<1>4. q.put_idx \in RP!Indices /\ q.get_idx \in RP!Indices
  BY DEF Q!QueueType, Q!Indices, RP!Indices
<1>5. RP!Count(RP!RemoveFrom(q, jobid)) = RP!Count(q) - 1
  BY <1>1, <1>4, RingGiven, RP!CountRemove
<1>6. \A i \in 1 .. RP!Count(q) - 1 :
        RP!Without(RP!Items(q), k)[i] = IF i < k THEN RP!Items(q)[i] ELSE RP!Items(q)[i + 1]
  <2>1. k \in 1 .. Len(RP!Items(q))
    BY <1>3
  <2>2. \A i \in 1 .. Len(RP!Items(q)) - 1 :
          RP!Without(RP!Items(q), k)[i] = IF i < k THEN RP!Items(q)[i] ELSE RP!Items(q)[i + 1]
    BY <1>3, <2>1, RingGiven, RP!WithoutProperties
  <2> QED
    BY <1>3, <2>2
<1> QED
  BY <1>1, <1>2, <1>3, <1>5, <1>6, SameRing

\* The job that removeJob frees is the one that it takes out.
LEMMA RingFreed ==
  ASSUME NEW q \in Q!QueueType(Jobs), Q!Count(q) <= MAX_JOBS_QUEUE, RP!Ordered(q), NEW jobid,
         NEW i \in Q!Matches(q, jobid)
  PROVE  \E k \in 1 .. Q!Count(q) : Q!Items(q)[k] = q.jobs[i]
<1> DEFINE g == Q!Slot(q.get_idx)
           t == Q!Slot(q.put_idx)
<1>1. g \in Nat /\ t \in Nat /\ i \in g .. t - 1
  BY MainAssumption DEF Q!Matches, Q!Slot, Q!QueueType, Q!Indices
<1>2. RP!GoodQueue(q) /\ RP!Slot(q.get_idx) < RP!Slot(q.put_idx)
  BY <1>1, SameRing DEF RP!GoodQueue
<1>3. /\ RP!Count(q) = RP!Slot(q.put_idx) - RP!Slot(q.get_idx)
      /\ \A k \in 1 .. RP!Count(q) : RP!Items(q)[k] = q.jobs[RP!Slot(q.get_idx) + k - 1]
  BY <1>2, RingGiven, RP!InARow
<1>4. /\ Q!Count(q) = t - g
      /\ \A k \in 1 .. Q!Count(q) : Q!Items(q)[k] = q.jobs[g + k - 1]
  BY <1>3, SameRing
<1> HIDE DEF g, t
<1>5. i - g + 1 \in 1 .. Q!Count(q) /\ g + (i - g + 1) - 1 = i
  BY <1>1, <1>4
<1> QED
  BY <1>4, <1>5
-----------------------------------------------------------------------------
(***************************************************************************)
(* What a step of the system does to the places of the jobs.               *)
(***************************************************************************)
\* The history gets to know no job that it did not know before.
NoNewEntry == \A j \in JobIds : Knows(job_array', j) => Knows(job_array, j)

\* The history and the command stop have nothing to do with the step.
SameBooks == UNCHANGED <<job_array, history_putidx, stopped>>

\* No job gets into another place; only one that is forgotten is freed.
Stays ==
  /\ queue' = queue /\ arg' = arg /\ InHand' = InHand
  /\ UNCHANGED <<history_putidx, stopped>>
  /\ NoNewEntry
  /\ live' \subseteq live
  /\ \A job \in live : Knows(job_array, job.id) => job \in live'

\* newJob, on its way to putJob.
Enters(t, job) ==
  /\ arg[t] = NoJob /\ arg' = [arg EXCEPT ![t] = job]
  /\ queue' = queue /\ InHand' = InHand /\ ~stopped /\ UNCHANGED stopped
  /\ job.id = history_putidx /\ history_putidx' = history_putidx + 1
  /\ live' = live \cup {job}
  /\ \A j \in JobIds : Knows(job_array', j) => Knows(job_array, j) \/ j = job.id

\* putJob.
Deposits(t) ==
  /\ arg[t] # NoJob /\ Q!Count(queue) # MAX_JOBS_QUEUE
  /\ queue' = Q!PutInto(queue, arg[t]) /\ arg' = [arg EXCEPT ![t] = NoJob]
  /\ InHand' = InHand /\ live' = live /\ ~stopped /\ SameBooks

\* The first half of sendJob.
Takes(e) ==
  /\ InHand[e] = NoJob /\ Q!Count(queue) # 0
  /\ queue' = Q!TakeFrom(queue) /\ InHand' = [InHand EXCEPT ![e] = Q!Oldest(queue)]
  /\ arg' = arg /\ live' = live /\ ~stopped /\ SameBooks

\* putJobBack, on its way to putJob.
Returns(e) ==
  /\ InHand[e] # NoJob /\ arg[e] = NoJob
  /\ arg' = [arg EXCEPT ![e] = InHand[e]] /\ InHand' = [InHand EXCEPT ![e] = NoJob]
  /\ queue' = queue /\ live' = live /\ SameBooks

\* The end of sendJob.
SendsOff(e) ==
  /\ InHand[e] # NoJob /\ InHand' = [InHand EXCEPT ![e] = NoJob]
  /\ queue' = queue /\ arg' = arg /\ live' = live \ {InHand[e]} /\ SameBooks

\* removeJob.
Withdraws(j) ==
  /\ Q!Count(queue) # 0 /\ ~Q!ShiftOverruns(queue)
  /\ queue' = Q!RemoveFrom(queue, j)
  /\ live' = {job \in live : ~(job \in Examined(j) /\ job.id = j)}
  /\ arg' = arg /\ InHand' = InHand /\ ~stopped /\ SameBooks

\* The command stop.
StopsAll ==
  /\ ~stopped /\ stopped'
  /\ queue' = queue /\ arg' = arg /\ InHand' = InHand
  /\ live' = live \ Q!Queued
  /\ UNCHANGED <<job_array, history_putidx>>

\* A thread has a job or none in hand.
LEMMA PlaceTypes ==
  ASSUME Types
  PROVE  /\ arg \in [Peers -> Pointers] /\ InHand \in [Execs -> Pointers]
         /\ queue \in Q!QueueType(Jobs) /\ Q!Count(queue) \in Nat
         /\ history_putidx \in Nat /\ live \in SUBSET Jobs
         /\ \A job \in Jobs : job.id \in JobIds
         /\ JobIds \subseteq Nat
<1>1. queue \in Q!QueueType(Jobs)
  BY DEF Types, MainTypes, QueueTypes
<1>2. Q!Count(queue) \in Nat
  BY <1>1, MainAssumption DEF Q!QueueType, Q!Indices, Q!Count
<1> QED
  BY <1>1, <1>2, HistoryAssumption
     DEF Types, MainTypes, QueueTypes, HeapTypes, HistoryTypes, Pointers, InHand, Jobs, JobIds

\* The places of the main server are well formed.
LEMMA PlacesOrderly ==
  ASSUME Types, RingFits, InPlace
  PROVE  Orderly(arg, Q!Count(queue), Q!Items(queue), InHand)
BY PlaceTypes DEF RingFits, InPlace, Orderly

\* Every step keeps the ring in order and each job in one place.
LEMMA StaysKeeps ==
  ASSUME Types, RingFits, InPlace, Stays
  PROVE  RingFits' /\ InPlace' /\ (NoLeak => NoLeak')
<1>0. AllPlaced \subseteq Jobs /\ \A job \in Jobs : job.id \in JobIds
  BY PlaceTypes DEF AllPlaced, Placed
<1>1. RingFits'
  BY DEF RingFits, Stays
<1>2. AllPlaced' = AllPlaced
  BY DEF AllPlaced, Stays
<1>3. Apart(arg, Q!Count(queue), Q!Items(queue), InHand)'
  BY DEF InPlace, Stays
<1>4. InPlace'
  BY <1>0, <1>2, <1>3 DEF InPlace, Stays, NoNewEntry
<1>5. NoLeak => NoLeak'
  BY DEF NoLeak, Stays
<1> QED
  BY <1>1, <1>4, <1>5

\* A new job has an id that no other job has: it has a place of its own.
LEMMA EntersKeeps ==
  ASSUME Types, RingFits, InPlace, NEW t \in Peers, NEW job \in Jobs, Enters(t, job)
  PROVE  RingFits' /\ InPlace' /\ (NoLeak => NoLeak')
<1> DEFINE n == Q!Count(queue)
           s == Q!Items(queue)
<1>0. /\ AllPlaced \subseteq Jobs /\ \A x \in Jobs : x.id \in JobIds
      /\ JobIds \subseteq Nat /\ history_putidx \in Nat
  BY PlaceTypes DEF AllPlaced, Placed
<1>1. RingFits'
  BY DEF RingFits, Enters
<1>2. \A x \in Placed(arg, n, s, InHand) : x.id # job.id
  <2>1. \A x \in AllPlaced : x.id < history_putidx /\ x.id \in Nat
    BY <1>0 DEF InPlace
  <2> QED
    BY <1>0, <2>1 DEF AllPlaced, Enters
<1>3. /\ Apart(arg', n, s, InHand)
      /\ Placed(arg', n, s, InHand) = AllPlaced \cup {job}
  <2>1. /\ Orderly(arg, n, s, InHand) /\ arg[t] = NoJob /\ Unplaced(job, arg, n, s, InHand)
        /\ Becomes(arg, arg', Peers, t, job)
    BY <1>2, PlaceTypes, PlacesOrderly DEF Enters, Unplaced, Becomes
  <2> HIDE DEF n, s
  <2>2. /\ Apart(arg', n, s, InHand)
        /\ Placed(arg', n, s, InHand) = Placed(arg, n, s, InHand) \cup {job}
    BY <2>1, PlaceNew
  <2> QED
    BY <2>2 DEF AllPlaced, n, s
<1>4. AllPlaced' = AllPlaced \cup {job}
  BY <1>3 DEF AllPlaced, Enters
<1>5. Apart(arg, Q!Count(queue), Q!Items(queue), InHand)'
  BY <1>3 DEF Enters
<1>6. \A x \in AllPlaced' : x.id < history_putidx'
  BY <1>0, <1>4 DEF InPlace, Enters
<1>7. ~stopped' => \A x \in AllPlaced' : Knows(job_array', x.id) => x \in live'
  <2> SUFFICES ASSUME NEW x \in AllPlaced', Knows(job_array', x.id), x # job PROVE x \in live
    BY DEF Enters
  <2>1. x \in AllPlaced /\ x.id \in JobIds /\ x.id # job.id
    BY <1>0, <1>2, <1>4 DEF AllPlaced
  <2> QED
    BY <2>1 DEF InPlace, Enters
<1>8. InPlace'
  BY <1>5, <1>6, <1>7 DEF InPlace
<1>9. NoLeak => NoLeak'
  BY <1>4 DEF NoLeak, AllPlaced, Enters
<1> QED
  BY <1>1, <1>8, <1>9

\* putJob moves a job from an argument to the end of the queue.
LEMMA DepositsKeeps ==
  ASSUME Types, RingFits, InPlace, Q!InOrder, NEW t \in Peers, Deposits(t)
  PROVE  RingFits' /\ InPlace' /\ (NoLeak => NoLeak')
<1> DEFINE n == Q!Count(queue)
           s == Q!Items(queue)
           r == Q!Items(queue')
<1>0. /\ n \in Nat /\ arg[t] \in Jobs /\ queue \in Q!QueueType(Jobs) /\ n <= MAX_JOBS_QUEUE
      /\ \A k \in 1 .. n : s[k] \in Jobs
  BY PlaceTypes DEF RingFits, Deposits, Pointers
<1>1. RP!Ordered(queue)
  BY DEF RP!Ordered, Q!InOrder
<1>2. /\ Q!Count(queue') = n + 1
      /\ \A k \in 1 .. n : r[k] = s[k]
      /\ r[n + 1] = arg[t]
  BY <1>0, <1>1, RingPut DEF Deposits
<1>3. RingFits'
  <2>1. n + 1 <= MAX_JOBS_QUEUE
    BY <1>0, MainAssumption DEF Deposits
  <2>2. \A k \in 1 .. n + 1 : r[k] \in Jobs
    BY <1>0, <1>2
  <2> QED
    BY <1>2, <2>1, <2>2 DEF RingFits
<1> HIDE DEF n, s, r
<1>4. /\ Apart(arg', n + 1, r, InHand)
      /\ Placed(arg', n + 1, r, InHand) = Placed(arg, n, s, InHand)
  <2>1. /\ Orderly(arg, n, s, InHand) /\ arg[t] # NoJob
        /\ Becomes(arg, arg', Peers, t, NoJob)
    BY PlaceTypes, PlacesOrderly DEF Deposits, Becomes, n, s
  <2> QED
    BY <1>2, <2>1, PlacePut
<1>5. AllPlaced' = AllPlaced
  BY <1>2, <1>4 DEF AllPlaced, Deposits, n, s, r
<1>6. Apart(arg, Q!Count(queue), Q!Items(queue), InHand)'
  BY <1>2, <1>4 DEF Deposits, n, s, r
<1>7. InPlace'
  BY <1>5, <1>6 DEF InPlace, Deposits, SameBooks
<1>8. NoLeak => NoLeak'
  BY <1>5 DEF NoLeak, AllPlaced, Deposits, SameBooks
<1> QED
  BY <1>3, <1>7, <1>8

\* sendJob moves the oldest job from the queue into the hands of its thread.
LEMMA TakesKeeps ==
  ASSUME Types, RingFits, InPlace, NEW e \in Execs, Takes(e)
  PROVE  RingFits' /\ InPlace' /\ (NoLeak => NoLeak')
<1> DEFINE n == Q!Count(queue)
           s == Q!Items(queue)
           r == Q!Items(queue')
<1>0. /\ n \in Nat \ {0} /\ queue \in Q!QueueType(Jobs) /\ n <= MAX_JOBS_QUEUE
      /\ \A k \in 1 .. n : s[k] \in Jobs
  BY PlaceTypes DEF RingFits, Takes
<1>1. /\ Q!Count(queue') = n - 1 /\ Q!Oldest(queue) = s[1]
      /\ \A k \in 1 .. n - 1 : r[k] = s[k + 1]
  BY <1>0, RingTake DEF Takes
<1> HIDE DEF n, s, r
<1>2. RingFits'
  <2>1. n - 1 <= MAX_JOBS_QUEUE
    BY <1>0, MainAssumption
  <2>2. \A k \in 1 .. n - 1 : k + 1 \in 1 .. n
    BY <1>0
  <2>3. \A k \in 1 .. n - 1 : r[k] \in Jobs
    BY <1>0, <1>1, <2>2
  <2> QED
    BY <1>1, <2>1, <2>3 DEF RingFits, r
<1>3. /\ Apart(arg, n - 1, r, InHand')
      /\ Placed(arg, n - 1, r, InHand') = Placed(arg, n, s, InHand)
  <2>1. /\ Orderly(arg, n, s, InHand) /\ InHand[e] = NoJob
        /\ Becomes(InHand, InHand', Execs, e, s[1])
    BY <1>1, PlaceTypes, PlacesOrderly DEF Takes, Becomes, n, s
  <2> QED
    <3>1. n # 0 /\ \A k \in 1 .. n - 1 : r[k] = s[k + 1]
      BY <1>0, <1>1
    <3> QED
      BY <2>1, <3>1, PlaceTake
<1>4. AllPlaced' = AllPlaced
  BY <1>1, <1>3 DEF AllPlaced, Takes, n, s, r
<1>5. Apart(arg, Q!Count(queue), Q!Items(queue), InHand)'
  BY <1>1, <1>3 DEF Takes, n, s, r
<1>6. InPlace'
  BY <1>4, <1>5 DEF InPlace, Takes, SameBooks
<1>7. NoLeak => NoLeak'
  BY <1>4 DEF NoLeak, AllPlaced, Takes, SameBooks
<1> QED
  BY <1>2, <1>6, <1>7

\* putJobBack moves a job from the hands of its thread to an argument.
LEMMA ReturnsKeeps ==
  ASSUME Types, RingFits, InPlace, NEW e \in Execs, Returns(e)
  PROVE  RingFits' /\ InPlace' /\ (NoLeak => NoLeak')
<1> DEFINE s == Q!Items(queue)
<1>1. RingFits'
  BY DEF RingFits, Returns
<1>2. ASSUME NEW n \in 0 .. Q!Count(queue)
      PROVE  /\ Apart(arg', n, s, InHand')
             /\ Placed(arg', n, s, InHand') = Placed(arg, n, s, InHand)
  <2>1. Orderly(arg, n, s, InHand)
    <3>1. n \in Nat /\ \A k \in 1 .. n : k \in 1 .. Q!Count(queue)
      BY <1>2, PlaceTypes
    <3> QED
      BY <3>1, PlacesOrderly DEF Orderly, Apart
  <2>2. /\ InHand[e] # NoJob /\ arg[e] = NoJob
        /\ Becomes(arg, arg', Peers, e, InHand[e]) /\ Becomes(InHand, InHand', Execs, e, NoJob)
    BY PlaceTypes DEF Returns, Becomes, Peers
  <2> HIDE DEF s
  <2> QED
    BY <2>1, <2>2, PlaceBack
<1>3. 0 \in 0 .. Q!Count(queue) /\ Q!Count(queue) \in 0 .. Q!Count(queue)
  BY PlaceTypes
<1>4. AllPlaced' = AllPlaced /\ Apart(arg, Q!Count(queue), Q!Items(queue), InHand)'
  BY <1>2, <1>3 DEF AllPlaced, Returns
<1>5. InPlace'
  BY <1>4 DEF InPlace, Returns, SameBooks
<1>6. NoLeak => NoLeak'
  <2>1. CASE stopped
    BY <1>2, <1>3, <2>1 DEF NoLeak, Returns, SameBooks
  <2>2. CASE ~stopped
    BY <1>2, <1>3, <2>2 DEF NoLeak, Returns, SameBooks
  <2> QED
    BY <2>1, <2>2
<1> QED
  BY <1>1, <1>5, <1>6

\* What sendJob frees after sending it was in the hands of its thread only.
LEMMA SendsOffKeeps ==
  ASSUME Types, RingFits, InPlace, NEW e \in Execs, SendsOff(e)
  PROVE  RingFits' /\ InPlace' /\ (NoLeak => NoLeak')
<1> DEFINE s == Q!Items(queue)
           x == InHand[e]
<1>1. RingFits'
  BY DEF RingFits, SendsOff
<1>2. ASSUME NEW n \in 0 .. Q!Count(queue)
      PROVE  /\ Apart(arg, n, s, InHand')
             /\ Placed(arg, n, s, InHand') = Placed(arg, n, s, InHand) \ {x}
  <2>1. Orderly(arg, n, s, InHand)
    <3>1. n \in Nat /\ \A k \in 1 .. n : k \in 1 .. Q!Count(queue)
      BY <1>2, PlaceTypes
    <3> QED
      BY <3>1, PlacesOrderly DEF Orderly, Apart
  <2>2. InHand[e] # NoJob /\ Becomes(InHand, InHand', Execs, e, NoJob)
    BY PlaceTypes DEF SendsOff, Becomes
  <2> HIDE DEF s
  <2> QED
    BY <2>1, <2>2, PlaceSend
<1>3. 0 \in 0 .. Q!Count(queue) /\ Q!Count(queue) \in 0 .. Q!Count(queue)
  BY PlaceTypes
<1>4. AllPlaced' = AllPlaced \ {x} /\ Apart(arg, Q!Count(queue), Q!Items(queue), InHand)'
  BY <1>2, <1>3 DEF AllPlaced, SendsOff
<1>5. InPlace'
  BY <1>4 DEF InPlace, SendsOff, SameBooks
<1>6. NoLeak => NoLeak'
  <2>1. CASE stopped
    BY <1>2, <1>3, <2>1 DEF NoLeak, SendsOff, SameBooks
  <2>2. CASE ~stopped
    BY <1>2, <1>3, <2>2 DEF NoLeak, SendsOff, SameBooks
  <2> QED
    BY <2>1, <2>2
<1> QED
  BY <1>1, <1>5, <1>6

\* The command stop frees what is in the queue, and nothing else.
LEMMA StopKeeps ==
  ASSUME Types, RingFits, InPlace, StopsAll
  PROVE  RingFits' /\ InPlace' /\ (NoLeak => NoLeak')
<1>1. RingFits'
  BY DEF RingFits, StopsAll
<1>2. AllPlaced' = AllPlaced
  BY DEF AllPlaced, StopsAll
<1>3. Apart(arg, Q!Count(queue), Q!Items(queue), InHand)'
  BY DEF InPlace, StopsAll
<1>4. InPlace'
  BY <1>2, <1>3 DEF InPlace, StopsAll
<1>5. ASSUME NoLeak, NEW job \in live'
      PROVE  job \in Placed(arg, 0, Q!Items(queue), InHand)
  <2>1. job \in AllPlaced /\ job \notin Q!Queued
    BY <1>5 DEF NoLeak, AllPlaced, StopsAll
  <2> QED
    BY <2>1 DEF AllPlaced, Placed, Q!Queued
<1>6. NoLeak => NoLeak'
  BY <1>5 DEF NoLeak, StopsAll
<1> QED
  BY <1>1, <1>4, <1>6

\* removeJob looks at slots between those of get_idx and put_idx only.
LEMMA ExaminedSlots ==
  ASSUME queue \in Q!QueueType(Jobs), NEW j, NEW job \in Examined(j)
  PROVE  \E i \in Q!Slot(queue.get_idx) .. Q!Slot(queue.put_idx) - 1 : job = queue.jobs[i]
<1> DEFINE g == Q!Slot(queue.get_idx)
           p == Q!Slot(queue.put_idx)
           d == Q!ScanEnd(queue, j)
<1>1. PICK i \in g .. Min({d, p - 1}) : job = queue.jobs[i]
  BY DEF Examined
<1>2. g \in Nat /\ p \in Nat
  BY MainAssumption DEF Q!Slot, Q!QueueType, Q!Indices
<1>3. d \in Nat
  <2>1. CASE Q!Matches(queue, j) # {}
    <3>1. Q!Matches(queue, j) \in SUBSET Nat
      BY <1>2 DEF Q!Matches
    <3>2. Min(Q!Matches(queue, j)) \in Nat
      BY <2>1, <3>1, MinOfNaturals
    <3>3. Q!Min(Q!Matches(queue, j)) = Min(Q!Matches(queue, j))
      BY Zenon DEF Q!Min, Min
    <3> QED
      BY <2>1, <3>2, <3>3 DEF Q!ScanEnd
  <2>2. CASE Q!Matches(queue, j) = {}
    <3>1. \A x, y \in Nat : Q!Max({x, y}) \in Nat
      BY DEF Q!Max
    <3> QED
      BY <1>2, <2>2, <3>1 DEF Q!ScanEnd
  <2> QED
    BY <2>1, <2>2
<1> HIDE DEF g, p, d
<1>4. \A x, y \in Int : Min({x, y}) \in {x, y} /\ Min({x, y}) <= y
  BY DEF Min
<1>5. p - 1 \in Int /\ d \in Int
  BY <1>2, <1>3
<1>6. Min({d, p - 1}) \in Int /\ Min({d, p - 1}) <= p - 1
  BY <1>4, <1>5
<1>7. i \in g .. p - 1
  BY <1>1, <1>2, <1>6
<1> QED
  BY <1>1, <1>7 DEF g, p

\* removeJob may free nothing, and then a job leaks.
LEMMA WithdrawsKeeps ==
  ASSUME Types, RingFits, InPlace, Q!InOrder, NEW j \in JobIds, Withdraws(j)
  PROVE  RingFits' /\ InPlace'
<1> DEFINE n == Q!Count(queue)
           s == Q!Items(queue)
           r == Q!Items(queue')
<1>0. /\ n \in Nat \ {0} /\ queue \in Q!QueueType(Jobs) /\ n <= MAX_JOBS_QUEUE
      /\ \A i \in 1 .. n : s[i] \in Jobs
      /\ RP!Ordered(queue)
  BY PlaceTypes DEF RingFits, Withdraws, RP!Ordered, Q!InOrder
<1>1. /\ Q!Count(queue') = n - 1
      /\ \E k \in 1 .. n : /\ Q!Matches(queue, j) # {} => s[k].id = j
                           /\ \A i \in 1 .. n - 1 : r[i] = IF i < k THEN s[i] ELSE s[i + 1]
  BY <1>0, RingRemove DEF Withdraws
<1>2. PICK k \in 1 .. n : /\ Q!Matches(queue, j) # {} => s[k].id = j
                          /\ \A i \in 1 .. n - 1 : r[i] = IF i < k THEN s[i] ELSE s[i + 1]
  BY <1>1
<1>3. ASSUME NEW job \in Examined(j), job.id = j
      PROVE  job = s[k]
  <2>1. PICK i \in Q!Slot(queue.get_idx) .. Q!Slot(queue.put_idx) - 1 : job = queue.jobs[i]
    BY <1>0, <1>3, ExaminedSlots
  <2>2. i \in Q!Matches(queue, j)
    BY <1>3, <2>1 DEF Q!Matches
  <2>3. PICK l \in 1 .. n : s[l] = job
    BY <1>0, <2>1, <2>2, RingFreed
  <2>4. s[l].id = s[k].id
    BY <1>2, <1>3, <2>2, <2>3
  <2> QED
    BY <2>3, <2>4 DEF InPlace, Apart
<1> HIDE DEF n, s, r
<1>4. RingFits'
  <2>1. n - 1 <= MAX_JOBS_QUEUE
    BY <1>0, MainAssumption
  <2>2. \A i \in 1 .. n - 1 : i \in 1 .. n /\ i + 1 \in 1 .. n
    BY <1>0
  <2>3. \A i \in 1 .. n - 1 : r[i] \in Jobs
    BY <1>0, <1>2, <2>2
  <2> QED
    BY <1>1, <2>1, <2>3 DEF RingFits, r
<1>5. /\ Apart(arg, n - 1, r, InHand)
      /\ Placed(arg, n - 1, r, InHand) = Placed(arg, n, s, InHand) \ {s[k]}
  <2>1. Orderly(arg, n, s, InHand)
    BY PlacesOrderly DEF n, s
  <2> QED
    BY <1>0, <1>2, <2>1, PlaceRemove
<1>6. /\ AllPlaced' = AllPlaced \ {s[k]}
      /\ Apart(arg, Q!Count(queue), Q!Items(queue), InHand)'
  BY <1>1, <1>5 DEF AllPlaced, Withdraws, n, s, r
<1>7. InPlace'
  BY <1>3, <1>6 DEF InPlace, Withdraws, SameBooks
<1> QED
  BY <1>4, <1>7
-----------------------------------------------------------------------------
(***************************************************************************)
(* The steps of the system, as moves of jobs.                              *)
(***************************************************************************)
\* The calls in which a thread is do not change.
SameCall(c, d, t) ==
  /\ c[t] \in {"put", "putWait"} <=> d[t] \in {"put", "putWait"}
  /\ c[t] \in {"get", "getWait"} <=> d[t] \in {"get", "getWait"}

\* A signal brings no thread into a call or out of it.
LEMMA SignalCalls ==
  ASSUME NEW c \in [Peers -> Q!Stages], NEW t \in Peers,
         NEW d, d \in Q!Signal(c, "putWait", "put") \cup Q!Signal(c, "getWait", "get")
  PROVE  SameCall(c, d, t) /\ (c[t] = "idle" => d[t] = "idle")
<1>1. ASSUME NEW u \in Peers, c[u] = "putWait", d = [c EXCEPT ![u] = "put"]
      PROVE  SameCall(c, d, t) /\ (c[t] = "idle" => d[t] = "idle")
  BY <1>1 DEF SameCall
<1>2. ASSUME NEW u \in Peers, c[u] = "getWait", d = [c EXCEPT ![u] = "get"]
      PROVE  SameCall(c, d, t) /\ (c[t] = "idle" => d[t] = "idle")
  BY <1>2 DEF SameCall
<1>3. ASSUME d = c PROVE SameCall(c, d, t) /\ (c[t] = "idle" => d[t] = "idle")
  BY <1>3 DEF SameCall
<1>4. Peers \cup Execs = Peers
  BY DEF Peers
<1> QED
  BY <1>1, <1>2, <1>3, <1>4 DEF Q!Signal, Q!ThreadsIn, Q!Threads

\* What a critical section of the queue does to the calls of the threads and to
\* the arguments of putJob.
LEMMA QueueCalls ==
  ASSUME QueueTypes, NEW t \in Peers
  PROVE  /\ \A job : Q!CallPut(t, job) =>
              /\ pc'[t] = "put" /\ arg'[t] = job /\ queue' = queue
              /\ \A u \in Peers : u # t => SameCall(pc, pc', u) /\ arg'[u] = arg[u]
         /\ Q!PutJob(t) =>
              /\ \A u \in Peers : u # t => SameCall(pc, pc', u) /\ arg'[u] = arg[u]
              /\ \/ pc'[t] = "putWait" /\ queue' = queue /\ arg' = arg
                 \/ /\ pc'[t] = "idle" /\ Q!Count(queue) # MAX_JOBS_QUEUE
                    /\ queue' = Q!PutInto(queue, arg[t]) /\ arg' = [arg EXCEPT ![t] = NoJob]
         /\ Q!CallGet(t) =>
              /\ pc'[t] = "get" /\ arg' = arg /\ queue' = queue
              /\ \A u \in Peers : u # t => SameCall(pc, pc', u)
         /\ Q!GetJob(t) =>
              /\ arg' = arg
              /\ \A u \in Peers : u # t => SameCall(pc, pc', u)
              /\ \/ pc'[t] = "getWait" /\ queue' = queue
                 \/ pc'[t] = "idle" /\ Q!Count(queue) # 0 /\ queue' = Q!TakeFrom(queue)
         /\ \A jobid : Q!RemoveJob(jobid) =>
              arg' = arg /\ \A u \in Peers : SameCall(pc, pc', u)
         /\ Q!SpuriousWakeup(t) =>
              arg' = arg /\ queue' = queue /\ \A u \in Peers : SameCall(pc, pc', u)
<1>0. /\ pc \in [Peers -> Q!Stages] /\ arg \in [Peers -> Jobs \cup {NoJob}]
      /\ [pc EXCEPT ![t] = "idle"] \in [Peers -> Q!Stages]
  BY DEF QueueTypes, Q!Stages
<1>1. ASSUME NEW job, Q!CallPut(t, job)
      PROVE  /\ pc'[t] = "put" /\ arg'[t] = job /\ queue' = queue
             /\ \A u \in Peers : u # t => SameCall(pc, pc', u) /\ arg'[u] = arg[u]
  BY <1>0, <1>1 DEF Q!CallPut, SameCall
<1>2. ASSUME NEW c, c = [pc EXCEPT ![t] = "idle"], NEW u \in Peers,
             pc' \in Q!Signal(c, "putWait", "put") \cup Q!Signal(c, "getWait", "get")
      PROVE  pc'[t] = "idle" /\ (u # t => SameCall(pc, pc', u))
  <2>1. c \in [Peers -> Q!Stages] /\ c[t] = "idle" /\ (u # t => c[u] = pc[u])
    BY <1>0, <1>2
  <2>2. SameCall(c, pc', u) /\ pc'[t] = "idle"
    BY <1>2, <2>1, SignalCalls
  <2> QED
    BY <2>1, <2>2 DEF SameCall
<1>3. ASSUME Q!PutJob(t)
      PROVE  /\ \A u \in Peers : u # t => SameCall(pc, pc', u) /\ arg'[u] = arg[u]
             /\ \/ pc'[t] = "putWait" /\ queue' = queue /\ arg' = arg
                \/ /\ pc'[t] = "idle" /\ Q!Count(queue) # MAX_JOBS_QUEUE
                   /\ queue' = Q!PutInto(queue, arg[t]) /\ arg' = [arg EXCEPT ![t] = NoJob]
  <2>1. CASE pc' = [pc EXCEPT ![t] = "putWait"] /\ UNCHANGED <<queue, arg>>
    BY <1>0, <2>1 DEF SameCall
  <2>2. CASE /\ Q!Count(queue) # MAX_JOBS_QUEUE /\ queue' = Q!PutInto(queue, arg[t])
             /\ arg' = [arg EXCEPT ![t] = NoJob]
             /\ pc' \in Q!Signal([pc EXCEPT ![t] = "idle"], "getWait", "get")
    BY <1>0, <1>2, <2>2
  <2> QED
    BY <1>3, <2>1, <2>2 DEF Q!PutJob
<1>4. ASSUME Q!CallGet(t)
      PROVE  /\ pc'[t] = "get" /\ arg' = arg /\ queue' = queue
             /\ \A u \in Peers : u # t => SameCall(pc, pc', u)
  BY <1>0, <1>4 DEF Q!CallGet, SameCall
<1>5. ASSUME Q!GetJob(t)
      PROVE  /\ arg' = arg
             /\ \A u \in Peers : u # t => SameCall(pc, pc', u)
             /\ \/ pc'[t] = "getWait" /\ queue' = queue
                \/ pc'[t] = "idle" /\ Q!Count(queue) # 0 /\ queue' = Q!TakeFrom(queue)
  <2>1. CASE pc' = [pc EXCEPT ![t] = "getWait"] /\ UNCHANGED queue
    BY <1>0, <1>5, <2>1 DEF SameCall, Q!GetJob
  <2>2. CASE /\ Q!Count(queue) # 0 /\ queue' = Q!TakeFrom(queue)
             /\ pc' \in Q!Signal([pc EXCEPT ![t] = "idle"], "putWait", "put")
    BY <1>0, <1>2, <1>5, <2>2 DEF Q!GetJob
  <2> QED
    BY <1>5, <2>1, <2>2 DEF Q!GetJob
<1>6. ASSUME NEW jobid, Q!RemoveJob(jobid)
      PROVE  arg' = arg /\ \A u \in Peers : SameCall(pc, pc', u)
  <2>1. CASE pc' = pc
    BY <1>6, <2>1 DEF SameCall, Q!RemoveJob
  <2>2. CASE pc' \in Q!Signal(pc, "putWait", "put")
    BY <1>0, <1>6, <2>2, SignalCalls DEF Q!RemoveJob
  <2> QED
    BY <1>6, <2>1, <2>2 DEF Q!RemoveJob
<1>7. ASSUME Q!SpuriousWakeup(t)
      PROVE  arg' = arg /\ queue' = queue /\ \A u \in Peers : SameCall(pc, pc', u)
  BY <1>0, <1>7 DEF Q!SpuriousWakeup, SameCall
<1> QED
  BY <1>1, <1>3, <1>4, <1>5, <1>6, <1>7
\* In a history that is filled from the front findJob finds what there is.
LEMMA KnowsFilled ==
  ASSUME history_putidx \in Nat, Filled, NEW j
  PROVE  Knows(job_array, j) <=> \E i \in HistIdx : job_array[i] # NoEntry /\ job_array[i].id = j
<1>1. ASSUME NEW i \in HistIdx, job_array[i] # NoEntry
      PROVE  \A k \in 0 .. i : job_array[k] # NoEntry
  <2>1. i < history_putidx
    BY <1>1 DEF Filled
  <2> SUFFICES ASSUME NEW k \in 0 .. i PROVE job_array[k] # NoEntry
    OBVIOUS
  <2>2. k \in HistIdx /\ k < history_putidx
    BY <2>1, HistoryAssumption DEF HistIdx
  <2> QED
    BY <2>2 DEF Filled
<1>2. ASSUME Knows(job_array, j)
      PROVE  \E i \in HistIdx : job_array[i] # NoEntry /\ job_array[i].id = j
  BY <1>2, FindJobFinds
<1>3. ASSUME NEW i \in HistIdx, job_array[i] # NoEntry, job_array[i].id = j
      PROVE  Knows(job_array, j)
  BY <1>1, <1>3, FindJobFinds
<1> QED
  BY <1>2, <1>3

\* Only newJob makes the history know a job, its new one.
LEMMA ThreadKnows ==
  ASSUME Types, Types', HistoryLink, HistoryLink', NEW t \in Peers, ThreadStep(t)
  PROVE  /\ t \in Clients /\ NewJob(t) =>
              \A j \in JobIds : Knows(job_array', j) => Knows(job_array, j) \/ j = NewId
         /\ (t \in Clients => ~NewJob(t)) => NoNewEntry
<1>0. /\ job_array \in [HistIdx -> Entries \cup {NoEntry}]
      /\ history_putidx \in Nat /\ history_putidx' \in Nat /\ Filled /\ Filled'
  BY DEF Types, MainTypes, HistoryTypes, HistoryLink
<1>1. ASSUME NEW j, Knows(job_array', j)
      PROVE  \E i \in HistIdx : job_array'[i] # NoEntry /\ job_array'[i].id = j
  BY <1>1, FindJobFinds
<1>2. ASSUME NEW j, NEW i \in HistIdx, job_array[i] # NoEntry, job_array[i].id = j
      PROVE  Knows(job_array, j)
  BY <1>0, <1>2, KnowsFilled
<1>3. ASSUME t \in Clients, NewJob(t), NEW j \in JobIds, Knows(job_array', j), j # NewId
      PROVE  Knows(job_array, j)
  <2>1. PICK i \in HistIdx : job_array'[i] # NoEntry /\ job_array'[i].id = j
    BY <1>1, <1>3
  <2> DEFINE p == NewId % JOB_HISTORY_MAX
             e == [id |-> NewId, state |-> "WAIT", exit |-> Garbage]
  <2>2. job_array' = [job_array EXCEPT ![p] = e] /\ e.id = NewId
    BY <1>3 DEF NewJob, AddEntry
  <2> HIDE DEF p, e
  <2>3. i # p /\ job_array'[i] = job_array[i]
    BY <1>0, <1>3, <2>1, <2>2
  <2> QED
    BY <1>2, <2>1, <2>3
<1>4. ASSUME NEW k \in HistIdx, job_array[k] # NoEntry, NEW e, e.id = job_array[k].id,
             job_array' = [job_array EXCEPT ![k] = e]
      PROVE  NoNewEntry
  <2> SUFFICES ASSUME NEW j \in JobIds, Knows(job_array', j) PROVE Knows(job_array, j)
    BY DEF NoNewEntry
  <2>1. PICK i \in HistIdx : job_array'[i] # NoEntry /\ job_array'[i].id = j
    BY <1>1
  <2> QED
    BY <1>0, <1>2, <1>4, <2>1
<1>5. ASSUME Knows(job_array, req[t]), job_array' = MarkUnsubmitted(job_array, req[t])
      PROVE  NoNewEntry
  <2> DEFINE i == FindJob(job_array, req[t])
             e == [job_array[i] EXCEPT !.state = "UNSUBMITED"]
  <2>1. i \in HistIdx /\ job_array[i] # NoEntry
    BY <1>5, FindJobFinds
  <2>2. job_array' = [job_array EXCEPT ![i] = e]
    BY <1>5 DEF MarkUnsubmitted
  <2> HIDE DEF i
  <2>3. job_array[i] \in EntryType(0 .. 255)
    BY <1>0, <2>1, EntriesTyped
  <2>4. e.id = job_array[i].id
    BY <2>3 DEF EntryType
  <2> HIDE DEF e
  <2> QED
    BY <1>4, <2>1, <2>2, <2>4
<1>6. ASSUME NEW r \in Reports, job_array' = SetState(job_array, r.id, r.state, r.exit)
      PROVE  NoNewEntry
  <2> DEFINE i == FindJob(job_array, r.id)
             e == [id |-> r.id, state |-> r.state, exit |-> r.exit]
  <2>1. CASE Knows(job_array, r.id)
    <3>1. i \in HistIdx /\ job_array[i] # NoEntry /\ job_array[i].id = r.id
      BY <2>1, FindJobFinds
    <3>2. job_array' = [job_array EXCEPT ![i] = e] /\ e.id = r.id
      BY <1>6, <2>1 DEF SetState
    <3> HIDE DEF i, e
    <3> QED
      BY <1>4, <3>1, <3>2
  <2>2. CASE ~Knows(job_array, r.id)
    BY <1>6, <2>2 DEF SetState, NoNewEntry
  <2> QED
    BY <2>1, <2>2
<1>7. ASSUME UNCHANGED histVars PROVE NoNewEntry
  BY <1>7 DEF histVars, NoNewEntry
<1> QED
  BY <1>3, <1>5, <1>6, <1>7, ThreadHistory
\* A step of a thread changes what that thread has in hand, and nothing else.
LEMMA HandMoves ==
  ASSUME NEW t \in Peers, \A e \in Execs : e # t => at'[e] = at[e] /\ held'[e] = held[e]
  PROVE  /\ t \in Clients => InHand' = InHand
         /\ t \in Execs => InHand' = [InHand EXCEPT ![t] =
                IF at'[t] \in {"check", "select", "send"} THEN held'[t] ELSE NoJob]
<1>1. ASSUME t \in Clients PROVE \A e \in Execs : e # t
  BY <1>1, PeerAssumption
<1> QED
  BY <1>1 DEF InHand

\* The calls of all threads fit if those of the thread that made a step do.
LEMMA CallsMove ==
  ASSUME Calls, NEW t \in Peers, InCall(t)',
         \A u \in Peers : u # t => at'[u] = at[u] /\ SameCall(pc, pc', u) /\ arg'[u] = arg[u],
         \A e \in Execs : e # t => held'[e] = held[e],
         t \in Execs /\ at'[t] \in {"check", "select", "send"} => held'[t] # NoJob
  PROVE  Calls'
<1>1. ASSUME NEW u \in Peers, u # t PROVE InCall(u)'
  BY <1>1 DEF Calls, InCall, SameCall
<1>2. ASSUME NEW e \in Execs, at'[e] \in {"check", "select", "send"} PROVE held'[e] # NoJob
  <2>1. e \in Peers
    BY DEF Peers
  <2> QED
    BY <1>2, <2>1 DEF Calls
<1> QED
  BY <1>1, <1>2 DEF Calls

\* What a step of a thread does with the jobs.
JobMoves(t) ==
  \/ Stays
  \/ \E job \in Jobs : Enters(t, job)
  \/ Deposits(t)
  \/ t \in Execs /\ (Takes(t) \/ Returns(t) \/ SendsOff(t))
  \/ t \in Clients /\ at[t] = "remove" /\ \E j \in JobIds : Withdraws(j)

\* A thread goes on at a stage within the same call, or outside of any.
HandStages == {"check", "select", "send"}

Quiet(t, stage) ==
  /\ Goto(t, stage) \/ (at' = at /\ stage = at[t])
  /\ \A u \in Peers : SameCall(pc, pc', u)
  /\ UNCHANGED <<queue, arg, history_putidx, stopped>>
  /\ live' \subseteq live /\ \A job \in live : Knows(job_array, job.id) => job \in live'
  /\ \A e \in Execs : e # t => held'[e] = held[e]
  /\ stage \in {"submit", "back"} <=> at[t] \in {"submit", "back"}
  /\ stage = "take" <=> at[t] = "take"
  /\ t \in Execs => /\ stage \in HandStages <=> at[t] \in HandStages
                    /\ stage \in HandStages => held'[t] = held[t]

\* Such a step moves no job.
LEMMA QuietMoves ==
  ASSUME Types, Calls, NoNewEntry, NEW t \in Peers, NEW stage, Quiet(t, stage)
  PROVE  Calls' /\ Stays
<1> USE DEF Quiet, HandStages
<1>0. at \in [Peers -> ClientStages \cup ExecStages]
  BY DEF Types, MainTypes, StageTypes
<1>1. at'[t] = stage /\ \A u \in Peers : u # t => at'[u] = at[u]
  BY <1>0 DEF Goto
<1>2. InCall(t)'
  BY <1>1 DEF Calls, InCall, SameCall
<1>3. Calls'
  <2>1. t \in Execs /\ stage \in {"check", "select", "send"} => held'[t] # NoJob
    BY DEF Calls
  <2> QED
    BY <1>1, <1>2, <2>1, CallsMove
<1>4. InHand' = InHand
  <2>1. ASSUME NEW e \in Execs
        PROVE  /\ at'[e] \in {"check", "select", "send"} <=> at[e] \in {"check", "select", "send"}
               /\ at[e] \in {"check", "select", "send"} => held'[e] = held[e]
    <3>1. e \in Peers
      BY DEF Peers
    <3> QED
      BY <1>1, <3>1
  <2> QED
    BY <2>1 DEF InHand
<1> QED
  BY <1>3, <1>4 DEF Stays
\* The steps that move no job.
LEMMA QuietSteps ==
  ASSUME Types, Calls, NoNewEntry, NEW t \in Peers, UNCHANGED stopped,
         \/ Accept(t) \/ Leave(t) \/ QueueState(t) \/ Misuse(t)
         \/ t \in Clients /\ (JobState(t) \/ Unsubmit(t) \/ MarkJob(t))
         \/ t \in Execs /\ (RecvAck(t) \/ Relink(t) \/ ChangeStateJob(t))
  PROVE  Calls' /\ Stays
<1>0. /\ \A u \in Peers : SameCall(pc, pc, u)
      /\ t \in Clients => t \notin Execs
      /\ held \in [Execs -> Jobs \cup {NoJob}]
  BY PeerAssumption DEF SameCall, Types, MainTypes, HeapTypes
<1> USE <1>0 DEF Quiet, HandStages, mainVars, queueVars, histVars
<1>1. ASSUME Accept(t) PROVE Quiet(t, at[t]) \/ Quiet(t, "recv")
  BY <1>1 DEF Accept
<1>2. ASSUME Leave(t) PROVE Quiet(t, "off")
  BY <1>2 DEF Leave
<1>3. ASSUME QueueState(t) \/ Misuse(t) \/ JobState(t) \/ ChangeStateJob(t) PROVE Quiet(t, at[t])
  BY <1>3 DEF QueueState, Misuse, JobState, ChangeStateJob
<1>4. ASSUME t \in Clients, Unsubmit(t) PROVE Quiet(t, at[t]) \/ Quiet(t, "remove")
  BY <1>4 DEF Unsubmit, Recv
<1>5. ASSUME t \in Clients, MarkJob(t) PROVE Quiet(t, at[t]) \/ Quiet(t, "recv")
  BY <1>5 DEF MarkJob
<1>6. ASSUME RecvAck(t) PROVE Quiet(t, "send")
  BY <1>6 DEF RecvAck
<1>7. ASSUME t \in Execs, Relink(t) PROVE Quiet(t, at[t]) \/ Quiet(t, "off")
  BY <1>7 DEF Relink
<1> QED
  BY <1>1, <1>2, <1>3, <1>4, <1>5, <1>6, <1>7, QuietMoves

\* newJob.
LEMMA NewJobEnters ==
  ASSUME Types, Links, SubmitsCounted, MaxSubmits <= ID_MOD, Calls,
         NEW t \in Peers, t \in Clients, ThreadStep(t), NewJob(t), ~stopped, submits' = submits,
         \A j \in JobIds : Knows(job_array', j) => Knows(job_array, j) \/ j = NewId
  PROVE  Calls' /\ \E job \in Jobs : Enters(t, job) /\ Q!CallPut(t, job)
<1> DEFINE msg == Head(toMain[t])
           job == [id |-> NewId, port |-> IF msg.type = "SUB_INTERACTIVE" THEN msg.port
                                          ELSE NoAddr]
<1>0. QueueTypes /\ at \in [Peers -> ClientStages \cup ExecStages] /\ t \notin Execs
  BY PeerAssumption DEF Types, MainTypes, StageTypes
<1>1. /\ live' = live \cup {job} /\ history_putidx' = history_putidx + 1
      /\ toMain[t] # <<>> /\ at[t] = "recv" /\ Q!CallPut(t, job)
      /\ at' = [at EXCEPT ![t] = "submit"] /\ held' = held /\ stopped' = stopped
  BY DEF NewJob, Recv, Arrived, Goto, ThreadStep
<1>2. NewId = history_putidx /\ NewId \in JobIds
  <2>1. history_putidx \in Nat /\ history_putidx < MaxSubmits /\ MaxSubmits \in Nat
    BY CountRead, ThreadPending, PeerAssumption DEF Types, MainTypes, HistoryTypes
  <2>2. history_putidx \in 0 .. ID_MOD - 1
    BY <2>1, HistoryAssumption
  <2> QED
    BY <2>2, HistoryAssumption, ModSmall DEF NewId, JobIds
<1>3. msg \in ClientRequests
  <2>1. toMain[t] \in Seq(ClientRequests)
    BY DEF Types, NetTypes, ToMainType
  <2> QED
    BY <1>1, <2>1, MessageQueue
<1>4. job \in Jobs /\ job.id = NewId
  BY <1>2, <1>3 DEF ClientRequests, Jobs
<1> HIDE DEF job
<1>5. job # NoJob
  BY <1>4, MainAssumption
<1>6. /\ pc'[t] = "put" /\ arg'[t] = job /\ queue' = queue
      /\ \A u \in Peers : u # t => SameCall(pc, pc', u) /\ arg'[u] = arg[u]
  BY <1>0, <1>1, QueueCalls
<1>7. arg[t] = NoJob /\ arg' = [arg EXCEPT ![t] = job]
  BY <1>1 DEF Calls, InCall, Q!CallPut
<1>8. Calls'
  <2>1. InCall(t)'
    BY <1>0, <1>1, <1>5, <1>6 DEF InCall
  <2>2. \A u \in Peers : u # t => at'[u] = at[u]
    BY <1>1
  <2> QED
    BY <1>0, <1>1, <1>6, <2>1, <2>2, CallsMove
<1>9. InHand' = InHand
  <2>1. \A e \in Execs : e # t => at'[e] = at[e] /\ held'[e] = held[e]
    BY <1>0, <1>1 DEF Peers
  <2> QED
    BY <2>1, HandMoves
<1>10. Enters(t, job)
  BY <1>1, <1>2, <1>4, <1>6, <1>7, <1>9 DEF Enters
<1> QED
  BY <1>1, <1>4, <1>8, <1>10
\* putJob, called by newJob or by putJobBack.
LEMMA PutJobDeposits ==
  ASSUME Types, Calls, NoNewEntry, NEW t \in Peers, UNCHANGED stopped, ~stopped,
         \/ t \in Clients /\ FinishSubmit(t)
         \/ t \in Execs /\ FinishBack(t)
  PROVE  Calls' /\ (Stays \/ Deposits(t)) /\ Q!PutJob(t)
<1>0. QueueTypes /\ at \in [Peers -> ClientStages \cup ExecStages]
  BY DEF Types, MainTypes, StageTypes
<1>1. PICK next \in {"recv", "relink"} : PutJob(t, next)
  BY DEF FinishSubmit, FinishBack
<1>2. /\ Q!PutJob(t) /\ Goto(t, IF pc'[t] = "idle" THEN next ELSE at[t])
      /\ at[t] \in {"submit", "back"} /\ pc[t] = "put"
      /\ UNCHANGED <<job_array, history_putidx, live, held>>
  BY <1>1 DEF PutJob, FinishSubmit, FinishBack, histVars, Q!PutJob
<1>3. /\ \A u \in Peers : u # t => SameCall(pc, pc', u) /\ arg'[u] = arg[u]
      /\ \/ pc'[t] = "putWait" /\ queue' = queue /\ arg' = arg
         \/ /\ pc'[t] = "idle" /\ Q!Count(queue) # MAX_JOBS_QUEUE
            /\ queue' = Q!PutInto(queue, arg[t]) /\ arg' = [arg EXCEPT ![t] = NoJob]
  BY <1>0, <1>2, QueueCalls
<1>4. ASSUME pc'[t] = "putWait", queue' = queue, arg' = arg PROVE Calls' /\ Stays
  <2>1. \A u \in Peers : SameCall(pc, pc', u)
    BY <1>2, <1>3, <1>4 DEF SameCall
  <2>2. Quiet(t, at[t])
    BY <1>2, <1>4, <2>1 DEF Quiet, HandStages
  <2> QED
    BY <2>2, QuietMoves
<1>5. ASSUME pc'[t] = "idle", Q!Count(queue) # MAX_JOBS_QUEUE,
             queue' = Q!PutInto(queue, arg[t]), arg' = [arg EXCEPT ![t] = NoJob]
      PROVE  Calls' /\ Deposits(t)
  <2>1. at' = [at EXCEPT ![t] = next] /\ at'[t] = next /\ \A u \in Peers : u # t => at'[u] = at[u]
    BY <1>0, <1>2, <1>5 DEF Goto
  <2>2. InCall(t)'
    BY <1>0, <1>5, <2>1 DEF InCall, QueueTypes
  <2>3. Calls'
    BY <1>2, <1>3, <2>1, <2>2, CallsMove
  <2>4. InHand' = InHand
    <3>1. ASSUME NEW e \in Execs
          PROVE  at'[e] \in {"check", "select", "send"} <=> at[e] \in {"check", "select", "send"}
      BY <1>2, <2>1 DEF Peers
    <3> QED
      BY <1>2, <3>1 DEF InHand
  <2>5. arg[t] # NoJob
    BY <1>2 DEF Calls, InCall
  <2> QED
    BY <1>2, <1>5, <2>3, <2>4, <2>5 DEF Deposits, SameBooks
<1> QED
  BY <1>2, <1>3, <1>4, <1>5

\* The first half of sendJob.
LEMMA TakeJobTakes ==
  ASSUME Types, Calls, NoNewEntry, NEW t \in Peers, UNCHANGED stopped, ~stopped,
         t \in Execs, TakeJob(t), RingFits
  PROVE  Calls' /\ (Stays \/ Takes(t)) /\ Q!GetJob(t)
<1>0. /\ QueueTypes /\ at \in [Peers -> ClientStages \cup ExecStages]
      /\ held \in [Execs -> Jobs \cup {NoJob}]
  BY DEF Types, MainTypes, StageTypes, HeapTypes
<1>1. /\ Q!GetJob(t) /\ at[t] = "take" /\ pc[t] = "get"
      /\ held' = [held EXCEPT ![t] = IF pc'[t] = "idle" THEN Q!Oldest(queue) ELSE @]
      /\ Goto(t, IF pc'[t] = "idle" THEN "check" ELSE "take")
      /\ UNCHANGED <<job_array, history_putidx, live>>
  BY DEF TakeJob, histVars, Q!GetJob
<1>2. /\ arg' = arg
      /\ \A u \in Peers : u # t => SameCall(pc, pc', u)
      /\ \/ pc'[t] = "getWait" /\ queue' = queue
         \/ pc'[t] = "idle" /\ Q!Count(queue) # 0 /\ queue' = Q!TakeFrom(queue)
  BY <1>0, <1>1, QueueCalls
<1>3. ASSUME pc'[t] = "getWait", queue' = queue PROVE Calls' /\ Stays
  <2>1. \A u \in Peers : SameCall(pc, pc', u)
    BY <1>1, <1>2, <1>3 DEF SameCall
  <2>2. Quiet(t, "take")
    BY <1>0, <1>1, <1>2, <1>3, <2>1 DEF Quiet, HandStages
  <2> QED
    BY <2>2, QuietMoves
<1>4. ASSUME pc'[t] = "idle", Q!Count(queue) # 0, queue' = Q!TakeFrom(queue)
      PROVE  Calls' /\ Takes(t)
  <2>1. at'[t] = "check" /\ \A u \in Peers : u # t => at'[u] = at[u]
    BY <1>0, <1>1, <1>4 DEF Goto
  <2>2. held'[t] = Q!Oldest(queue) /\ \A e \in Execs : e # t => held'[e] = held[e]
    BY <1>0, <1>1, <1>4
  <2>3. Q!Oldest(queue) # NoJob
    <3>1. Q!Count(queue) \in Nat \ {0} /\ queue \in Q!QueueType(Jobs)
      BY <1>4, PlaceTypes
    <3>2. Q!Oldest(queue) = Q!Items(queue)[1]
      BY <3>1, RingTake DEF RingFits
    <3>3. 1 \in 1 .. Q!Count(queue)
      BY <3>1
    <3> QED
      BY <3>2, <3>3, MainAssumption DEF RingFits
  <2>4. InCall(t)'
    BY <1>1, <1>2, <1>4, <2>1 DEF InCall, Calls
  <2>5. Calls'
    BY <1>2, <2>1, <2>2, <2>3, <2>4, CallsMove
  <2>6. InHand' = [InHand EXCEPT ![t] = Q!Oldest(queue)]
    BY <2>1, <2>2, HandMoves DEF Peers
  <2>7. InHand[t] = NoJob
    BY <1>1 DEF InHand
  <2> QED
    BY <1>1, <1>2, <1>4, <2>5, <2>6, <2>7 DEF Takes, SameBooks
<1> QED
  BY <1>1, <1>2, <1>3, <1>4

\* putJobBack, called by sendJob.
LEMMA PutBackReturns ==
  ASSUME Types, Calls, NEW t \in Peers, t \in Execs, PutBack(t), at[t] \in HandStages,
         UNCHANGED <<job_array, history_putidx, stopped, live, held>>
  PROVE  Calls' /\ Returns(t)
<1> USE DEF HandStages
<1>0. QueueTypes /\ at \in [Peers -> ClientStages \cup ExecStages]
  BY DEF Types, MainTypes, StageTypes
<1>1. Q!CallPut(t, held[t]) /\ at'[t] = "back" /\ \A u \in Peers : u # t => at'[u] = at[u]
  BY <1>0 DEF PutBack, Goto
<1>2. /\ pc'[t] = "put" /\ arg'[t] = held[t] /\ queue' = queue
      /\ \A u \in Peers : u # t => SameCall(pc, pc', u) /\ arg'[u] = arg[u]
  BY <1>0, <1>1, QueueCalls
<1>3. held[t] # NoJob /\ InHand[t] = held[t] /\ arg[t] = NoJob
  BY DEF Calls, InCall, InHand
<1>4. Calls'
  <2>1. InCall(t)'
    BY <1>1, <1>2, <1>3 DEF InCall
  <2> QED
    BY <1>1, <1>2, <2>1, CallsMove
<1>5. InHand' = [InHand EXCEPT ![t] = NoJob]
  BY <1>1, HandMoves DEF Peers
<1>6. arg' = [arg EXCEPT ![t] = held[t]]
  BY <1>1 DEF Q!CallPut
<1> QED
  BY <1>2, <1>3, <1>4, <1>5, <1>6 DEF Returns, SameBooks

\* The exchange with an execution server.
LEMMA ExchangeMoves ==
  ASSUME Types, Calls, NEW t \in Peers, UNCHANGED stopped, t \in Execs, ExchangeStep(t)
  PROVE  /\ Calls'
         /\ Stays \/ Returns(t) \/ SendsOff(t)
         /\ UNCHANGED queueVars \/ (Returns(t) /\ Q!CallPut(t, held[t]))
<1>0. /\ QueueTypes /\ at \in [Peers -> ClientStages \cup ExecStages]
      /\ held \in [Execs -> Jobs \cup {NoJob}]
  BY DEF Types, MainTypes, StageTypes, HeapTypes
<1>1. UNCHANGED <<job_array, history_putidx>> /\ NoNewEntry
  BY DEF ExchangeStep, SendCheck, RecvAck, NoAck, SendJob, histVars, NoNewEntry
<1> DEFINE G == /\ Calls'
                /\ Stays \/ Returns(t) \/ SendsOff(t)
                /\ UNCHANGED queueVars \/ (Returns(t) /\ Q!CallPut(t, held[t]))
<1>2. ASSUME PutBack(t), at[t] \in HandStages, UNCHANGED <<live, held>> PROVE G
  BY <1>1, <1>2, PutBackReturns DEF PutBack
<1>3. ASSUME NEW stage, Quiet(t, stage), UNCHANGED queueVars PROVE G
  BY <1>1, <1>3, QuietMoves
<1>4. \A u \in Peers : SameCall(pc, pc, u)
  BY DEF SameCall
<1>5. ASSUME SendCheck(t) PROVE G
  <2>1. CASE PutBack(t)
    BY <1>2, <1>5, <2>1 DEF SendCheck, HandStages
  <2>2. CASE Goto(t, "select") /\ UNCHANGED <<pc, arg, queue, overrun>>
    <3>1. Quiet(t, "select")
      BY <1>1, <1>4, <1>5, <2>2 DEF SendCheck, HandStages, Quiet
    <3> QED
      BY <1>3, <2>2, <3>1 DEF queueVars
  <2> QED
    BY <1>5, <2>1, <2>2 DEF SendCheck
<1>6. ASSUME RecvAck(t) PROVE G
  <2>1. Quiet(t, "send") /\ UNCHANGED queueVars
    BY <1>1, <1>4, <1>6 DEF RecvAck, HandStages, Quiet, queueVars
  <2> QED
    BY <1>3, <2>1
<1>7. ASSUME NoAck(t) PROVE G
  BY <1>2, <1>7 DEF NoAck, HandStages
<1>8. ASSUME SendJob(t) PROVE G
  <2>1. CASE PutBack(t) /\ UNCHANGED <<live, held>>
    BY <1>2, <1>8, <2>1 DEF SendJob, HandStages
  <2>2. CASE UNCHANGED <<live, held, at, queueVars>>
    <3>1. Quiet(t, at[t])
      BY <1>1, <1>4, <1>8, <2>2 DEF SendJob, Quiet, queueVars
    <3> QED
      BY <1>3, <2>2, <3>1
  <2>3. CASE /\ live' = live \ {held[t]} /\ held' = [held EXCEPT ![t] = NoJob]
             /\ Goto(t, "recv") /\ UNCHANGED queueVars
    <3>1. /\ at'[t] = "recv" /\ \A u \in Peers : u # t => at'[u] = at[u]
          /\ \A e \in Execs : e # t => held'[e] = held[e]
          /\ at[t] = "send"
      BY <1>0, <1>8, <2>3 DEF Goto, SendJob
    <3>2. InHand[t] = held[t] /\ held[t] # NoJob
      BY <3>1 DEF InHand, Calls
    <3>3. InHand' = [InHand EXCEPT ![t] = NoJob]
      BY <3>1, HandMoves DEF Peers
    <3>4. InCall(t)'
      BY <2>3, <3>1 DEF InCall, Calls, queueVars
    <3>5. Calls'
      BY <1>4, <2>3, <3>1, <3>4, CallsMove DEF queueVars
    <3>6. SendsOff(t)
      BY <1>1, <2>3, <3>2, <3>3 DEF SendsOff, SameBooks, queueVars
    <3> QED
      BY <2>3, <3>5, <3>6
  <2> QED
    BY <1>8, <2>1, <2>2, <2>3 DEF SendJob
<1> QED
  BY <1>5, <1>6, <1>7, <1>8 DEF ExchangeStep
\* removeJob.  Where its shift leaves the array it has not looked at any job.
LEMMA RemoveJobWithdraws ==
  ASSUME Types, Calls, NEW t \in Peers, UNCHANGED stopped, ~stopped, t \in Clients, RemoveJob(t)
  PROVE  /\ Calls'
         /\ Stays \/ \E j \in JobIds : Withdraws(j)
         /\ UNCHANGED queueVars \/ \E j \in JobIds : Q!RemoveJob(j)
<1>0. /\ QueueTypes /\ at \in [Peers -> ClientStages \cup ExecStages] /\ t \notin Execs
      /\ req[t] \in JobIds /\ queue \in Q!QueueType(Jobs)
      /\ \A u \in Peers : SameCall(pc, pc, u)
  BY PeerAssumption DEF Types, MainTypes, StageTypes, HeapTypes, QueueTypes, SameCall
<1>1. /\ at[t] = "remove" /\ NoNewEntry
      /\ UNCHANGED <<job_array, history_putidx, held>>
  BY DEF RemoveJob, histVars, NoNewEntry
<1>2. CASE Goto(t, "mark") /\ UNCHANGED <<queueVars, live>>
  <2>1. Quiet(t, "mark")
    BY <1>0, <1>1, <1>2 DEF Quiet, queueVars
  <2> QED
    BY <1>1, <1>2, <2>1, QuietMoves
<1>3. CASE UNCHANGED <<queueVars, live, at>>
  <2>1. Quiet(t, at[t])
    BY <1>0, <1>1, <1>3 DEF Quiet, queueVars
  <2> QED
    BY <1>1, <1>3, <2>1, QuietMoves
<1>4. CASE /\ Q!Count(queue) # 0 /\ Q!RemoveJob(req[t]) /\ Goto(t, "mark")
           /\ live' = {job \in live : ~(job \in Examined(req[t]) /\ job.id = req[t])}
  <2>1. arg' = arg /\ \A u \in Peers : SameCall(pc, pc', u)
    BY <1>0, <1>4, QueueCalls
  <2>2. CASE Q!ShiftOverruns(queue) /\ queue' = queue
    <3>1. Q!Slot(queue.get_idx) \in Nat /\ Q!Slot(queue.put_idx) = 0
      BY <1>0, <2>2, MainAssumption DEF Q!ShiftOverruns, Q!Slot, Q!QueueType, Q!Indices
    <3>2. Examined(req[t]) = {}
      BY <1>0, <3>1, ExaminedSlots
    <3>3. live' = live
      BY <1>4, <3>2
    <3>4. Quiet(t, "mark")
      BY <1>0, <1>1, <1>4, <2>1, <2>2, <3>3 DEF Quiet
    <3> QED
      BY <1>0, <1>1, <1>4, <3>4, QuietMoves
  <2>3. CASE ~Q!ShiftOverruns(queue) /\ queue' = Q!RemoveFrom(queue, req[t])
    <3>1. at'[t] = "mark" /\ \A u \in Peers : u # t => at'[u] = at[u]
      BY <1>0, <1>4 DEF Goto
    <3>2. InCall(t)'
      BY <1>1, <2>1, <3>1 DEF InCall, Calls, SameCall
    <3>3. Calls'
      BY <1>0, <1>1, <2>1, <3>1, <3>2, CallsMove
    <3>4. InHand' = InHand
      BY <1>1, <3>1, HandMoves DEF Peers
    <3>5. Withdraws(req[t])
      BY <1>1, <1>4, <2>1, <2>3, <3>4 DEF Withdraws, SameBooks
    <3> QED
      BY <1>0, <1>4, <3>3, <3>5
  <2> QED
    BY <1>4, <2>2, <2>3 DEF Q!RemoveJob
<1> QED
  BY <1>2, <1>3, <1>4 DEF RemoveJob

\* The request of an execution server: its thread is in sendJob now.
LEMMA JobReqMoves ==
  ASSUME Types, Calls, NEW t \in Peers, UNCHANGED stopped, t \in Execs, JobReq(t)
  PROVE  Calls' /\ Stays /\ Q!CallGet(t)
<1>0. QueueTypes /\ at \in [Peers -> ClientStages \cup ExecStages]
  BY DEF Types, MainTypes, StageTypes
<1>1. /\ at[t] = "recv" /\ Q!CallGet(t) /\ UNCHANGED <<job_array, history_putidx, live, held>>
      /\ at'[t] = "take" /\ \A u \in Peers : u # t => at'[u] = at[u]
  BY <1>0 DEF JobReq, Recv, Goto, histVars
<1>2. /\ pc'[t] = "get" /\ arg' = arg /\ queue' = queue
      /\ \A u \in Peers : u # t => SameCall(pc, pc', u)
  BY <1>0, <1>1, QueueCalls
<1>3. InCall(t)'
  BY <1>1, <1>2 DEF Calls, InCall
<1>4. Calls'
  BY <1>1, <1>2, <1>3, CallsMove
<1>5. InHand' = InHand
  <2>1. ASSUME NEW e \in Execs
        PROVE  at'[e] \in {"check", "select", "send"} <=> at[e] \in {"check", "select", "send"}
    BY <1>1 DEF Peers
  <2> QED
    BY <1>1, <2>1 DEF InHand
<1> QED
  BY <1>1, <1>2, <1>4, <1>5 DEF Stays, NoNewEntry
\* What a step of a thread does to the queue: it calls putJob with a job that
\* is new, or that it had in hand.
QueueMoves(t) ==
  \/ UNCHANGED queueVars
  \/ \E job \in Jobs : Enters(t, job) /\ Q!CallPut(t, job)
  \/ t \in Execs /\ Returns(t) /\ Q!CallPut(t, held[t])
  \/ Q!PutJob(t)
  \/ t \in Execs /\ (Q!CallGet(t) \/ Q!GetJob(t))
  \/ \E j \in JobIds : Q!RemoveJob(j)

\* Every step of a thread is one of the moves.
LEMMA ThreadPlaces ==
  ASSUME MaxSubmits <= ID_MOD, Types, Types', Links, HistoryLink, HistoryLink', Calls, RingFits,
         NEW t \in Peers, ThreadStep(t), submits' = submits
  PROVE  Calls' /\ JobMoves(t) /\ QueueMoves(t)
<1> DEFINE G == Calls' /\ JobMoves(t) /\ QueueMoves(t)
<1>0. stopped' = stopped /\ SubmitsCounted /\ (t \in Clients => t \notin Execs)
  BY PeerAssumption DEF ThreadStep, HistoryLink
<1>1. ASSUME t \in Clients, NewJob(t), ~stopped PROVE G
  BY <1>0, <1>1, ThreadKnows, NewJobEnters DEF JobMoves, QueueMoves
<1>2. ASSUME t \in Clients => ~NewJob(t) PROVE NoNewEntry
  BY <1>2, ThreadKnows
<1>3. ASSUME NoNewEntry,
             \/ Accept(t) \/ Leave(t) \/ QueueState(t) \/ Misuse(t)
             \/ t \in Clients /\ (JobState(t) \/ Unsubmit(t) \/ MarkJob(t))
             \/ t \in Execs /\ (RecvAck(t) \/ Relink(t) \/ ChangeStateJob(t))
      PROVE  G
  <2>1. Calls' /\ Stays
    BY <1>0, <1>3, QuietSteps
  <2>2. UNCHANGED queueVars
    BY <1>3 DEF Accept, Leave, QueueState, Misuse, JobState, Unsubmit, MarkJob, RecvAck, Relink,
       ChangeStateJob, mainVars
  <2> QED
    BY <2>1, <2>2 DEF JobMoves, QueueMoves
<1>4. ASSUME NoNewEntry, ~stopped,
             (t \in Clients /\ FinishSubmit(t)) \/ (t \in Execs /\ FinishBack(t))
      PROVE  G
  BY <1>0, <1>4, PutJobDeposits DEF JobMoves, QueueMoves
<1>5. ASSUME ~stopped, t \in Clients, RemoveJob(t) PROVE G
  <2>1. at[t] = "remove"
    BY <1>5 DEF RemoveJob
  <2> QED
    BY <1>0, <1>5, <2>1, RemoveJobWithdraws DEF JobMoves, QueueMoves
<1>6. ASSUME t \in Execs, ExchangeStep(t) PROVE G
  BY <1>0, <1>6, ExchangeMoves DEF JobMoves, QueueMoves
<1>7. ASSUME t \in Execs, JobReq(t) PROVE G
  BY <1>0, <1>7, JobReqMoves DEF JobMoves, QueueMoves
<1>8. ASSUME NoNewEntry, ~stopped, t \in Execs, TakeJob(t) PROVE G
  BY <1>0, <1>8, TakeJobTakes DEF JobMoves, QueueMoves
<1> HIDE DEF G
<1>9. ASSUME t \in Clients, NewJob(t), ThreadStep(t) PROVE G
  <2>1. CASE ~stopped
    BY <1>1, <1>9, <2>1
  <2>2. CASE stopped
    <3>1. Accept(t) \/ Leave(t) \/ QueueState(t) \/ Misuse(t)
      BY <1>0, <1>9, <2>2 DEF ThreadStep
    <3>2. at[t] = "recv" /\ at'[t] = "submit"
      BY <1>9 DEF NewJob, Recv, Goto, Types, MainTypes, StageTypes
    <3>3. at'[t] # "submit"
      BY <3>1, <3>2 DEF Accept, Leave, QueueState, Misuse, mainVars, Goto,
         Types, MainTypes, StageTypes
    <3> QED
      BY <3>2, <3>3
  <2> QED
    BY <2>1, <2>2
<1>10. ASSUME t \in Clients => ~NewJob(t) PROVE G
  <2>1. NoNewEntry
    BY <1>2, <1>10
  <2>2. CASE Accept(t) \/ Leave(t) \/ QueueState(t) \/ Misuse(t)
    BY <1>3, <2>1, <2>2
  <2>3. CASE t \in Execs /\ ExchangeStep(t)
    BY <1>6, <2>3
  <2>4. CASE ~stopped /\ t \in Clients /\ ClientThread(t)
    BY <1>3, <1>4, <1>5, <1>10, <2>1, <2>4 DEF ClientThread
  <2>5. CASE ~stopped /\ t \in Execs /\ ExecThread(t)
    BY <1>3, <1>4, <1>7, <1>8, <2>1, <2>5 DEF ExecThread
  <2> QED
    BY <2>2, <2>3, <2>4, <2>5 DEF ThreadStep
<1> QED
  BY <1>9, <1>10 DEF G
\* Every job in its place: the calls of the threads, the ring and the pointers.
Placement == Calls /\ RingFits /\ InPlace

\* The moves keep it; but for removeJob they leave no allocated job without a place.
LEMMA MovesKeep ==
  ASSUME Types, Placement, Q!InOrder, NEW t \in Peers, Calls', JobMoves(t)
  PROVE  Placement' /\ (NoLeak /\ (t \in Clients => at[t] # "remove") => NoLeak')
<1> USE DEF Placement
<1> DEFINE G == Placement' /\ (NoLeak /\ (t \in Clients => at[t] # "remove") => NoLeak')
<1>1. ASSUME Stays PROVE G
  BY <1>1, StaysKeeps
<1>2. ASSUME NEW job \in Jobs, Enters(t, job) PROVE G
  BY <1>2, EntersKeeps
<1>3. ASSUME Deposits(t) PROVE G
  BY <1>3, DepositsKeeps
<1>4. ASSUME t \in Execs, Takes(t) PROVE G
  BY <1>4, TakesKeeps
<1>5. ASSUME t \in Execs, Returns(t) PROVE G
  BY <1>5, ReturnsKeeps
<1>6. ASSUME t \in Execs, SendsOff(t) PROVE G
  BY <1>6, SendsOffKeeps
<1>7. ASSUME t \in Clients, at[t] = "remove", NEW j \in JobIds, Withdraws(j) PROVE G
  BY <1>7, WithdrawsKeeps
<1> HIDE DEF G
<1> QED
  BY <1>1, <1>2, <1>3, <1>4, <1>5, <1>6, <1>7 DEF JobMoves, G

\* Every step of the system keeps every job in its place, as long as the queue is
\* in order.
LEMMA PlacesStep ==
  ASSUME MaxSubmits <= ID_MOD
  PROVE  (Types /\ Types' /\ Links /\ HistoryLink /\ HistoryLink' /\ Placement /\ Q!InOrder
            /\ [Next]_vars)
         => Placement' /\ (NoLeak /\ (\A c \in Clients : at[c] # "remove") => NoLeak')
<1> SUFFICES ASSUME Types, Types', Links, HistoryLink, HistoryLink', Placement, Q!InOrder,
                    [Next]_vars
             PROVE  Placement' /\ (NoLeak /\ (\A c \in Clients : at[c] # "remove") => NoLeak')
  OBVIOUS
<1> DEFINE G == Placement' /\ (NoLeak /\ (\A c \in Clients : at[c] # "remove") => NoLeak')
<1>1. ASSUME Stays, Calls' PROVE G
  BY <1>1, StaysKeeps DEF Placement
<1>2. ASSUME UNCHANGED mainVars PROVE G
  <2>1. Calls'
    BY <1>2 DEF Placement, Calls, InCall, mainVars, queueVars
  <2>2. InHand' = InHand
    BY <1>2 DEF InHand, mainVars
  <2>3. Stays
    BY <1>2, <2>2 DEF Stays, NoNewEntry, mainVars, queueVars, histVars
  <2> QED
    BY <1>1, <2>1, <2>3
<1>3. CASE MainStep
  <2>1. ASSUME NEW t \in Peers, ThreadStep(t) PROVE G
    <3>1. submits' = submits
      BY <1>3 DEF MainStep, clientVars
    <3>2. Calls' /\ JobMoves(t)
      BY <2>1, <3>1, ThreadPlaces DEF Placement
    <3> QED
      BY <3>2, MovesKeep
  <2>2. ASSUME NEW t \in Peers, Wakeup(t), UNCHANGED stopped PROVE G
    <3>0. QueueTypes
      BY DEF Types, MainTypes
    <3>1. arg' = arg /\ queue' = queue /\ \A u \in Peers : SameCall(pc, pc', u)
      BY <2>2, <3>0, QueueCalls DEF Wakeup
    <3>2. Quiet(t, at[t]) /\ NoNewEntry
      BY <2>2, <3>1 DEF Quiet, NoNewEntry, Wakeup, histVars
    <3> QED
      BY <1>1, <3>2, QuietMoves DEF Placement
  <2>3. ASSUME Stop PROVE G
    <3>1. Calls'
      BY <2>3 DEF Stop, Placement, Calls, InCall, queueVars
    <3>2. InHand' = InHand
      BY <2>3 DEF Stop, InHand
    <3>3. StopsAll
      BY <2>3, <3>2 DEF Stop, StopsAll, QueueDestroy, queueVars, histVars
    <3> QED
      BY <3>1, <3>3, StopKeeps DEF Placement
  <2> QED
    BY <1>3, <2>1, <2>2, <2>3 DEF MainStep, MainNext
<1>4. CASE ExecStep \/ ClientStep
  BY <1>2, <1>4 DEF ExecStep, ClientStep
<1>5. CASE UNCHANGED vars
  BY <1>2, <1>5 DEF vars
<1> QED
  BY <1>3, <1>4, <1>5 DEF Next

\* Initially there are no jobs.
LEMMA PlacesInit == Init => Placement /\ NoLeak
<1> SUFFICES ASSUME Init PROVE Placement /\ NoLeak
  OBVIOUS
<1>1. /\ queue = Q!QueueInit /\ pc = [t \in Peers |-> "idle"] /\ arg = [t \in Peers |-> NoJob]
      /\ live = {} /\ at = [t \in Peers |-> "off"]
  <2>1. Peers \cup Execs = Peers
    BY DEF Peers
  <2> QED
    BY <2>1 DEF Init, MainInit, Q!Init, Q!Threads
<1>2. Q!Count(queue) = 0
  BY <1>1 DEF Q!QueueInit, Q!Count
<1>3. \A e \in Execs : e \in Peers /\ InHand[e] = NoJob
  BY <1>1 DEF InHand, Peers
<1>4. Calls
  BY <1>1, <1>3 DEF Calls, InCall
<1>5. RingFits
  BY <1>2, MainAssumption DEF RingFits
<1>6. AllPlaced = {}
  BY <1>1, <1>2, <1>3, MainAssumption DEF AllPlaced, Placed
<1>7. InPlace
  BY <1>1, <1>2, <1>3, <1>6 DEF InPlace, Apart
<1> QED
  BY <1>1, <1>4, <1>5, <1>7 DEF Placement, NoLeak

\* Every job is in its place, as long as the ids do not start again and the queue
\* is in order.
LEMMA PlacesCorrect ==
  ASSUME MaxSubmits <= ID_MOD
  PROVE  Spec /\ []Q!InOrder => []Placement
<1>1. Init => Placement
  BY PlacesInit
<1>2. (Types /\ Types' /\ Links /\ HistoryLink /\ HistoryLink' /\ Placement /\ Q!InOrder
         /\ [Next]_vars) => Placement'
  <2> SUFFICES ASSUME Types, Types', Links, HistoryLink, HistoryLink', Placement, Q!InOrder,
                      [Next]_vars
               PROVE  Placement'
    OBVIOUS
  <2> QED
    BY PlacesStep
<1> QED
  BY <1>1, <1>2, TypesCorrect, LinksCorrect, HistoryLinkCorrect, PTL DEF Spec
-----------------------------------------------------------------------------
\* A step of the system is a step of the queue, or does not touch it.
LEMMA QueueRefined ==
  ASSUME MaxSubmits <= ID_MOD
  PROVE  (Types /\ Types' /\ Links /\ HistoryLink /\ HistoryLink' /\ Placement /\ [Next]_vars)
         => [Q!Next]_(Q!vars)
<1> SUFFICES ASSUME Types, Types', Links, HistoryLink, HistoryLink', Placement, [Next]_vars
             PROVE  [Q!Next]_(Q!vars)
  OBVIOUS
<1>0. Q!Threads = Peers /\ \A e \in Execs : e \in Peers
  BY DEF Q!Threads, Peers
<1>1. ASSUME UNCHANGED queueVars PROVE [Q!Next]_(Q!vars)
  BY <1>1 DEF queueVars, Q!vars
<1>2. CASE MainStep
  <2>1. ASSUME NEW t \in Peers, ThreadStep(t) PROVE [Q!Next]_(Q!vars)
    <3>1. submits' = submits
      BY <1>2 DEF MainStep, clientVars
    <3>2. QueueMoves(t) /\ ~overrun
      BY <2>1, <3>1, ThreadPlaces DEF Placement, ThreadStep, Running
    <3>3. ASSUME NEW job \in Jobs, Enters(t, job), Q!CallPut(t, job) PROVE Q!Next
      <4>1. job \notin AllPlaced
        <5>1. job.id \in Nat
          BY PlaceTypes
        <5> QED
          BY <3>3, <5>1 DEF Placement, InPlace, Enters
      <4>2. Q!OwnsJob(job)
        BY <1>0, <4>1 DEF AllPlaced, Placed, Q!OwnsJob, Q!InUse, Q!Queued
      <4> QED
        BY <3>2, <3>3, <4>2 DEF Q!Next
    <3>4. ASSUME t \in Execs, Returns(t), Q!CallPut(t, held[t]) PROVE Q!Next
      <4>1. InHand[t] = held[t] /\ held[t] # NoJob /\ held[t] \in Jobs
        BY <3>4, PlaceTypes DEF InHand, Returns, Pointers
      <4>2. Q!OwnsJob(held[t])
        <5>1. \A u \in Peers : arg[u] # held[t]
          BY <3>4, <4>1 DEF Placement, InPlace, Apart
        <5>2. \A k \in 1 .. Q!Count(queue) : Q!Items(queue)[k] # held[t]
          BY <3>4, <4>1 DEF Placement, InPlace, Apart
        <5> QED
          BY <1>0, <5>1, <5>2 DEF Q!OwnsJob, Q!InUse, Q!Queued
      <4> QED
        BY <3>2, <3>4, <4>1, <4>2 DEF Q!Next
    <3>5. ASSUME \/ Q!PutJob(t)
                 \/ t \in Execs /\ (Q!CallGet(t) \/ Q!GetJob(t))
                 \/ \E j \in JobIds : Q!RemoveJob(j)
          PROVE  Q!Next
      BY <3>2, <3>5 DEF Q!Next
    <3> QED
      BY <1>1, <3>2, <3>3, <3>4, <3>5 DEF QueueMoves
  <2>2. ASSUME NEW t \in Peers, Running, Wakeup(t) PROVE Q!Next
    BY <1>0, <2>2 DEF Wakeup, Running, Q!Next
  <2>3. ASSUME Stop PROVE UNCHANGED queueVars
    BY <2>3 DEF Stop
  <2> QED
    BY <1>1, <1>2, <2>1, <2>2, <2>3 DEF MainStep, MainNext
<1>3. CASE ExecStep \/ ClientStep
  BY <1>1, <1>3 DEF ExecStep, ClientStep, mainVars
<1>4. CASE UNCHANGED vars
  BY <1>1, <1>4 DEF vars, mainVars
<1> QED
  BY <1>2, <1>3, <1>4 DEF Next

\* The main server uses its queue as JobQueue says: no thread puts in a job that
\* is in the queue, or on its way into it, already.  This holds for any number of
\* clients and execution servers, with unsubmissions and after stop, as long as
\* the ids do not start again and the indices of the queue do not wrap between
\* two queued jobs: at such a wrap putJob overwrites a job.
THEOREM QueueSpecCorrect ==
  ASSUME MaxSubmits <= ID_MOD
  PROVE  Spec /\ []Q!InOrder => QueueSpec
<1>1. Init => Q!Init
  BY DEF Init, MainInit
<1>2. (Types /\ Types' /\ Links /\ HistoryLink /\ HistoryLink' /\ Placement /\ [Next]_vars)
      => [Q!Next]_(Q!vars)
  BY QueueRefined
<1> QED
  BY <1>1, <1>2, TypesCorrect, LinksCorrect, HistoryLinkCorrect, PlacesCorrect, PTL
     DEF Spec, QueueSpec, Q!Spec

\* A set without two elements.
LEMMA AtMostOne ==
  ASSUME NEW S, \A x, y \in S : x = y
  PROVE  Cardinality(S) = IF S = {} THEN 0 ELSE 1
<1>1. CASE S = {}
  BY <1>1, FS_EmptySet
<1>2. CASE S # {}
  <2>1. PICK x \in S : TRUE
    BY <1>2
  <2>2. S = {x}
    BY <2>1
  <2> QED
    BY <1>2, <2>2, FS_Singleton
<1> QED
  BY <1>1, <1>2

\* A job that has a place has one.
LEMMA PlacesCounted ==
  ASSUME Types, Placement, NEW job \in Jobs
  PROVE  Places(job) = IF job \in AllPlaced THEN 1 ELSE 0
<1> DEFINE A == {t \in Peers : arg[t] = job}
           B == {k \in 1 .. Q!Count(queue) : Q!Items(queue)[k] = job}
           C == {e \in Execs : at[e] \in {"check", "select", "send"} /\ held[e] = job}
<1>0. job # NoJob
  BY MainAssumption
<1>1. C = {e \in Execs : InHand[e] = job}
  BY <1>0 DEF InHand
<1>2. (\A x, y \in A : x = y) /\ (\A x, y \in B : x = y) /\ (\A x, y \in C : x = y)
  BY <1>0, <1>1 DEF Placement, InPlace, Apart
<1>3. (A # {} => B = {} /\ C = {}) /\ (B # {} => C = {})
  BY <1>0, <1>1 DEF Placement, InPlace, Apart
<1>4. job \in AllPlaced <=> A # {} \/ B # {} \/ C # {}
  BY <1>1 DEF AllPlaced, Placed
<1>5. Places(job) = Cardinality(A) + Cardinality(B) + Cardinality(C)
  BY DEF Places
<1> HIDE DEF A, B, C
<1>6. /\ Cardinality(A) = IF A = {} THEN 0 ELSE 1
      /\ Cardinality(B) = IF B = {} THEN 0 ELSE 1
      /\ Cardinality(C) = IF C = {} THEN 0 ELSE 1
  BY <1>2, AtMostOne
<1> QED
  BY <1>3, <1>4, <1>5, <1>6

\* No pointer to a job is left when it is freed, and no job is in two places,
\* whatever is unsubmitted, as long as the ids do not start again and the indices
\* of the queue do not wrap between two queued jobs.
THEOREM NoDanglingJobCorrect ==
  ASSUME MaxSubmits <= ID_MOD
  PROVE  Spec /\ []Q!InOrder => []NoDanglingJob
<1>1. Types /\ Placement => NoDanglingJob
  BY PlacesCounted DEF NoDanglingJob, Placement, InPlace
<1> QED
  BY <1>1, TypesCorrect, PlacesCorrect, PTL
=============================================================================
