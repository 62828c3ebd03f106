--------------------------- MODULE JobStateProofs ---------------------------
(***************************************************************************)
(* What is recorded of the jobs, for any number of clients and execution   *)
(* servers, if nobody unsubmits anything and as long as the ids do not     *)
(* start again: the reports on a job come in their order, the recorded     *)
(* state goes with them and only advances, and every job is accounted for. *)
(***************************************************************************)
EXTENDS JobFlowProofs

\* Nobody unsubmits anything.
NoUnsubmit ==
  \A c \in Clients : /\ at[c] \notin {"remove", "mark"}
                     /\ toMain[c] # <<>> => Head(toMain[c]).type # "UNSUB"

\* A client that unsubmits nothing sends no such request.
LEMMA ClientNoUnsubmit ==
  ASSUME UnsubIds = {}, Types, Links, NoUnsubmit, NEW c \in Clients, ClientActs(c)
  PROVE  toMain'[c] # <<>> => Head(toMain'[c]).type # "UNSUB"
<1>0. /\ c \in Peers
      /\ toMain \in [Peers -> Seq(ClientRequests \cup ExecMessages)]
      /\ toMain[c] \in Seq(ClientRequests)
  BY DEF Peers, Types, NetTypes, ToMainType
<1> DEFINE G == toMain'[c] # <<>> => Head(toMain'[c]).type # "UNSUB"
<1>1. ASSUME toMain'[c] \in {toMain[c], <<>>} PROVE G
  BY <1>1 DEF NoUnsubmit
<1>2. ASSUME NEW r \in ClientRequests, cl[c] = "prompt", r.type # "UNSUB",
             toMain' = IF "main" \in open[c] THEN [toMain EXCEPT ![c] = Append(@, r)] ELSE toMain
      PROVE  G
  <2>1. toMain[c] = <<>>
    BY <1>2, OneRequest
  <2>2. Head(Append(toMain[c], r)) = r
    BY <1>0, <2>1, ShortQueue
  <2>3. toMain'[c] \in {toMain[c], Append(toMain[c], r)}
    BY <1>0, <1>2
  <2> QED
    BY <1>2, <2>1, <2>2, <2>3
<1>3. ASSUME CL!Submit(c) \/ CL!SubmitInt(c) \/ CL!JobState(c) \/ CL!QueueState(c) PROVE G
  <2>1. ASSUME NEW r \in ClientRequests, NEW stage, r.type # "UNSUB", CL!Request(c, r, stage)
        PROVE  G
    BY <1>2, <2>1 DEF CL!Request, CL!Sent
  <2>2. CASE CL!Submit(c)
    BY <2>1, <2>2, ClientMessageTypes DEF CL!Submit, CL!SetFileExecNoInter_CLIENT
  <2>3. CASE CL!SubmitInt(c)
    <3>1. <<c, submits + 1>> \in Ports
      BY <2>3, PeerAssumption DEF CL!SubmitInt, Ports, Types, ClientTypes
    <3> QED
      BY <2>1, <2>3, <3>1, ClientMessageTypes DEF CL!SubmitInt, CL!SetFileExecInter_CLIENT
  <2>4. CASE CL!JobState(c)
    BY <2>1, <2>4, ValueAssumption, ClientMessageTypes DEF CL!JobState, CL!SetJobState_CLIENT
  <2>5. CASE CL!QueueState(c)
    BY <2>1, <2>5, ClientMessageTypes DEF CL!QueueState, CL!SetQueueState_CLIENT
  <2> QED
    BY <1>3, <2>2, <2>3, <2>4, <2>5
<1>4. ASSUME CL!Stop(c) PROVE G
  <2>1. CL!SetClosedConnection \in ClientRequests /\ CL!SetClosedConnection.type # "UNSUB"
    BY ClientMessageTypes DEF CL!SetClosedConnection
  <2> QED
    BY <1>2, <1>4, <2>1 DEF CL!Stop, CL!Sent
<1>5. ~CL!Unsubmit(c)
  BY DEF CL!Unsubmit
<1>6. ASSUME CL!Start(c) \/ CL!SubmitFails(c) \/ CL!Kill(c) PROVE G
  BY <1>0, <1>1, <1>6
     DEF CL!Start, CL!SubmitFails, CL!Kill, CL!Connect, CL!netVars
<1>7. ASSUME CL!ClientStep(c) \/ CL!EndSession(c) PROVE G
  BY <1>1, <1>7
     DEF CL!ClientStep, CL!EndSession, CL!Response, CL!NoResponse, CL!ClientAccept, CL!netVars
<1> QED
  BY <1>3, <1>4, <1>5, <1>6, <1>7 DEF ClientActs

\* Nor does its thread unsubmit anything.
LEMMA ThreadNoUnsubmit ==
  ASSUME Types, Links, NoUnsubmit, NEW t \in Clients, ThreadStep(t)
  PROVE  /\ at'[t] \notin {"remove", "mark"}
         /\ toMain'[t] # <<>> => Head(toMain'[t]).type # "UNSUB"
<1>0. t \in Peers /\ t \notin Execs /\ at \in [Peers -> ClientStages \cup ExecStages]
  BY PeerAssumption DEF Peers, Types, MainTypes, StageTypes
<1>1. toMain'[t] # <<>> => Head(toMain'[t]).type # "UNSUB"
  BY <1>0, ThreadReads, OneRequest DEF NoUnsubmit
<1>2. at[t] \notin {"remove", "mark"} /\ ~Unsubmit(t)
  BY DEF NoUnsubmit, Unsubmit, Recv, Arrived
<1>3. ASSUME Accept(t) \/ Leave(t) \/ QueueState(t) \/ Misuse(t)
      PROVE  at'[t] \notin {"remove", "mark"}
  BY <1>0, <1>2, <1>3 DEF Accept, Leave, QueueState, Misuse, Goto, mainVars
<1>4. ASSUME ClientThread(t) PROVE at'[t] \notin {"remove", "mark"}
  BY <1>0, <1>2, <1>4
     DEF ClientThread, NewJob, FinishSubmit, PutJob, JobState, RemoveJob, MarkJob, Goto, mainVars
<1> QED
  BY <1>0, <1>1, <1>3, <1>4 DEF ThreadStep

\* Every step of the system keeps that.
LEMMA NoUnsubmitStep ==
  ASSUME UnsubIds = {}
  PROVE  Types /\ Links /\ NoUnsubmit /\ [Next]_vars => NoUnsubmit'
<1> SUFFICES ASSUME Types, Links, NoUnsubmit, [Next]_vars,
                    NEW d \in Clients
             PROVE  /\ at'[d] \notin {"remove", "mark"}
                    /\ toMain'[d] # <<>> => Head(toMain'[d]).type # "UNSUB"
  BY DEF NoUnsubmit
<1> DEFINE G == /\ at'[d] \notin {"remove", "mark"}
                /\ toMain'[d] # <<>> => Head(toMain'[d]).type # "UNSUB"
<1>0. d \in Peers /\ \A e \in Execs : d # e
  BY PeerAssumption DEF Peers
<1>1. ASSUME at'[d] = at[d], toMain'[d] = toMain[d] PROVE G
  BY <1>1 DEF NoUnsubmit
<1>2. CASE MainStep
  <2>1. ASSUME NEW t \in Peers, ThreadStep(t) PROVE G
    BY <1>0, <1>1, <2>1, ThreadFrame, ThreadNoUnsubmit
  <2>2. ASSUME NEW t \in Peers, Wakeup(t) PROVE G
    BY <1>1, <2>2 DEF Wakeup, netVars
  <2>3. ASSUME Stop PROVE G
    BY <1>1, <2>3 DEF Stop, netVars
  <2> QED
    BY <1>2, <2>1, <2>2, <2>3 DEF MainStep, MainNext
<1>3. CASE ExecStep
  <2>1. at' = at
    BY <1>3 DEF ExecStep, mainVars
  <2>2. PICK e \in Execs : \/ ES!ExecStep(e) \/ ES!Start(e) \/ ES!JobRequest(e)
                           \/ ES!CloseConnecMain(e) \/ ES!Crash(e)
    BY <1>3 DEF ExecStep, ES!ExecNext
  <2>3. toMain'[d] = toMain[d]
    BY <1>0, <2>2, ExecFrame
  <2> QED
    BY <1>1, <2>1, <2>3
<1>4. CASE ClientStep
  <2>1. at' = at
    BY <1>4 DEF ClientStep, mainVars
  <2>2. PICK c \in Clients : ClientActs(c)
    BY <1>4 DEF ClientStep, CL!ClientNext, ClientActs
  <2>3. CASE c = d
    BY <2>1, <2>2, <2>3, ClientNoUnsubmit DEF NoUnsubmit
  <2>4. CASE c # d
    BY <1>0, <1>1, <2>1, <2>2, <2>4, ClientFrame
  <2> QED
    BY <2>3, <2>4
<1>5. CASE UNCHANGED vars
  BY <1>1, <1>5 DEF vars, netVars, mainVars
<1> QED
  BY <1>2, <1>3, <1>4, <1>5 DEF Next

\* Nobody ever unsubmits anything.
LEMMA NoUnsubmitCorrect ==
  ASSUME UnsubIds = {}
  PROVE  Spec => []NoUnsubmit
<1>1. Init => NoUnsubmit
  BY DEF Init, NetInit, MainInit, Peers, NoUnsubmit
<1>2. Types /\ Links /\ NoUnsubmit /\ [Next]_vars => NoUnsubmit'
  BY NoUnsubmitStep
<1> QED
  BY <1>1, <1>2, TypesCorrect, LinksCorrect, PTL DEF Spec

-----------------------------------------------------------------------------
(***************************************************************************)
(* The reports on the connection of an execution server: on its way there  *)
(* is the report of one start at most, before anything else, and that of   *)
(* one end at most.                                                        *)
(***************************************************************************)
IsEnd(r) == r.type \in ES!EndTypes

\* The start of job j is reported, its end is, with the state ERROR.
RunIn(m, j)   == m # <<>> /\ Head(m).type = "JOB_RUN" /\ Head(m).id = j
EndIn(m, j)   == \E i \in 1 .. Len(m) : IsEnd(m[i]) /\ m[i].id = j
ErrorIn(m, j) == \E i \in 1 .. Len(m) : IsEnd(m[i]) /\ m[i].id = j /\ m[i].state = "ERROR"

NoEnd(m)    == \A i \in 1 .. Len(m) : ~IsEnd(m[i])
NoReport(m) == \A i \in 1 .. Len(m) : m[i].type \notin ReportTypes

InTurn(m) ==
  \A i \in 1 .. Len(m) : /\ m[i].type = "JOB_RUN" => i = 1
                         /\ \A k \in 1 .. Len(m) : IsEnd(m[i]) /\ IsEnd(m[k]) => i = k

\* In a queue without messages there are no reports.
LEMMA NoMessages ==
  /\ InTurn(<<>>) /\ NoEnd(<<>>) /\ NoReport(<<>>)
  /\ \A j : ~RunIn(<<>>, j) /\ ~EndIn(<<>>, j) /\ ~ErrorIn(<<>>, j)
BY EmptySeq DEF InTurn, NoEnd, NoReport, RunIn, EndIn, ErrorIn

\* One more message.
LEMMA OneMore ==
  ASSUME NEW s \in Seq(ExecMessages), NEW r \in ExecMessages
  PROVE  /\ InTurn(s) /\ (r.type = "JOB_RUN" => s = <<>>) /\ (IsEnd(r) => NoEnd(s))
              => InTurn(Append(s, r))
         /\ NoEnd(s) /\ ~IsEnd(r) => NoEnd(Append(s, r))
         /\ NoReport(s) /\ r.type \notin ReportTypes => NoReport(Append(s, r))
         /\ \A j : /\ RunIn(Append(s, r), j) <=> IF s = <<>> THEN r.type = "JOB_RUN" /\ r.id = j
                                                 ELSE RunIn(s, j)
                   /\ EndIn(Append(s, r), j) <=> EndIn(s, j) \/ (IsEnd(r) /\ r.id = j)
                   /\ ErrorIn(Append(s, r), j) <=>
                        ErrorIn(s, j) \/ (IsEnd(r) /\ r.id = j /\ r.state = "ERROR")
<1> DEFINE n == Len(s)
           a == Append(s, r)
<1>1. /\ n \in Nat /\ Len(a) = n + 1 /\ a[n + 1] = r /\ a # <<>>
      /\ \A i \in 1 .. n : a[i] = s[i]
  BY ShortQueue
<1>2. \A i : i \in 1 .. Len(a) <=> i \in 1 .. n \/ i = n + 1
  BY <1>1
<1>3. s = <<>> => n = 0
  BY EmptySeq
<1>4. Head(a) = IF s = <<>> THEN r ELSE Head(s)
  <2>1. CASE s = <<>>
    BY <2>1, ShortQueue
  <2>2. CASE s # <<>>
    BY <2>2
  <2> QED
    BY <2>1, <2>2
<1> HIDE DEF a, n
<1>5. ASSUME InTurn(s), r.type = "JOB_RUN" => s = <<>>, IsEnd(r) => NoEnd(s) PROVE InTurn(a)
  <2> SUFFICES ASSUME NEW i \in 1 .. Len(a)
               PROVE  /\ a[i].type = "JOB_RUN" => i = 1
                      /\ \A k \in 1 .. Len(a) : IsEnd(a[i]) /\ IsEnd(a[k]) => i = k
    BY DEF InTurn
  <2>1. a[i].type = "JOB_RUN" => i = 1
    BY <1>1, <1>2, <1>3, <1>5 DEF InTurn, n
  <2>2. ASSUME NEW k \in 1 .. Len(a), IsEnd(a[i]), IsEnd(a[k]) PROVE i = k
    BY <1>1, <1>2, <1>5, <2>2 DEF InTurn, NoEnd, n
  <2> QED
    BY <2>1, <2>2
<1>6. NoEnd(s) /\ ~IsEnd(r) => NoEnd(a)
  BY <1>1, <1>2 DEF NoEnd, n
<1>7. NoReport(s) /\ r.type \notin ReportTypes => NoReport(a)
  BY <1>1, <1>2 DEF NoReport, n
<1>8. ASSUME NEW j
      PROVE  /\ RunIn(a, j) <=> IF s = <<>> THEN r.type = "JOB_RUN" /\ r.id = j ELSE RunIn(s, j)
             /\ EndIn(a, j) <=> EndIn(s, j) \/ (IsEnd(r) /\ r.id = j)
             /\ ErrorIn(a, j) <=>
                  ErrorIn(s, j) \/ (IsEnd(r) /\ r.id = j /\ r.state = "ERROR")
  <2>1. RunIn(a, j) <=> IF s = <<>> THEN r.type = "JOB_RUN" /\ r.id = j ELSE RunIn(s, j)
    BY <1>1, <1>4 DEF RunIn
  <2>2. EndIn(a, j) <=> EndIn(s, j) \/ (IsEnd(r) /\ r.id = j)
    BY <1>1, <1>2 DEF EndIn, n
  <2>3. ErrorIn(a, j) <=> ErrorIn(s, j) \/ (IsEnd(r) /\ r.id = j /\ r.state = "ERROR")
    BY <1>1, <1>2 DEF ErrorIn, n
  <2> QED
    BY <2>1, <2>2, <2>3
<1> QED
  BY <1>5, <1>6, <1>7, <1>8 DEF a

\* The first message of all.
LEMMA FirstMessage ==
  ASSUME NEW r \in ExecMessages
  PROVE  LET s == Append(<<>>, r)
         IN /\ InTurn(s)
            /\ ~IsEnd(r) => NoEnd(s)
            /\ \A j : /\ RunIn(s, j) <=> r.type = "JOB_RUN" /\ r.id = j
                      /\ EndIn(s, j) <=> IsEnd(r) /\ r.id = j
                      /\ ErrorIn(s, j) <=> IsEnd(r) /\ r.id = j /\ r.state = "ERROR"
<1>1. <<>> \in Seq(ExecMessages)
  OBVIOUS
<1> DEFINE q == <<>>
<1>2. /\ q \in Seq(ExecMessages) /\ q = <<>> /\ InTurn(q) /\ NoEnd(q)
      /\ \A j : ~EndIn(q, j) /\ ~ErrorIn(q, j)
  BY <1>1, NoMessages
<1> HIDE DEF q
<1>3. /\ InTurn(Append(q, r))
      /\ ~IsEnd(r) => NoEnd(Append(q, r))
      /\ \A j : /\ RunIn(Append(q, r), j) <=> r.type = "JOB_RUN" /\ r.id = j
                /\ EndIn(Append(q, r), j) <=> IsEnd(r) /\ r.id = j
                /\ ErrorIn(Append(q, r), j) <=> IsEnd(r) /\ r.id = j /\ r.state = "ERROR"
  BY <1>2, OneMore
<1> QED
  BY <1>3 DEF q

\* The first message is read.
LEMMA OneLess ==
  ASSUME NEW s \in Seq(ExecMessages), s # <<>>, InTurn(s)
  PROVE  /\ InTurn(Tail(s))
         /\ NoEnd(s) => NoEnd(Tail(s))
         /\ NoReport(s) => NoReport(Tail(s))
         /\ \A j : /\ ~RunIn(Tail(s), j)
                   /\ EndIn(Tail(s), j) <=> EndIn(s, j) /\ ~IsEnd(Head(s))
                   /\ ErrorIn(Tail(s), j) <=> ErrorIn(s, j) /\ ~IsEnd(Head(s))
         /\ IsEnd(Head(s)) =>
              \A j : /\ ~RunIn(s, j)
                     /\ EndIn(s, j) <=> Head(s).id = j
                     /\ ErrorIn(s, j) <=> Head(s).id = j /\ Head(s).state = "ERROR"
<1> DEFINE n == Len(s)
           u == Tail(s)
<1>1. /\ n \in Nat /\ n >= 1 /\ Len(u) = n - 1 /\ Head(s) = s[1]
      /\ \A i \in 1 .. n - 1 : u[i] = s[i + 1]
      /\ u # <<>> => n >= 2 /\ Head(u) = s[2]
  BY ShortQueue, EmptySeq
<1>2. \A i \in 1 .. Len(u) : i + 1 \in 1 .. n /\ i + 1 # 1 /\ u[i] = s[i + 1]
  BY <1>1
<1>3. \A i \in 1 .. n : i = 1 \/ (i - 1 \in 1 .. Len(u) /\ u[i - 1] = s[i])
  BY <1>1
<1>4. 1 \in 1 .. n
  BY <1>1
<1>5. \A i \in 1 .. n : /\ s[i].type = "JOB_RUN" => i = 1
                        /\ \A k \in 1 .. n : IsEnd(s[i]) /\ IsEnd(s[k]) => i = k
  BY DEF InTurn
<1> HIDE DEF n, u
<1>6. InTurn(u)
  <2> SUFFICES ASSUME NEW i \in 1 .. Len(u)
               PROVE  /\ u[i].type = "JOB_RUN" => i = 1
                      /\ \A k \in 1 .. Len(u) : IsEnd(u[i]) /\ IsEnd(u[k]) => i = k
    BY DEF InTurn
  <2>1. u[i].type # "JOB_RUN"
    BY <1>2, <1>5
  <2>2. ASSUME NEW k \in 1 .. Len(u), IsEnd(u[i]), IsEnd(u[k]) PROVE i = k
    <3>1. i + 1 = k + 1
      BY <1>2, <1>5, <2>2
    <3> QED
      BY <3>1
  <2> QED
    BY <2>1, <2>2
<1>7. (NoEnd(s) => NoEnd(u)) /\ (NoReport(s) => NoReport(u))
  BY <1>2 DEF NoEnd, NoReport, n
<1>8. ASSUME NEW j
      PROVE  /\ ~RunIn(u, j)
             /\ EndIn(u, j) <=> EndIn(s, j) /\ ~IsEnd(Head(s))
             /\ ErrorIn(u, j) <=> ErrorIn(s, j) /\ ~IsEnd(Head(s))
  <2>1. ~RunIn(u, j)
    <3> SUFFICES ASSUME u # <<>>, Head(u).type = "JOB_RUN" PROVE FALSE
      BY DEF RunIn
    <3>1. 2 \in 1 .. n /\ s[2].type = "JOB_RUN" /\ 2 # 1
      BY <1>1
    <3> QED
      BY <1>5, <3>1
  <2>2. EndIn(u, j) <=> EndIn(s, j) /\ ~IsEnd(Head(s))
    <3>1. EndIn(u, j) => EndIn(s, j) /\ ~IsEnd(Head(s))
      BY <1>1, <1>2, <1>4, <1>5 DEF EndIn, n
    <3>2. EndIn(s, j) /\ ~IsEnd(Head(s)) => EndIn(u, j)
      BY <1>1, <1>3 DEF EndIn, n
    <3> QED
      BY <3>1, <3>2
  <2>3. ErrorIn(u, j) <=> ErrorIn(s, j) /\ ~IsEnd(Head(s))
    <3>1. ErrorIn(u, j) => ErrorIn(s, j) /\ ~IsEnd(Head(s))
      BY <1>1, <1>2, <1>4, <1>5 DEF ErrorIn, n
    <3>2. ErrorIn(s, j) /\ ~IsEnd(Head(s)) => ErrorIn(u, j)
      BY <1>1, <1>3 DEF ErrorIn, n
    <3> QED
      BY <3>1, <3>2
  <2> QED
    BY <2>1, <2>2, <2>3
<1>9. ASSUME IsEnd(Head(s)), NEW j
      PROVE  /\ ~RunIn(s, j)
             /\ EndIn(s, j) <=> Head(s).id = j
             /\ ErrorIn(s, j) <=> Head(s).id = j /\ Head(s).state = "ERROR"
  <2>1. ~RunIn(s, j)
    BY <1>9 DEF RunIn, IsEnd, ES!EndTypes
  <2>2. \A i \in 1 .. n : IsEnd(s[i]) => i = 1
    BY <1>1, <1>4, <1>5, <1>9
  <2>3. EndIn(s, j) <=> Head(s).id = j
    BY <1>1, <1>4, <1>9, <2>2 DEF EndIn, n
  <2>4. ErrorIn(s, j) <=> Head(s).id = j /\ Head(s).state = "ERROR"
    BY <1>1, <1>4, <1>9, <2>2 DEF ErrorIn, n
  <2> QED
    BY <2>1, <2>3, <2>4
<1> QED
  BY <1>6, <1>7, <1>8, <1>9 DEF u

\* A tail of the queue is cut off.
LEMMA CutOff ==
  ASSUME NEW s \in Seq(ExecMessages), InTurn(s), NEW n \in 0 .. Len(s)
  PROVE  LET kept == SubSeq(s, 1, n)
             rest == SubSeq(s, n + 1, Len(s))
         IN /\ InTurn(kept)
            /\ NoEnd(s) => NoEnd(kept)
            /\ NoReport(s) => NoReport(kept)
            /\ \A j : /\ RunIn(kept, j) => RunIn(s, j)
                      /\ EndIn(s, j) <=> EndIn(kept, j) \/ EndIn(rest, j)
                      /\ ~(EndIn(kept, j) /\ EndIn(rest, j))
                      /\ EndIn(kept, j) => (RunIn(s, j) => RunIn(kept, j))
                      /\ ErrorIn(kept, j) <=> EndIn(kept, j) /\ ErrorIn(s, j)
<1> DEFINE l == Len(s)
           kept == SubSeq(s, 1, n)
           rest == SubSeq(s, n + 1, l)
<1>1. /\ l \in Nat /\ Len(kept) = n
      /\ \A i \in 1 .. n : kept[i] = s[i] /\ i \in 1 .. l
  OBVIOUS
<1>2. Len(rest) = l - n /\ \A i \in 1 .. l - n : rest[i] = s[n + i]
  <2>1. n + 1 \in 1 .. l + 1
    BY <1>1
  <2> QED
    BY <1>1, <2>1, SubSeqProperties
<1>3. \A i \in 1 .. Len(rest) : n + i \in 1 .. l /\ n + i \notin 1 .. n /\ rest[i] = s[n + i]
  BY <1>1, <1>2
<1>4. \A i \in 1 .. l : i \in 1 .. n \/ (i - n \in 1 .. Len(rest) /\ rest[i - n] = s[i])
  BY <1>1, <1>2
<1>5. \A i \in 1 .. l : /\ s[i].type = "JOB_RUN" => i = 1
                        /\ \A k \in 1 .. l : IsEnd(s[i]) /\ IsEnd(s[k]) => i = k
  BY DEF InTurn
<1>6. kept # <<>> => s # <<>> /\ Head(kept) = Head(s)
  BY ShortQueue
<1>7. kept = <<>> => n = 0
  BY <1>1, EmptySeq
<1> HIDE DEF l, kept, rest
<1>8. InTurn(kept) /\ (NoEnd(s) => NoEnd(kept)) /\ (NoReport(s) => NoReport(kept))
  BY <1>1, <1>5 DEF InTurn, NoEnd, NoReport, l
<1>9. ASSUME NEW j
      PROVE  /\ RunIn(kept, j) => RunIn(s, j)
             /\ EndIn(s, j) <=> EndIn(kept, j) \/ EndIn(rest, j)
             /\ ~(EndIn(kept, j) /\ EndIn(rest, j))
             /\ EndIn(kept, j) => (RunIn(s, j) => RunIn(kept, j))
             /\ ErrorIn(kept, j) <=> EndIn(kept, j) /\ ErrorIn(s, j)
  <2>1. RunIn(kept, j) => RunIn(s, j)
    BY <1>6 DEF RunIn
  <2>2. EndIn(s, j) <=> EndIn(kept, j) \/ EndIn(rest, j)
    <3>1. EndIn(kept, j) => EndIn(s, j)
      BY <1>1 DEF EndIn, l
    <3>2. EndIn(rest, j) => EndIn(s, j)
      BY <1>3 DEF EndIn, l
    <3>3. ASSUME EndIn(s, j) PROVE EndIn(kept, j) \/ EndIn(rest, j)
      <4>1. PICK i \in 1 .. l : IsEnd(s[i]) /\ s[i].id = j
        BY <3>3 DEF EndIn, l
      <4>2. CASE i \in 1 .. n
        BY <1>1, <4>1, <4>2 DEF EndIn
      <4>3. CASE i - n \in 1 .. Len(rest) /\ rest[i - n] = s[i]
        BY <4>1, <4>3 DEF EndIn
      <4> QED
        BY <1>4, <4>2, <4>3
    <3> QED
      BY <3>1, <3>2, <3>3
  <2>3. ~(EndIn(kept, j) /\ EndIn(rest, j))
    BY <1>1, <1>3, <1>5 DEF EndIn, l
  <2>4. EndIn(kept, j) => (RunIn(s, j) => RunIn(kept, j))
    BY <1>1, <1>6, <1>7 DEF EndIn, RunIn
  <2>5. ErrorIn(kept, j) => EndIn(kept, j) /\ ErrorIn(s, j)
    BY <1>1 DEF ErrorIn, EndIn, l
  <2>6. EndIn(kept, j) /\ ErrorIn(s, j) => ErrorIn(kept, j)
    BY <1>1, <1>5 DEF ErrorIn, EndIn, l
  <2> QED
    BY <2>1, <2>2, <2>3, <2>4, <2>5, <2>6
<1> QED
  BY <1>8, <1>9 DEF kept, rest, l

\* The jobs whose end is reported in a queue.
LEMMA EndedJobs ==
  ASSUME NEW S, NEW s \in Seq(S), NEW j
  PROVE  j \in ES!JobsIn(s, ES!EndTypes) <=> EndIn(s, j)
<1>1. DOMAIN s = 1 .. Len(s)
  OBVIOUS
<1> QED
  BY <1>1 DEF ES!JobsIn, EndIn, IsEnd

\* A queue that has no reports.
LEMMA NoReportIn ==
  ASSUME NEW s \in Seq(ExecMessages), NoReport(s)
  PROVE  /\ InTurn(s) /\ NoEnd(s)
         /\ \A j : ~RunIn(s, j) /\ ~EndIn(s, j) /\ ~ErrorIn(s, j)
<1>1. \A i \in 1 .. Len(s) : ~IsEnd(s[i]) /\ s[i].type # "JOB_RUN"
  BY DEF NoReport, IsEnd, ES!EndTypes, ReportTypes
<1>2. s # <<>> => 1 \in 1 .. Len(s) /\ Head(s) = s[1]
  OBVIOUS
<1> QED
  BY <1>1, <1>2 DEF InTurn, NoEnd, RunIn, EndIn, ErrorIn

\* The same reports are on their way.
SameReports(m, n) ==
  \A j : /\ RunIn(n, j) <=> RunIn(m, j)
         /\ EndIn(n, j) <=> EndIn(m, j)
         /\ ErrorIn(n, j) <=> ErrorIn(m, j)

NoJobIn(p) == p # <<>> => Head(p).type \notin ES!JobTypes

\* What is said on a connection, where a is where the thread is, x where the
\* execution server is and m and p are the messages on their way: while a job is
\* executed its end is not reported, and all about a job happens while the thread
\* is at the top of its loop.
Talk(a, x, m, p) ==
  /\ InTurn(m)
  /\ x \in {"dial", "run"} => NoEnd(m)
  /\ a # "recv" => x \notin {"dial", "run"} /\ NoReport(m) /\ NoJobIn(p)

Reporting == \A e \in Execs : Talk(at[e], es[e], toMain[e], toPeer[e])

\* sendJob sends a job.
Sends(t) ==
  /\ at[t] = "send" /\ held[t] \in live
  /\ live' = live \ {held[t]}
  /\ lost' = IF "peer" \in open[t] THEN lost ELSE lost \cup {held[t].id}
  /\ IF "peer" \in open[t]
     THEN toPeer'[t] # <<>> /\ Head(toPeer'[t]).type \in ES!JobTypes /\ Head(toPeer'[t]).id = held[t].id
     ELSE toPeer'[t] = <<>>

\* A thread that leaves its loop has read every report.
LEMMA LeaveAtEnd ==
  ASSUME Types, Links, NEW t \in Execs, Leave(t)
  PROVE  es[t] = "off" /\ NoReport(toMain[t]) /\ toPeer[t] = <<>>
<1> DEFINE m == toMain[t]
<1>0. /\ m \in Seq(ExecMessages)
      /\ es[t] \in {"off", "prompt", "wait", "sleep", "dial", "run"}
      /\ ExecProtocol("recv", es[t], open[t], m, toPeer[t])
  BY DEF Types, NetTypes, ToMainType, ExecTypes, Links, ExecLink, Leave
<1>1. es[t] = "off" => "peer" \notin open[t] /\ toPeer[t] = <<>>
  BY <1>0 DEF ExecProtocol, Ends
<1>2. CASE Ended(toMain, t, "peer")
  <2>1. m = <<>> /\ es[t] = "off"
    BY <1>0, <1>2 DEF Ended, ExecProtocol, Ends
  <2> QED
    BY <1>1, <2>1, NoMessages
<1>3. CASE Arrived(toMain, t, {"CLIENT_CLOSED", "SERVER_CLOSED"})
  <2>1. m # <<>> /\ Head(m) \in ExecMessages
    BY <1>0, <1>3, MessageQueue DEF Arrived
  <2>2. Head(m).type = "SERVER_CLOSED"
    BY <1>3, <2>1 DEF Arrived, ExecMessages, Reports
  <2>3. 1 \in 1 .. Len(m) /\ m[1] = Head(m)
    BY <1>0, <2>1
  <2>4. ~OnlyReports(m)
    BY <2>2, <2>3 DEF OnlyReports, ReportTypes
  <2>5. ~ReportsThen(m, {"JOB_REQ"})
    <3>1. {"JOB_REQ"} \cap ReportTypes = {}
      BY DEF ReportTypes
    <3> QED
      BY <1>0, <2>2, <3>1, LastTail DEF ReportTypes
  <2>6. "main" \in open[t]
    BY <1>0 DEF ExecProtocol, Ends
  <2>7. es[t] = "off" /\ ReportsThen(m, {"JOB_REQ", "SERVER_CLOSED"})
    BY <1>0, <2>1, <2>4, <2>5, <2>6 DEF ExecProtocol
  <2>8. Tail(m) = <<>>
    <3>1. {"JOB_REQ", "SERVER_CLOSED"} \cap ReportTypes = {}
      BY DEF ReportTypes
    <3> QED
      BY <1>0, <2>2, <2>7, <3>1, LastTail
  <2>9. Len(m) = 1
    <3>1. Len(Tail(m)) = 0 /\ Len(Tail(m)) = Len(m) - 1 /\ Len(m) \in Nat
      BY <1>0, <2>1, <2>8, ShortQueue
    <3> QED
      BY <3>1
  <2>10. NoReport(m)
    BY <2>2, <2>3, <2>9 DEF NoReport, ReportTypes
  <2> QED
    BY <1>1, <2>7, <2>10
<1> QED
  BY <1>2, <1>3 DEF Leave

\* sendJob, when it has sent its job.
LEMMA SendJobSends ==
  ASSUME Types, Links, NEW t \in Execs, SendJob(t), live' # live
  PROVE  Sends(t) /\ at'[t] = "recv" /\ toPeer[t] = <<>>
<1> DEFINE p == toPeer[t]
           r == IF held[t].port = NoAddr THEN SetFileExecNoInter(held[t].id)
                                         ELSE SetFileExecInter(held[t].id, held[t].port)
<1>0. /\ t \in Peers /\ p \in Seq(JobMessages)
      /\ at \in [Peers -> ClientStages \cup ExecStages]
      /\ toPeer \in [Peers -> Seq(ClientResponses \cup JobMessages)]
  BY DEF Types, NetTypes, MainTypes, StageTypes, ToPeerType, Peers
<1>1. at[t] = "send" /\ p = <<>>
  BY DEF SendJob, Links, ExecLink, ExecProtocol
<1>2. /\ held[t] \in live /\ Reply(t, r) /\ Goto(t, "recv")
      /\ lost' = (IF "peer" \in open[t] THEN lost ELSE lost \cup {held[t].id})
      /\ live' = live \ {held[t]}
  BY DEF SendJob
<1>3. at'[t] = "recv" /\ toPeer'[t] = IF "peer" \in open[t] THEN Append(p, r) ELSE p
  BY <1>0, <1>2 DEF Goto, Reply, Sent
<1>4. held[t] \in Jobs
  BY <1>2 DEF Types, MainTypes, HeapTypes
<1>5. r \in JobMessages /\ r.type \in ES!JobTypes /\ r.id = held[t].id
  BY <1>4 DEF Jobs, JobMessages, SetFileExecNoInter, SetFileExecInter, ES!JobTypes
<1> HIDE DEF r
<1>6. Append(p, r) # <<>> /\ Head(Append(p, r)) = r
  BY <1>0, <1>1, <1>5, ShortQueue
<1> QED
  BY <1>1, <1>2, <1>3, <1>5, <1>6 DEF Sends

\* The thread of an execution server reads a report, sends a job, or changes
\* nothing in what is on its way of the two.
LEMMA ThreadTalk ==
  ASSUME Types, Links, Reporting, NEW t \in Execs, ThreadStep(t)
  PROVE  /\ Talk(at'[t], es[t], toMain'[t], toPeer'[t])
         /\ \/ ChangeStateJob(t)
            \/ Sends(t) /\ SameReports(toMain[t], toMain'[t]) /\ UNCHANGED histVars
            \/ /\ SameReports(toMain[t], toMain'[t]) /\ lost' = lost
               /\ toPeer'[t] = toPeer[t] \/ (NoJobIn(toPeer[t]) /\ NoJobIn(toPeer'[t]))
<1> DEFINE a == at[t]
           x == es[t]
           o == open[t]
           m == toMain[t]
           p == toPeer[t]
           Still == /\ SameReports(m, toMain'[t]) /\ lost' = lost
                    /\ toPeer'[t] = p \/ (NoJobIn(p) /\ NoJobIn(toPeer'[t]))
           G == /\ Talk(at'[t], x, toMain'[t], toPeer'[t])
                /\ \/ ChangeStateJob(t)
                   \/ Sends(t) /\ SameReports(m, toMain'[t]) /\ UNCHANGED histVars
                   \/ Still
<1>0. /\ t \in Peers /\ t \notin Clients
      /\ at \in [Peers -> ClientStages \cup ExecStages]
      /\ open \in [Peers -> SUBSET {"main", "peer"}]
      /\ toMain \in [Peers -> Seq(ClientRequests \cup ExecMessages)]
      /\ toPeer \in [Peers -> Seq(ClientResponses \cup JobMessages)]
      /\ x \in {"off", "prompt", "wait", "sleep", "dial", "run"}
      /\ m \in Seq(ExecMessages) /\ p \in Seq(JobMessages)
  BY PeerAssumption DEF Types, NetTypes, MainTypes, StageTypes, LinkTypes, ToMainType,
     ToPeerType, ExecTypes, Peers
<1>b. Talk(a, x, m, p) /\ ExecProtocol(a, x, o, m, p)
  BY DEF Reporting, Links, ExecLink
<1>c. NoJobIn(<<>>) /\ SameReports(m, m)
  BY DEF NoJobIn, SameReports
<1>d. m # <<>> => Head(m) \in ExecMessages
  BY <1>0, MessageQueue
<1>f. NoReport(m) => SameReports(m, <<>>)
  BY <1>0, NoReportIn, NoMessages DEF SameReports
<1>g. ASSUME m # <<>>, Head(m).type \notin ReportTypes
      PROVE  SameReports(m, Tail(m)) /\ InTurn(Tail(m)) /\ (NoReport(m) => NoReport(Tail(m)))
  <2>1. InTurn(m) /\ ~IsEnd(Head(m)) /\ \A j : ~RunIn(m, j)
    BY <1>b, <1>g DEF Talk, IsEnd, ES!EndTypes, ReportTypes, RunIn
  <2> QED
    BY <1>0, <1>g, <2>1, OneLess DEF SameReports
\* A thread that is not at the top of its loop and does not send a job.
<1>h. ASSUME a # "recv", toMain'[t] = m, NoJobIn(toPeer'[t]), lost' = lost PROVE G
  BY <1>b, <1>c, <1>h DEF Talk
<1>1. ASSUME Accept(t) PROVE G
  <2>1. CASE at' = [at EXCEPT ![t] = "recv"] /\ UNCHANGED netVars
    <3>1. at'[t] = "recv" /\ toMain'[t] = m /\ toPeer'[t] = p /\ lost' = lost
      BY <1>0, <2>1 DEF netVars, linkVars
    <3> QED
      BY <1>b, <1>c, <3>1 DEF Talk
  <2>2. CASE CloseSocket(t) /\ UNCHANGED <<toPeer, at>>
    <3>1. /\ at'[t] = "off" /\ a = "off" /\ toMain'[t] = <<>> /\ toPeer'[t] = p /\ lost' = lost
      BY <1>0, <1>1, <2>2 DEF Accept, CloseSocket
    <3> QED
      BY <1>b, <1>f, <3>1, NoMessages DEF Talk
  <2> QED
    BY <1>1, <2>1, <2>2 DEF Accept, Goto
<1>2. ASSUME Leave(t) PROVE G
  <2>1. at'[t] = "off" /\ toMain'[t] = <<>> /\ toPeer'[t] = p /\ lost' = lost
    BY <1>0, <1>2 DEF Leave, CloseSocket, Goto
  <2>2. x = "off" /\ NoReport(m) /\ p = <<>>
    BY <1>2, LeaveAtEnd
  <2> QED
    BY <1>c, <1>f, <2>1, <2>2, NoMessages DEF Talk
<1>3. ASSUME QueueState(t) PROVE G
  BY <1>3, <1>d DEF QueueState, Recv, Arrived, ExecMessages, Reports
<1>4. ASSUME Misuse(t) PROVE G
  BY <1>b, <1>c, <1>4 DEF Misuse, netVars, linkVars
<1>5. ASSUME SendCheck(t) PROVE G
  <2>1. a = "check" /\ toMain'[t] = m /\ p = <<>> /\ lost' = lost /\ at'[t] # "recv"
    BY <1>0, <1>b, <1>5 DEF SendCheck, linkVars, ExecProtocol, Goto, PutBack
  <2>2. CASE Reply(t, SetCheckExecServer)
    <3>1. toPeer'[t] = IF "peer" \in o THEN Append(p, SetCheckExecServer) ELSE p
      BY <1>0, <2>2 DEF Reply, Sent
    <3>2. SetCheckExecServer \in JobMessages
      BY DEF JobMessages, SetCheckExecServer
    <3>3. Head(Append(p, SetCheckExecServer)) = SetCheckExecServer
      BY <1>0, <2>1, <3>2, ShortQueue
    <3>4. NoJobIn(toPeer'[t])
      BY <2>1, <3>1, <3>3 DEF NoJobIn, SetCheckExecServer, ES!JobTypes
    <3> QED
      BY <1>h, <2>1, <3>4
  <2>3. CASE UNCHANGED toPeer
    BY <1>c, <1>h, <2>1, <2>3
  <2> QED
    BY <1>5, <2>2, <2>3 DEF SendCheck
<1>6. ASSUME RecvAck(t) PROVE G
  <2>1. /\ at'[t] = "send" /\ toMain'[t] = Tail(m) /\ toPeer'[t] = p
        /\ a = "select" /\ m # <<>> /\ Head(m).type = "CH_EXEC_SER_ACK" /\ lost' = lost
    BY <1>0, <1>6 DEF RecvAck, Arrived, Received, Goto, linkVars
  <2>2. Head(m).type \notin ReportTypes
    BY <2>1 DEF ReportTypes
  <2> QED
    BY <1>b, <1>g, <2>1, <2>2 DEF Talk
<1>7. ASSUME NoAck(t) PROVE G
  <2>1. a = "select" /\ at'[t] # "recv" /\ toMain'[t] = m /\ toPeer'[t] = p /\ lost' = lost
    BY <1>0, <1>7 DEF NoAck, PutBack, Goto, netVars, linkVars
  <2> QED
    BY <1>b, <1>h, <2>1 DEF Talk
<1>8. ASSUME SendJob(t) PROVE G
  <2>0. /\ a = "send" /\ toMain'[t] = m /\ m = <<>> /\ p = <<>> /\ x \in {"wait", "off"}
        /\ UNCHANGED histVars
    BY <1>b, <1>8 DEF SendJob, ExecProtocol
  <2>1. CASE live' # live
    <3>1. Sends(t) /\ at'[t] = "recv"
      BY <1>8, <2>1, SendJobSends
    <3>2. Talk("recv", x, m, toPeer'[t])
      BY <2>0, NoMessages DEF Talk
    <3> QED
      BY <1>c, <2>0, <3>1, <3>2
  <2>2. CASE PutBack(t) /\ UNCHANGED <<toPeer, lost>>
    <3>1. at'[t] = "back"
      BY <1>0, <2>2 DEF PutBack, Goto
    <3> QED
      BY <1>c, <1>h, <2>0, <2>2, <3>1
  <2>3. CASE UNCHANGED <<toPeer, lost, at>>
    BY <1>c, <1>h, <2>0, <2>3
  <2>4. CASE held[t] \in live /\ live' = live \ {held[t]}
    BY <2>1, <2>4
  <2> QED
    BY <1>8, <2>2, <2>3, <2>4 DEF SendJob
<1>9. ASSUME JobReq(t) PROVE G
  <2>1. /\ at'[t] = "take" /\ toMain'[t] = Tail(m) /\ toPeer'[t] = p /\ open'[t] = o
        /\ a = "recv" /\ m # <<>> /\ Head(m).type = "JOB_REQ" /\ lost' = lost
    BY <1>0, <1>9 DEF JobReq, Recv, Arrived, Received, Goto, linkVars
  <2>2. Head(m).type \notin ReportTypes
    BY <2>1 DEF ReportTypes
  <2>3. ExecProtocol("take", x, o, Tail(m), p)
    <3>1. o \in SUBSET {"main", "peer"}
      BY <1>0
    <3>2. ServerMoves(a, x, o, m, p)
      BY <1>0, <1>b, <3>1, ServerKeepsProtocol
    <3> QED
      BY <2>1, <3>2 DEF ServerMoves
  <2>4. x \in {"wait", "off"} /\ Tail(m) = <<>> /\ p = <<>>
    BY <2>3 DEF ExecProtocol
  <2> QED
    BY <1>c, <1>g, <2>1, <2>2, <2>4, NoMessages DEF Talk
<1>10. ASSUME TakeJob(t) PROVE G
  <2>1. /\ at'[t] \in {"check", "take"} /\ toMain'[t] = m /\ toPeer'[t] = p
        /\ a = "take" /\ lost' = lost
    BY <1>0, <1>10 DEF TakeJob, Goto, netVars, linkVars
  <2> QED
    BY <1>b, <1>h, <2>1 DEF Talk
<1>11. ASSUME FinishBack(t) PROVE G
  <2>1. /\ at'[t] \in {"relink", "back"} /\ toMain'[t] = m /\ toPeer'[t] = p
        /\ a = "back" /\ lost' = lost
    BY <1>0, <1>11 DEF FinishBack, PutJob, Goto, netVars, linkVars
  <2> QED
    BY <1>b, <1>h, <2>1 DEF Talk
<1>12. ASSUME Relink(t) PROVE G
  <2>1. CASE CloseSocket(t) /\ Goto(t, "off")
    <3>1. at'[t] = "off" /\ toMain'[t] = <<>> /\ toPeer'[t] = p /\ a = "relink" /\ lost' = lost
      BY <1>0, <1>12, <2>1 DEF Relink, CloseSocket, Goto
    <3> QED
      BY <1>b, <1>f, <3>1, NoMessages DEF Talk
  <2>2. CASE UNCHANGED <<toMain, linkVars, at>>
    BY <1>b, <1>c, <1>12, <2>2 DEF Relink, linkVars
  <2> QED
    BY <1>12, <2>1, <2>2 DEF Relink
<1>13. ASSUME ChangeStateJob(t) PROVE G
  <2>1. /\ at'[t] = "recv" /\ toMain'[t] = Tail(m) /\ toPeer'[t] = p /\ m # <<>> /\ a = "recv"
    BY <1>0, <1>13 DEF ChangeStateJob, Recv, Arrived, Received, linkVars
  <2>2. InTurn(Tail(m)) /\ (NoEnd(m) => NoEnd(Tail(m)))
    BY <1>0, <1>b, <2>1, OneLess DEF Talk
  <2> QED
    BY <1>b, <1>13, <2>1, <2>2 DEF Talk
<1> QED
  BY <1>0, <1>1, <1>2, <1>3, <1>4, <1>5, <1>6, <1>7, <1>8, <1>9, <1>10, <1>11, <1>12, <1>13
     DEF ThreadStep, ExchangeStep, ExecThread

\* What an execution server does to the reports on their way: it starts the job
\* that it was sent, or cannot and reports that at once ...
Receives(e, j) ==
  /\ Carries(e, j) /\ es[e] = "wait" /\ toMain[e] = <<>>
  /\ toPeer'[e] = <<>>
  /\ \/ /\ es'[e] \in {"dial", "run"} /\ cur'[e].id = j
        /\ toMain'[e] = <<SetJobRun(j)>>
     \/ /\ es'[e] = "prompt"
        /\ toMain'[e] = <<SetJobDone(j, ForkFailed)>>
  /\ UNCHANGED lost

\* ... it reports the end of the job that it executes ...
Finishes(e) ==
  /\ es[e] \in {"dial", "run"} /\ es'[e] = "prompt"
  /\ \E r \in Reports : IsEnd(r) /\ r.id = cur[e].id /\ toMain'[e] = Append(toMain[e], r)
  /\ UNCHANGED <<toPeer, lost>>

\* ... or fails.
Fails(e) ==
  /\ es'[e] = "off" /\ toPeer'[e] = <<>>
  /\ \E n \in 0 .. Len(toMain[e]) :
       /\ toMain'[e] = SubSeq(toMain[e], 1, n)
       /\ lost' = lost \cup ES!JobsIn(toPeer[e], ES!JobTypes)
                  \cup ES!JobsIn(SubSeq(toMain[e], n + 1, Len(toMain[e])), ES!EndTypes)
                  \cup {j \in {cur[e].id} : es[e] \in {"dial", "run"}}

\* Whatever else it does is not about a job.
Unrelated(e) ==
  /\ SameReports(toMain[e], toMain'[e]) /\ lost' = lost
  /\ \/ toPeer'[e] = toPeer[e]
     \/ NoJobIn(toPeer[e]) /\ NoJobIn(toPeer'[e])
  /\ \/ es[e] = "dial" /\ es'[e] = "run" /\ cur'[e].id = cur[e].id
     \/ es[e] \notin {"dial", "run"} /\ es'[e] \notin {"dial", "run"}

\* An execution server starts a job, reports its end, fails or does something that
\* is not about a job, and the reports stay in their order.
LEMMA ExecTalk ==
  ASSUME Types, Links, Reporting, NEW e \in Execs, at' = at,
         \/ ES!ExecStep(e) \/ ES!Start(e) \/ ES!JobRequest(e)
         \/ ES!CloseConnecMain(e) \/ ES!Crash(e)
  PROVE  /\ Talk(at[e], es'[e], toMain'[e], toPeer'[e])
         /\ \/ \E j \in JobIds : Receives(e, j)
            \/ Finishes(e) \/ Fails(e) \/ Unrelated(e)
<1> DEFINE a == at[e]
           x == es[e]
           o == open[e]
           m == toMain[e]
           p == toPeer[e]
           G == /\ Talk(a, es'[e], toMain'[e], toPeer'[e])
                /\ \/ \E j \in JobIds : Receives(e, j)
                   \/ Finishes(e) \/ Fails(e) \/ Unrelated(e)
<1>0. /\ e \in Peers
      /\ es \in [Execs -> {"off", "prompt", "wait", "sleep", "dial", "run"}]
      /\ toMain \in [Peers -> Seq(ClientRequests \cup ExecMessages)]
      /\ toPeer \in [Peers -> Seq(ClientResponses \cup JobMessages)]
      /\ cur \in [Execs -> Jobs]
      /\ m \in Seq(ExecMessages) /\ p \in Seq(JobMessages)
  BY DEF Types, NetTypes, ToMainType, ToPeerType, ExecTypes, Peers
<1>b. Talk(a, x, m, p) /\ ExecProtocol(a, x, o, m, p)
  BY DEF Reporting, Links, ExecLink
<1>c. NoJobIn(<<>>) /\ SameReports(m, m)
  BY DEF NoJobIn, SameReports
<1>d. p # <<>> => Tail(p) = <<>>
  BY <1>0, <1>b, ShortQueue DEF ExecProtocol
<1>f. ASSUME NEW r, ES!Tell(e, r)
      PROVE  toMain'[e] = IF "main" \in o THEN Append(m, r) ELSE m
  BY <1>0, <1>f DEF ES!Tell, ES!Sent
\* A message that is no report.
<1>g. ASSUME NEW r \in ExecMessages, r.type \notin ReportTypes, ES!Tell(e, r),
             toPeer'[e] = p \/ (NoJobIn(p) /\ NoJobIn(toPeer'[e])), lost' = lost,
             x \notin {"dial", "run"}, es'[e] \notin {"dial", "run"}
      PROVE  G
  <2>1. ~IsEnd(r) /\ r.type # "JOB_RUN"
    BY <1>g DEF IsEnd, ES!EndTypes, ReportTypes
  <2>2. SameReports(m, Append(m, r)) /\ InTurn(Append(m, r))
    <3>1. \A j : ~RunIn(<<>>, j)
      BY NoMessages
    <3> QED
      BY <1>0, <1>b, <2>1, <3>1, OneMore DEF Talk, SameReports
  <2>3. NoReport(m) => NoReport(Append(m, r))
    BY <1>0, <1>g, OneMore
  <2>4. toMain'[e] \in {m, Append(m, r)}
    BY <1>f, <1>g
  <2>5. Unrelated(e)
    BY <1>c, <1>g, <2>2, <2>4 DEF Unrelated
  <2>6. Talk(a, es'[e], toMain'[e], toPeer'[e])
    BY <1>b, <1>g, <2>2, <2>3, <2>4 DEF Talk
  <2> QED
    BY <2>5, <2>6
<1>1. ASSUME ES!Start(e) PROVE G
  <2>1. /\ x = "off" /\ o = {} /\ es'[e] = "prompt"
        /\ toMain'[e] = <<>> /\ toPeer'[e] = <<>> /\ lost' = lost
    BY <1>0, <1>1 DEF ES!Start, ES!Connect, ES!Become
  <2>2. m = <<>> /\ p = <<>>
    BY <1>b, <2>1 DEF ExecProtocol, Ends
  <2> QED
    BY <1>c, <2>1, <2>2, NoMessages DEF Talk, Unrelated
<1>2. ASSUME ES!JobRequest(e) PROVE G
  <2>1. ES!SetJobReq \in ExecMessages /\ ES!SetJobReq.type \notin ReportTypes
    BY ExecMessageTypes DEF ES!SetJobReq, ReportTypes
  <2>2. /\ ES!Tell(e, ES!SetJobReq) /\ toPeer'[e] = p /\ lost' = lost /\ x = "prompt"
        /\ es'[e] = "wait"
    BY <1>0, <1>2 DEF ES!JobRequest, ES!Become, ES!linkVars
  <2> QED
    BY <1>g, <2>1, <2>2
<1>3. ASSUME ES!CloseConnecMain(e) PROVE G
  <2> DEFINE r == ES!SetClosedConnection_ExecServer
  <2>1. r \in ExecMessages /\ r.type \notin ReportTypes
    BY ExecMessageTypes DEF ES!SetClosedConnection_ExecServer, ReportTypes
  <2>2. /\ ES!Tell(e, r) /\ toPeer'[e] = <<>> /\ lost' = lost /\ x = "prompt"
        /\ es'[e] = "off"
    BY <1>0, <1>3 DEF ES!CloseConnecMain, ES!Disconnect, ES!Become
  <2>3. p = <<>>
    BY <1>b, <2>2 DEF ExecProtocol
  <2> HIDE DEF r
  <2> QED
    BY <1>g, <2>1, <2>2, <2>3
<1>4. ASSUME ES!RecvCheck(e) PROVE G
  <2>1. /\ x = "wait" /\ p # <<>> /\ Head(p).type = "CH_EXEC_SER" /\ es'[e] = "sleep"
        /\ toMain'[e] = m /\ toPeer'[e] = Tail(p) /\ lost' = lost
    BY <1>0, <1>4 DEF ES!RecvCheck, ES!Arrived, ES!Received, ES!Become, ES!linkVars
  <2>2. NoJobIn(p) /\ toPeer'[e] = <<>>
    BY <1>d, <2>1 DEF NoJobIn, ES!JobTypes
  <2> QED
    BY <1>b, <1>c, <2>1, <2>2 DEF Talk, Unrelated
<1>5. ASSUME ES!SendAck(e) PROVE G
  <2>1. /\ ES!SetCheckExecServerAck \in ExecMessages
        /\ ES!SetCheckExecServerAck.type \notin ReportTypes
    BY ExecMessageTypes DEF ES!SetCheckExecServerAck, ReportTypes
  <2>2. /\ ES!Tell(e, ES!SetCheckExecServerAck) /\ toPeer'[e] = p /\ lost' = lost
        /\ x = "sleep" /\ es'[e] = "wait"
    BY <1>0, <1>5 DEF ES!SendAck, ES!Become, ES!linkVars
  <2> QED
    BY <1>g, <2>1, <2>2
<1>6. ASSUME ES!LoseMain(e) PROVE G
  <2>1. /\ x = "wait" /\ p = <<>> /\ es'[e] = "off" /\ toMain'[e] = m /\ toPeer'[e] = <<>>
        /\ lost' = lost
    BY <1>0, <1>6 DEF ES!LoseMain, ES!Ended, ES!Disconnect, ES!Become
  <2> QED
    BY <1>b, <1>c, <2>1 DEF Talk, Unrelated
<1>7. ASSUME ES!Crash(e) PROVE G
  <2>1. PICK n \in 0 .. Len(m) :
          /\ toMain' = [toMain EXCEPT ![e] = SubSeq(@, 1, n)]
          /\ lost' = lost \cup ES!JobsIn(p, ES!JobTypes)
                     \cup ES!JobsIn(SubSeq(m, n + 1, Len(m)), ES!EndTypes)
                     \cup {j \in {cur[e].id} : x \in {"dial", "run"}}
    BY <1>7 DEF ES!Crash
  <2>2. es'[e] = "off" /\ toPeer'[e] = <<>> /\ toMain'[e] = SubSeq(m, 1, n)
    BY <1>0, <1>7, <2>1 DEF ES!Crash, ES!Disconnect, ES!Become
  <2>3. Fails(e)
    BY <2>1, <2>2 DEF Fails
  <2>4. InTurn(SubSeq(m, 1, n)) /\ (NoReport(m) => NoReport(SubSeq(m, 1, n)))
    BY <1>0, <1>b, CutOff DEF Talk
  <2> QED
    BY <1>b, <1>c, <2>2, <2>3, <2>4 DEF Talk
<1>i. cur[e].id \in JobIds
  BY <1>0 DEF Jobs
<1>s. /\ 0 \in Statuses /\ ForkFailed \in Statuses /\ ES!ForkFailed = ForkFailed
      /\ ES!ChildStatuses \subseteq Statuses /\ Signals \subseteq Statuses
  BY DEF ES!ChildStatuses, ES!ExecFailed, ES!ForkFailed, ExecFailed, ForkFailed, Statuses
<1>r. \A j \in JobIds, status \in Statuses :
        /\ ES!SetJobDone(j, status) \in Reports /\ ES!SetJobSignaled(j, status) \in Reports
        /\ IsEnd(ES!SetJobDone(j, status)) /\ IsEnd(ES!SetJobSignaled(j, status))
        /\ ES!SetJobDone(j, status).id = j /\ ES!SetJobSignaled(j, status).id = j
  BY DEF ES!SetJobDone, ES!SetJobSignaled, IsEnd, ES!EndTypes, Reports, Final
\* A server that has, or is sent, a job has its thread at the top of its loop.
<1>o. a = "recv" => "main" \in o
  BY <1>b DEF ExecProtocol, Ends
<1>8. ASSUME x \in {"dial", "run"}, NEW r \in Reports, IsEnd(r), r.id = cur[e].id,
             ES!Tell(e, r), es'[e] = "prompt", UNCHANGED <<toPeer, lost>>
      PROVE  G
  <2>1. a = "recv" /\ NoEnd(m) /\ InTurn(m)
    BY <1>b, <1>8 DEF Talk
  <2>2. toMain'[e] = Append(m, r)
    BY <1>f, <1>o, <1>8, <2>1
  <2>3. r \in ExecMessages /\ r.type # "JOB_RUN"
    BY <1>8 DEF ExecMessages, IsEnd, ES!EndTypes
  <2>4. InTurn(Append(m, r))
    BY <1>0, <1>8, <2>1, <2>3, OneMore
  <2> QED
    BY <1>8, <2>1, <2>2, <2>4 DEF Talk, Finishes
<1>9. ASSUME ES!ReportJob(e) PROVE G
  <2>1. PICK r \in Reports : IsEnd(r) /\ r.id = cur[e].id /\ ES!Tell(e, r)
    BY <1>9, <1>i, <1>r, <1>s DEF ES!ReportJob
  <2>2. x = "run" /\ es'[e] = "prompt" /\ UNCHANGED <<toPeer, lost>>
    BY <1>0, <1>9 DEF ES!ReportJob, ES!Become
  <2> QED
    BY <1>8, <2>1, <2>2
<1>10. ASSUME ES!Dial(e) PROVE G
  <2>1. x = "dial" /\ UNCHANGED <<toPeer, lost>>
    BY <1>10 DEF ES!Dial
  <2>2. CASE UNCHANGED toMain /\ ES!Become(e, "run")
             /\ (cur' = cur \/ cur' = [cur EXCEPT ![e].port = NoAddr])
    <3>1. cur'[e].id = cur[e].id
      <4>1. [cur[e] EXCEPT !.port = NoAddr].id = cur[e].id
        BY <1>0 DEF Jobs
      <4>2. \/ cur' = cur
            \/ cur' = [cur EXCEPT ![e] = [cur[e] EXCEPT !.port = NoAddr]]
        BY <2>2
      <4> QED
        BY <1>0, <4>1, <4>2
    <3>2. es'[e] = "run"
      BY <1>0, <2>2 DEF ES!Become
    <3> QED
      BY <1>b, <1>c, <2>1, <2>2, <3>1, <3>2 DEF Talk, Unrelated
  <2>3. CASE ES!Tell(e, ES!SetJobDone(cur[e].id, 0)) /\ ES!Become(e, "prompt")
    <3>1. es'[e] = "prompt"
      BY <1>0, <2>3 DEF ES!Become
    <3> QED
      BY <1>8, <1>i, <1>r, <1>s, <2>1, <2>3, <3>1
  <2> QED
    BY <1>10, <2>2, <2>3 DEF ES!Dial
<1>11. ASSUME ES!RecvJob(e) PROVE G
  <2> DEFINE j == Head(p).id
  <2>1. /\ x = "wait" /\ p # <<>> /\ Head(p).type \in ES!JobTypes /\ toPeer'[e] = Tail(p)
        /\ lost' = lost
    BY <1>0, <1>11 DEF ES!RecvJob, ES!Arrived, ES!Received, ES!linkVars
  <2>2. Head(p) \in JobMessages
    BY <1>0, <2>1, MessageQueue
  <2>3. j \in JobIds /\ Carries(e, j)
    BY <2>1, <2>2 DEF JobMessages, ES!JobTypes, Carries
  <2>4. a = "recv" /\ "main" \in o
    BY <1>b, <1>o, <2>1 DEF Talk, NoJobIn
  <2>5. m = <<>>
    BY <1>b, <2>1, <2>4 DEF ExecProtocol
  <2>6. toPeer'[e] = <<>>
    BY <1>d, <2>1
  <2> HIDE DEF j
  <2>7. CASE /\ ES!Tell(e, ES!SetJobRun(j)) /\ cur'[e].id = j /\ es'[e] \in {"dial", "run"}
    <3> DEFINE r == ES!SetJobRun(j)
    <3>1. r \in ExecMessages /\ r = SetJobRun(j) /\ ~IsEnd(r)
      BY <2>3, ExecMessageTypes DEF ES!SetJobRun, SetJobRun, IsEnd, ES!EndTypes
    <3>2. toMain'[e] = Append(<<>>, r)
      BY <1>f, <2>4, <2>5, <2>7
    <3> HIDE DEF r
    <3>3. Append(<<>>, r) = <<r>>
      OBVIOUS
    <3>4. InTurn(toMain'[e]) /\ NoEnd(toMain'[e])
      BY <3>1, <3>2, FirstMessage
    <3>5. Receives(e, j)
      BY <2>1, <2>3, <2>5, <2>6, <2>7, <3>1, <3>2, <3>3 DEF Receives
    <3> QED
      BY <2>3, <2>4, <3>4, <3>5 DEF Talk
  <2>8. CASE ES!Tell(e, ES!SetJobDone(j, ES!ForkFailed)) /\ es'[e] = "prompt"
    <3> DEFINE r == ES!SetJobDone(j, ES!ForkFailed)
    <3>1. r \in ExecMessages /\ r = SetJobDone(j, ForkFailed) /\ r.type # "JOB_RUN"
      <4>1. r \in Reports
        BY <1>r, <1>s, <2>3
      <4> QED
        BY <4>1 DEF ExecMessages, ES!SetJobDone, SetJobDone, ES!ForkFailed, ForkFailed,
                    ES!ExecFailed, ExecFailed
    <3>2. toMain'[e] = Append(<<>>, r)
      BY <1>f, <2>4, <2>5, <2>8
    <3> HIDE DEF r
    <3>3. Append(<<>>, r) = <<r>>
      OBVIOUS
    <3>4. InTurn(toMain'[e])
      BY <3>1, <3>2, FirstMessage
    <3>5. Receives(e, j)
      BY <2>1, <2>3, <2>5, <2>6, <2>8, <3>1, <3>2, <3>3 DEF Receives
    <3> QED
      BY <2>3, <2>4, <2>8, <3>4, <3>5 DEF Talk
  <2> QED
    BY <1>0, <1>11, <2>7, <2>8 DEF ES!RecvJob, ES!Become, j
<1> QED
  BY <1>1, <1>2, <1>3, <1>4, <1>5, <1>6, <1>7, <1>9, <1>10, <1>11 DEF ES!ExecStep

\* Every step of the system keeps the reports in order.
LEMMA ReportingStep == Types /\ Links /\ Reporting /\ [Next]_vars => Reporting'
<1> SUFFICES ASSUME Types, Links, Reporting, [Next]_vars, NEW f \in Execs
             PROVE  Talk(at'[f], es'[f], toMain'[f], toPeer'[f])
  BY DEF Reporting
<1> DEFINE G == Talk(at'[f], es'[f], toMain'[f], toPeer'[f])
<1>0. f \in Peers /\ \A c \in Clients : f # c
  BY PeerAssumption DEF Peers
<1>1. ASSUME at'[f] = at[f], es'[f] = es[f], toMain'[f] = toMain[f], toPeer'[f] = toPeer[f]
      PROVE  G
  BY <1>1 DEF Reporting
<1>2. CASE MainStep
  <2>1. es' = es
    BY <1>2 DEF MainStep, execVars
  <2>2. ASSUME NEW t \in Peers, ThreadStep(t) PROVE G
    <3>1. CASE t = f
      BY <2>1, <2>2, <3>1, ThreadTalk
    <3>2. CASE t # f
      BY <1>0, <1>1, <2>1, <2>2, <3>2, ThreadFrame
    <3> QED
      BY <3>1, <3>2
  <2>3. ASSUME NEW t \in Peers, Wakeup(t) PROVE G
    BY <1>1, <2>1, <2>3 DEF Wakeup, netVars
  <2>4. ASSUME Stop PROVE G
    BY <1>1, <2>1, <2>4 DEF Stop, netVars
  <2> QED
    BY <1>2, <2>2, <2>3, <2>4 DEF MainStep, MainNext
<1>3. CASE ExecStep
  <2>1. at' = at
    BY <1>3 DEF ExecStep, mainVars
  <2>2. PICK e \in Execs : \/ ES!ExecStep(e) \/ ES!Start(e) \/ ES!JobRequest(e)
                           \/ ES!CloseConnecMain(e) \/ ES!Crash(e)
    BY <1>3 DEF ExecStep, ES!ExecNext
  <2>3. CASE e = f
    BY <2>1, <2>2, <2>3, ExecTalk
  <2>4. CASE e # f
    BY <1>0, <1>1, <2>1, <2>2, <2>4, ExecFrame
  <2> QED
    BY <2>3, <2>4
<1>4. CASE ClientStep
  <2>1. at' = at /\ es' = es
    BY <1>4 DEF ClientStep, mainVars, execVars
  <2>2. PICK c \in Clients : ClientActs(c)
    BY <1>4 DEF ClientStep, CL!ClientNext, ClientActs
  <2> QED
    BY <1>0, <1>1, <2>1, <2>2, ClientFrame
<1>5. CASE UNCHANGED vars
  BY <1>1, <1>5 DEF vars, netVars, mainVars, execVars
<1> QED
  BY <1>2, <1>3, <1>4, <1>5 DEF Next

\* The reports are always in order.
LEMMA ReportingCorrect == Spec => []Reporting
<1>1. Init => Reporting
  BY NoMessages DEF Init, NetInit, MainInit, ES!ExecInit, Peers, Reporting, Talk, NoJobIn
<1>2. Types /\ Links /\ Reporting /\ [Next]_vars => Reporting'
  BY ReportingStep
<1> QED
  BY <1>1, <1>2, TypesCorrect, LinksCorrect, PTL DEF Spec

-----------------------------------------------------------------------------
(***************************************************************************)
(* A job and its entry.  What there is to know of a job is who has it and  *)
(* which reports on it are on their way.                                   *)
(***************************************************************************)
StartSaid(e, j) == RunIn(toMain[e], j)
EndSaid(e, j)   == EndIn(toMain[e], j)
ErrorSaid(e, j) == ErrorIn(toMain[e], j)

\* Execution server e has started job j, or there are reports of it on the job.
Concerns(e, j) == Executes(e, j) \/ StartSaid(e, j) \/ EndSaid(e, j)

\* One execution server at most reports on a job.
OneReporter == \A j \in JobIds, e, f \in Execs : Concerns(e, j) /\ Concerns(f, j) => e = f

\* The end of a job that is lost is not reported any more.
LostFor(j)  == Gone(j) /\ \A e \in Execs : ~Executes(e, j) /\ ~EndSaid(e, j)
LostAreGone == \A j \in lost : LostFor(j)

\* State s is the one to be recorded for job j: the reports that are on their way
\* lead on from it.
Fits(j, s) ==
  /\ Has(j) => s = "WAIT"
  /\ j \in lost => s \notin Final
  /\ \A e \in Execs :
       /\ Carries(e, j) => s = "WAIT"
       /\ Executes(e, j) => StartSaid(e, j) \/ s = "RUN"
       /\ StartSaid(e, j) => s = "WAIT"
       /\ EndSaid(e, j) => \/ StartSaid(e, j) \/ s = "RUN"
                           \/ s = "WAIT" /\ ErrorSaid(e, j)

\* Job j is somewhere, or it is over.
Found(j, s) ==
  \/ Has(j) \/ s \in Final \/ j \in lost
  \/ \E e \in Execs : Carries(e, j) \/ Executes(e, j) \/ EndSaid(e, j)

\* An entry is in the place of its id, and fits.
Recorded(i) ==
  job_array[i] # NoEntry =>
    /\ job_array[i].id < history_putidx
    /\ job_array[i].id % JOB_HISTORY_MAX = i
    /\ Fits(job_array[i].id, job_array[i].state)
    /\ ~stopped => Found(job_array[i].id, job_array[i].state)

Course == OneReporter /\ LostAreGone /\ \A i \in HistIdx : Recorded(i)

\* A job is with one of them: the main server, a connection, or whoever reports on
\* it, who has it alone.
LEMMA InOneHand ==
  ASSUME Types, Custody, NEW j \in JobIds
  PROVE  /\ \A e \in Execs : Concerns(e, j) => Gone(j)
         /\ Gone(j) => /\ j < history_putidx /\ ~Has(j)
                       /\ \A e \in Execs : ~Carries(e, j)
         /\ Has(j) => j < history_putidx /\ \A e \in Execs : ~Carries(e, j)
         /\ \A e, f \in Execs : Carries(e, j) /\ Carries(f, j) => e = f
         /\ \A e \in Execs : Carries(e, j) => j < history_putidx
<1>1. ASSUME NEW e \in Execs, Concerns(e, j) PROVE Gone(j)
  <2> DEFINE m == toMain[e]
  <2>0. m \in Seq(ExecMessages)
    BY DEF Types, NetTypes, ToMainType
  <2>1. RunIn(m, j) => ReportIn(m, j)
    <3>1. m # <<>> => 1 \in 1 .. Len(m) /\ m[1] = Head(m)
      BY <2>0
    <3> QED
      BY <3>1 DEF RunIn, ReportIn, ReportTypes
  <2>2. EndIn(m, j) => ReportIn(m, j)
    BY DEF EndIn, ReportIn, IsEnd, ES!EndTypes, ReportTypes
  <2> QED
    BY <1>1, <2>1, <2>2 DEF Concerns, StartSaid, EndSaid, Custody, ReportsOnGone
<1>2. Gone(j) => /\ j < history_putidx /\ ~Has(j)
                 /\ \A e \in Execs : ~Carries(e, j)
  BY DEF Gone, Has
<1>3. Has(j) => j < history_putidx /\ \A e \in Execs : ~Carries(e, j)
  BY DEF Has, Custody, HeldOnce
<1>4. /\ \A e, f \in Execs : Carries(e, j) /\ Carries(f, j) => e = f
      /\ \A e \in Execs : Carries(e, j) => j < history_putidx
  BY DEF Custody, CarriedOnce
<1> QED
  BY <1>1, <1>2, <1>3, <1>4

\* A step by which jobs go on from the main server to an execution server and to
\* the reports, or vanish.
Onward ==
  /\ history_putidx' \in Nat /\ history_putidx <= history_putidx'
  /\ \A j \in JobIds :
       /\ Has(j)' => Has(j) \/ ~(j < history_putidx)
       /\ \A e \in Execs :
            /\ Carries(e, j)' => Carries(e, j) \/ Has(j)
            /\ Executes(e, j)' => Executes(e, j) \/ Carries(e, j)
            /\ StartSaid(e, j)' => StartSaid(e, j) \/ Carries(e, j)
            /\ EndSaid(e, j)' => EndSaid(e, j) \/ Executes(e, j) \/ Carries(e, j)

\* Then still one execution server reports on a job, and what was lost is lost.
LEMMA OnwardKeeps ==
  ASSUME Types, Custody, OneReporter, LostAreGone, Onward
  PROVE  OneReporter' /\ \A j \in lost : LostFor(j)'
<1>0. lost \subseteq JobIds /\ JobIds \subseteq Nat /\ history_putidx \in Nat
  BY HistoryAssumption DEF Types, NetTypes, LinkTypes, MainTypes, HistoryTypes, JobIds
<1>1. OneReporter'
  <2> SUFFICES ASSUME NEW j \in JobIds, NEW e \in Execs, NEW f \in Execs,
                      Concerns(e, j)', Concerns(f, j)'
               PROVE  e = f
    BY DEF OneReporter
  <2>1. (Concerns(e, j) \/ Carries(e, j)) /\ (Concerns(f, j) \/ Carries(f, j))
    BY DEF Onward, Concerns
  <2> QED
    BY <2>1, InOneHand DEF OneReporter
<1>2. ASSUME NEW j \in lost PROVE LostFor(j)'
  <2>1. Gone(j) /\ \A e \in Execs : ~Executes(e, j) /\ ~EndSaid(e, j)
    BY DEF LostAreGone, LostFor
  <2>2. j < history_putidx /\ ~Has(j) /\ \A e \in Execs : ~Carries(e, j)
    BY <1>0, <2>1, InOneHand
  <2>3. j < history_putidx'
    BY <1>0, <2>2 DEF Onward
  <2>4. ~Has(j)' /\ \A e \in Execs : ~Carries(e, j)' /\ ~Executes(e, j)' /\ ~EndSaid(e, j)'
    BY <1>0, <2>1, <2>2 DEF Onward
  <2>5. Gone(j)'
    BY <2>3, <2>4 DEF Gone, Has
  <2> QED
    BY <2>4, <2>5 DEF LostFor
<1> QED
  BY <1>1, <1>2

\* Nothing about a job is said to or by execution server e.
Same(e) ==
  \A j \in JobIds : /\ Carries(e, j)' <=> Carries(e, j)
                    /\ Executes(e, j)' <=> Executes(e, j)
                    /\ StartSaid(e, j)' <=> StartSaid(e, j)
                    /\ EndSaid(e, j)' <=> EndSaid(e, j)
                    /\ ErrorSaid(e, j)' <=> ErrorSaid(e, j)

\* The history stays as it is, and all the jobs stay somewhere.
Keeps ==
  /\ OneReporter' /\ LostAreGone'
  /\ \A j \in JobIds, s \in States : /\ Fits(j, s) => Fits(j, s)'
                                     /\ Fits(j, s) /\ Found(j, s) => Found(j, s)'

\* A step of the thread of execution server t, or of t itself.
Alone(t) ==
  /\ UNCHANGED <<job_array, history_putidx, stopped>>
  /\ \A e \in Execs : e # t => Same(e)

\* sendJob: job j goes to the connection, or is lost.
SendMove(t, j) ==
  /\ Alone(t) /\ Has(j)
  /\ \A k \in JobIds : /\ Has(k)' <=> Has(k) /\ k # j
                       /\ ~Carries(t, k)
                       /\ Executes(t, k)' <=> Executes(t, k)
                       /\ StartSaid(t, k)' <=> StartSaid(t, k)
                       /\ EndSaid(t, k)' <=> EndSaid(t, k)
                       /\ ErrorSaid(t, k)' <=> ErrorSaid(t, k)
  /\ \/ lost' = lost /\ \A k \in JobIds : Carries(t, k)' <=> k = j
     \/ lost' = lost \cup {j} /\ \A k \in JobIds : ~Carries(t, k)'

\* execJob: the execution server starts job j, or cannot.
RecvMove(t, j) ==
  /\ Alone(t) /\ UNCHANGED lost /\ Carries(t, j)
  /\ \A k \in JobIds : /\ Has(k)' <=> Has(k)
                       /\ ~Carries(t, k)' /\ (Carries(t, k) => k = j)
                       /\ ~Executes(t, k) /\ ~StartSaid(t, k) /\ ~EndSaid(t, k)
  /\ \/ \A k \in JobIds : /\ Executes(t, k)' <=> k = j
                          /\ StartSaid(t, k)' <=> k = j
                          /\ ~EndSaid(t, k)'
     \/ \A k \in JobIds : /\ ~Executes(t, k)' /\ ~StartSaid(t, k)'
                          /\ EndSaid(t, k)' <=> k = j
                          /\ ErrorSaid(t, k)' <=> k = j

\* fatherJobRoutine: the end of job j is reported.
FinishMove(t, j) ==
  /\ Alone(t) /\ UNCHANGED lost
  /\ \A k \in JobIds : /\ Has(k)' <=> Has(k)
                       /\ Carries(t, k)' <=> Carries(t, k)
                       /\ Executes(t, k) <=> k = j
                       /\ ~Executes(t, k)' /\ ~EndSaid(t, k)
                       /\ StartSaid(t, k)' <=> StartSaid(t, k)
                       /\ EndSaid(t, k)' <=> k = j

\* The execution server fails.
FailMove(t) ==
  /\ Alone(t) /\ lost' \subseteq JobIds
  /\ \A k \in JobIds : /\ Has(k)' <=> Has(k)
                       /\ ~Carries(t, k)' /\ ~Executes(t, k)'
                       /\ Executes(t, k) => ~EndSaid(t, k)
                       /\ StartSaid(t, k)' => StartSaid(t, k)
                       /\ EndSaid(t, k)' => /\ EndSaid(t, k)
                                            /\ StartSaid(t, k) => StartSaid(t, k)'
                                            /\ ErrorSaid(t, k) => ErrorSaid(t, k)'
                       /\ k \in lost' <=> \/ k \in lost \/ Carries(t, k) \/ Executes(t, k)
                                          \/ EndSaid(t, k) /\ ~EndSaid(t, k)'

\* A job that is sent is recorded as waiting, and stays so.
LEMMA SendKeeps ==
  ASSUME Types, Custody, OneReporter, LostAreGone,
         NEW t \in Execs, NEW j \in JobIds, SendMove(t, j)
  PROVE  Keeps
<1>0. history_putidx \in Nat /\ history_putidx' = history_putidx /\ lost \subseteq JobIds
  BY DEF Types, NetTypes, LinkTypes, MainTypes, HistoryTypes, SendMove, Alone
<1>1. j < history_putidx /\ \A e \in Execs : ~Carries(e, j) /\ ~Concerns(e, j)
  BY InOneHand DEF SendMove
<1>2. Onward
  BY <1>0 DEF Onward, SendMove, Alone, Same
<1>3. OneReporter' /\ \A k \in lost : LostFor(k)'
  BY <1>2, OnwardKeeps
<1>4. ASSUME lost' = lost \cup {j}, \A k \in JobIds : ~Carries(t, k)' PROVE LostFor(j)'
  <2>1. ~Has(j)' /\ j < history_putidx'
    BY <1>0, <1>1 DEF SendMove
  <2>2. ASSUME NEW e \in Execs PROVE ~Carries(e, j)' /\ ~Executes(e, j)' /\ ~EndSaid(e, j)'
    BY <1>1, <1>4 DEF SendMove, Alone, Same, Concerns
  <2> QED
    BY <2>1, <2>2 DEF LostFor, Gone, Has
<1>5. LostAreGone'
  BY <1>3, <1>4 DEF LostAreGone, SendMove
<1>6. ASSUME NEW k \in JobIds, NEW s \in States, Fits(k, s) PROVE Fits(k, s)'
  <2>1. Has(k)' => s = "WAIT"
    BY <1>6 DEF Fits, SendMove
  <2>2. k \in lost' => s \notin Final
    BY <1>6 DEF Fits, SendMove, Final
  <2>3. ASSUME NEW e \in Execs
        PROVE  /\ Carries(e, k)' => s = "WAIT"
               /\ Executes(e, k)' => StartSaid(e, k)' \/ s = "RUN"
               /\ StartSaid(e, k)' => s = "WAIT"
               /\ EndSaid(e, k)' => \/ StartSaid(e, k)' \/ s = "RUN"
                                    \/ s = "WAIT" /\ ErrorSaid(e, k)'
    BY <1>6 DEF Fits, SendMove, Alone, Same
  <2> QED
    BY <2>1, <2>2, <2>3 DEF Fits
<1>7. ASSUME NEW k \in JobIds, NEW s \in States, Found(k, s) PROVE Found(k, s)'
  <2>1. CASE k # j
    BY <1>7, <2>1 DEF Found, SendMove, Alone, Same
  <2>2. CASE k = j
    BY <2>2 DEF Found, SendMove
  <2> QED
    BY <2>1, <2>2
<1> QED
  BY <1>3, <1>5, <1>6, <1>7 DEF Keeps

\* So does one that is received, until its start is reported.
LEMMA RecvKeeps ==
  ASSUME Types, Custody, OneReporter, LostAreGone,
         NEW t \in Execs, NEW j \in JobIds, RecvMove(t, j)
  PROVE  Keeps
<1>0. history_putidx \in Nat /\ history_putidx' = history_putidx /\ lost' = lost
  BY DEF Types, MainTypes, HistoryTypes, RecvMove, Alone
<1>1. Onward
  BY <1>0 DEF Onward, RecvMove, Alone, Same
<1>2. OneReporter' /\ LostAreGone'
  BY <1>0, <1>1, OnwardKeeps DEF LostAreGone
<1>3. ~Has(j) /\ \A e \in Execs : e # t => ~Carries(e, j)
  BY InOneHand DEF RecvMove
<1>4. ASSUME NEW k \in JobIds, NEW s \in States, Fits(k, s) PROVE Fits(k, s)'
  <2>1. (Has(k)' => s = "WAIT") /\ (k \in lost' => s \notin Final)
    BY <1>0, <1>4 DEF Fits, RecvMove
  <2>2. ASSUME NEW e \in Execs
        PROVE  /\ Carries(e, k)' => s = "WAIT"
               /\ Executes(e, k)' => StartSaid(e, k)' \/ s = "RUN"
               /\ StartSaid(e, k)' => s = "WAIT"
               /\ EndSaid(e, k)' => \/ StartSaid(e, k)' \/ s = "RUN"
                                    \/ s = "WAIT" /\ ErrorSaid(e, k)'
    BY <1>4 DEF Fits, RecvMove, Alone, Same
  <2> QED
    BY <2>1, <2>2 DEF Fits
<1>5. ASSUME NEW k \in JobIds, NEW s \in States, Found(k, s) PROVE Found(k, s)'
  <2>1. CASE k # j
    BY <1>0, <1>5, <2>1 DEF Found, RecvMove, Alone, Same
  <2>2. CASE k = j
    BY <2>2 DEF Found, RecvMove
  <2> QED
    BY <2>1, <2>2
<1> QED
  BY <1>2, <1>4, <1>5 DEF Keeps

\* The end of a job is reported when its start was.
LEMMA FinishKeeps ==
  ASSUME Types, Custody, OneReporter, LostAreGone,
         NEW t \in Execs, NEW j \in JobIds, FinishMove(t, j)
  PROVE  Keeps
<1>0. history_putidx \in Nat /\ history_putidx' = history_putidx /\ lost' = lost
  BY DEF Types, MainTypes, HistoryTypes, FinishMove, Alone
<1>1. Onward
  BY <1>0 DEF Onward, FinishMove, Alone, Same
<1>2. OneReporter' /\ LostAreGone'
  BY <1>0, <1>1, OnwardKeeps DEF LostAreGone
<1>3. ASSUME NEW k \in JobIds, NEW s \in States, Fits(k, s) PROVE Fits(k, s)'
  <2>1. (Has(k)' => s = "WAIT") /\ (k \in lost' => s \notin Final)
    BY <1>0, <1>3 DEF Fits, FinishMove
  <2>2. ASSUME NEW e \in Execs
        PROVE  /\ Carries(e, k)' => s = "WAIT"
               /\ Executes(e, k)' => StartSaid(e, k)' \/ s = "RUN"
               /\ StartSaid(e, k)' => s = "WAIT"
               /\ EndSaid(e, k)' => \/ StartSaid(e, k)' \/ s = "RUN"
                                    \/ s = "WAIT" /\ ErrorSaid(e, k)'
    BY <1>3 DEF Fits, FinishMove, Alone, Same
  <2> QED
    BY <2>1, <2>2 DEF Fits
<1>4. ASSUME NEW k \in JobIds, NEW s \in States, Found(k, s) PROVE Found(k, s)'
  <2>1. CASE k # j
    BY <1>0, <1>4, <2>1 DEF Found, FinishMove, Alone, Same
  <2>2. CASE k = j
    BY <2>2 DEF Found, FinishMove
  <2> QED
    BY <2>1, <2>2
<1> QED
  BY <1>2, <1>3, <1>4 DEF Keeps

\* What an execution server takes with it is not over for the history.
LEMMA FailKeeps ==
  ASSUME Types, Custody, OneReporter, LostAreGone, NEW t \in Execs, FailMove(t)
  PROVE  Keeps
<1>0. history_putidx \in Nat /\ history_putidx' = history_putidx /\ lost \subseteq JobIds
  BY DEF Types, NetTypes, LinkTypes, MainTypes, HistoryTypes, FailMove, Alone
<1>1. Onward
  BY <1>0 DEF Onward, FailMove, Alone, Same
<1>2. OneReporter' /\ \A k \in lost : LostFor(k)'
  BY <1>1, OnwardKeeps
<1>3. ASSUME NEW j \in JobIds, Carries(t, j) \/ Executes(t, j) \/ (EndSaid(t, j) /\ ~EndSaid(t, j)')
      PROVE  LostFor(j)'
  <2>1. j < history_putidx /\ ~Has(j)
    BY <1>3, InOneHand DEF Concerns
  <2>2. ASSUME NEW e \in Execs PROVE ~Carries(e, j)' /\ ~Executes(e, j)' /\ ~EndSaid(e, j)'
    <3>1. CASE e = t
      <4>1. Carries(t, j) => ~EndSaid(t, j)
        BY InOneHand DEF Concerns
      <4> QED
        BY <1>3, <3>1, <4>1 DEF FailMove
    <3>2. CASE e # t
      <4>1. ~Carries(e, j) /\ ~Concerns(e, j)
        BY <1>3, <3>2, InOneHand DEF Concerns, OneReporter
      <4> QED
        BY <3>2, <4>1 DEF FailMove, Alone, Same, Concerns
    <3> QED
      BY <3>1, <3>2
  <2>3. ~Has(j)' /\ j < history_putidx'
    BY <1>0, <2>1 DEF FailMove
  <2> QED
    BY <2>2, <2>3 DEF LostFor, Gone, Has
<1>4. LostAreGone'
  BY <1>2, <1>3 DEF LostAreGone, FailMove
<1>5. ASSUME NEW k \in JobIds, NEW s \in States, Fits(k, s) PROVE Fits(k, s)'
  <2>1. Has(k)' => s = "WAIT"
    BY <1>5 DEF Fits, FailMove
  <2>2. k \in lost' => s \notin Final
    BY <1>5 DEF Fits, FailMove, Final
  <2>3. ASSUME NEW e \in Execs
        PROVE  /\ Carries(e, k)' => s = "WAIT"
               /\ Executes(e, k)' => StartSaid(e, k)' \/ s = "RUN"
               /\ StartSaid(e, k)' => s = "WAIT"
               /\ EndSaid(e, k)' => \/ StartSaid(e, k)' \/ s = "RUN"
                                    \/ s = "WAIT" /\ ErrorSaid(e, k)'
    BY <1>5 DEF Fits, FailMove, Alone, Same
  <2> QED
    BY <2>1, <2>2, <2>3 DEF Fits
<1>6. ASSUME NEW k \in JobIds, NEW s \in States, Found(k, s) PROVE Found(k, s)'
  BY <1>6 DEF Found, FailMove, Alone, Same
<1> QED
  BY <1>2, <1>4, <1>5, <1>6 DEF Keeps

\* An entry has an id and a state.
LEMMA EntryParts ==
  ASSUME Types, NEW i \in HistIdx, job_array[i] # NoEntry
  PROVE  /\ job_array[i] \in Entries
         /\ \E j \in JobIds, s \in States : j = job_array[i].id /\ s = job_array[i].state
<1>1. job_array[i] \in Entries
  BY DEF Types, MainTypes, HistoryTypes
<1> QED
  BY <1>1 DEF Entries, States, Final

\* All the steps so far leave the history, the jobs and the reports in keeping.
LEMMA KeepsCourse ==
  ASSUME Types, Course, Keeps, UNCHANGED <<job_array, history_putidx, stopped>>
  PROVE  Course'
<1>1. ASSUME NEW i \in HistIdx PROVE Recorded(i)'
  BY EntryParts DEF Course, Keeps, Recorded
<1> QED
  BY <1>1 DEF Course, Keeps

\* findJob finds every entry.
LEMMA EntryFound ==
  ASSUME Types, Filled, Course, NEW i \in HistIdx, job_array[i] # NoEntry
  PROVE  Knows(job_array, job_array[i].id) /\ FindJob(job_array, job_array[i].id) = i
<1> DEFINE j == job_array[i].id
<1>0. i \in Nat /\ i < JOB_HISTORY_MAX /\ history_putidx \in Nat /\ JOB_HISTORY_MAX \in Nat
  BY HistoryAssumption DEF HistIdx, Types, MainTypes, HistoryTypes
<1>1. i < history_putidx
  BY DEF Filled
<1>2. ASSUME NEW k \in 0 .. i PROVE job_array[k] # NoEntry
  <2>1. k \in HistIdx /\ k < history_putidx
    BY <1>0, <1>1 DEF HistIdx
  <2> QED
    BY <2>1 DEF Filled
<1>3. Knows(job_array, j)
  BY <1>2, FindJobFinds
<1> DEFINE f == FindJob(job_array, j)
<1>4. f \in HistIdx /\ job_array[f] # NoEntry /\ job_array[f].id = j
  BY <1>3, FindJobFinds
<1> HIDE DEF f
<1>5. f = j % JOB_HISTORY_MAX /\ i = j % JOB_HISTORY_MAX
  BY <1>4 DEF Course, Recorded
<1> QED
  BY <1>3, <1>5 DEF f

\* Nothing is said about any job; what the main server drops is forgotten.
RestMove ==
  /\ UNCHANGED <<job_array, history_putidx, lost>>
  /\ \A e \in Execs : Same(e)
  /\ \A k \in JobIds : Has(k)' => Has(k)
  /\ \/ stopped'
     \/ /\ UNCHANGED stopped
        /\ \A i \in HistIdx : job_array[i] # NoEntry /\ Has(job_array[i].id)
                                => Has(job_array[i].id)'

\* newJob: the id is one that no job had.
NewMove ==
  /\ UNCHANGED <<lost, stopped>>
  /\ \A e \in Execs : Same(e)
  /\ history_putidx \in JobIds /\ history_putidx' = history_putidx + 1
  /\ job_array' = AddEntry(job_array, history_putidx)
  /\ \A k \in JobIds : Has(k)' <=> Has(k) \/ k = history_putidx

\* changeStateJob: report r is read.
ReportMove(t, r) ==
  /\ \A e \in Execs : e # t => Same(e)
  /\ UNCHANGED <<history_putidx, lost, stopped>>
  /\ job_array' = SetState(job_array, r.id, r.state, r.exit)
  /\ \A k \in JobIds : /\ Has(k)' <=> Has(k)
                       /\ Carries(t, k)' <=> Carries(t, k)
                       /\ Executes(t, k)' <=> Executes(t, k)
                       /\ Executes(t, k) => ~EndSaid(t, k)
                       /\ ~StartSaid(t, k)'
  /\ \/ /\ r.type = "JOB_RUN" /\ r.state = "RUN"
        /\ \A k \in JobIds : /\ StartSaid(t, k) <=> k = r.id
                             /\ EndSaid(t, k)' <=> EndSaid(t, k)
                             /\ ErrorSaid(t, k)' <=> ErrorSaid(t, k)
     \/ /\ IsEnd(r) /\ r.state \in Final
        /\ \A k \in JobIds : /\ ~StartSaid(t, k) /\ ~EndSaid(t, k)'
                             /\ EndSaid(t, k) <=> k = r.id
                             /\ ErrorSaid(t, k) <=> k = r.id /\ r.state = "ERROR"

\* A step that is not about any job.
LEMMA RestKeeps ==
  ASSUME Types, Custody, Course, RestMove
  PROVE  Course'
<1>0. /\ history_putidx \in Nat /\ history_putidx' = history_putidx
      /\ lost' = lost /\ lost \subseteq JobIds /\ job_array' = job_array
  BY DEF Types, NetTypes, LinkTypes, MainTypes, HistoryTypes, RestMove
<1>1. Onward
  BY <1>0 DEF Onward, RestMove, Same
<1>2. OneReporter' /\ LostAreGone'
  BY <1>0, <1>1, OnwardKeeps DEF LostAreGone, Course
<1>3. ASSUME NEW j \in JobIds, NEW s \in States, Fits(j, s) PROVE Fits(j, s)'
  BY <1>0, <1>3 DEF Fits, RestMove, Same
<1>4. ASSUME NEW j \in JobIds, NEW s \in States, Found(j, s), Has(j) => Has(j)' PROVE Found(j, s)'
  BY <1>0, <1>4 DEF Found, RestMove, Same
<1>5. ASSUME NEW i \in HistIdx PROVE Recorded(i)'
  <2> SUFFICES ASSUME job_array[i] # NoEntry PROVE Recorded(i)'
    BY <1>0 DEF Recorded
  <2>1. PICK j \in JobIds, s \in States : j = job_array[i].id /\ s = job_array[i].state
    BY EntryParts
  <2>2. /\ j < history_putidx /\ j % JOB_HISTORY_MAX = i
        /\ Fits(j, s) /\ (~stopped => Found(j, s))
    BY <2>1 DEF Course, Recorded
  <2>3. ~stopped' => ~stopped /\ (Has(j) => Has(j)')
    BY <2>1 DEF RestMove
  <2>4. Fits(j, s)' /\ (~stopped' => Found(j, s)')
    BY <1>3, <1>4, <2>2, <2>3
  <2> QED
    BY <1>0, <2>1, <2>2, <2>4 DEF Recorded
<1> QED
  BY <1>2, <1>5 DEF Course

\* A new job waits.
LEMMA NewKeeps ==
  ASSUME Types, Custody, Course, NewMove
  PROVE  Course'
<1>a. PICK n \in JobIds : n = history_putidx
  BY DEF NewMove
<1> DEFINE p == n % JOB_HISTORY_MAX
           new == [id |-> n, state |-> "WAIT", exit |-> Garbage]
<1>0. /\ n \in Nat /\ JobIds \subseteq Nat /\ history_putidx' = n + 1
      /\ lost' = lost /\ stopped' = stopped /\ lost \subseteq JobIds
      /\ job_array \in [HistIdx -> Entries \cup {NoEntry}]
  BY <1>a, HistoryAssumption
     DEF Types, NetTypes, LinkTypes, MainTypes, HistoryTypes, NewMove, JobIds
<1>b. Has(n)' /\ \A k \in JobIds : Has(k)' <=> Has(k) \/ k = n
  BY <1>a DEF NewMove
<1>1. Onward
  <2>1. ~(n < n) /\ n <= n + 1 /\ n + 1 \in Nat
    BY <1>0
  <2> QED
    BY <1>0, <1>a, <1>b, <2>1 DEF Onward, NewMove, Same
<1>2. OneReporter' /\ LostAreGone'
  BY <1>0, <1>1, OnwardKeeps DEF LostAreGone, Course
<1>3. n \notin lost /\ \A e \in Execs : ~Carries(e, n) /\ ~Concerns(e, n)
  <2>1. ~(n < history_putidx)
    BY <1>0, <1>a
  <2>2. ~Gone(n)
    BY <2>1, InOneHand
  <2>3. n \notin lost
    BY <2>2 DEF Course, LostAreGone, LostFor
  <2> QED
    BY <2>1, <2>2, <2>3, InOneHand
<1>4. job_array' = [job_array EXCEPT ![p] = new] /\ new.id = n /\ new.state = "WAIT"
  BY <1>a DEF NewMove, AddEntry
<1>6. Fits(n, "WAIT")' /\ Found(n, "WAIT")'
  <2>1. ASSUME NEW e \in Execs
        PROVE  ~Carries(e, n)' /\ ~Executes(e, n)' /\ ~StartSaid(e, n)' /\ ~EndSaid(e, n)'
    BY <1>0, <1>3 DEF NewMove, Same, Concerns
  <2> QED
    BY <1>b, <2>1 DEF Fits, Found, Final
<1>7. ASSUME NEW j \in JobIds, NEW s \in States, j # n, Fits(j, s) PROVE Fits(j, s)'
  BY <1>0, <1>b, <1>7 DEF Fits, NewMove, Same
<1>8. ASSUME NEW j \in JobIds, NEW s \in States, j # n, Found(j, s) PROVE Found(j, s)'
  BY <1>0, <1>b, <1>8 DEF Found, NewMove, Same
<1>9. ASSUME NEW i \in HistIdx PROVE Recorded(i)'
  <2>1. CASE i = p
    <3>1. job_array'[i] = new
      BY <1>0, <1>4, <2>1
    <3>2. n < n + 1 /\ n % JOB_HISTORY_MAX = i
      BY <1>0, <2>1
    <3> HIDE DEF p, new
    <3> QED
      BY <1>0, <1>4, <1>6, <3>1, <3>2 DEF Recorded
  <2>2. CASE i # p
    <3>1. job_array'[i] = job_array[i]
      BY <1>0, <1>4, <2>2
    <3> SUFFICES ASSUME job_array[i] # NoEntry PROVE Recorded(i)'
      BY <3>1 DEF Recorded
    <3>2. PICK j \in JobIds, s \in States : j = job_array[i].id /\ s = job_array[i].state
      BY EntryParts
    <3>3. /\ j < history_putidx /\ j % JOB_HISTORY_MAX = i
          /\ Fits(j, s) /\ (~stopped => Found(j, s))
      BY <3>2 DEF Course, Recorded
    <3>4. j # n /\ j < n + 1
      BY <1>0, <1>a, <3>3
    <3>5. Fits(j, s)' /\ (~stopped' => Found(j, s)')
      BY <1>0, <1>7, <1>8, <3>3, <3>4
    <3> QED
      BY <1>0, <3>1, <3>2, <3>3, <3>4, <3>5 DEF Recorded
  <2> QED
    BY <2>1, <2>2
<1> QED
  BY <1>2, <1>9 DEF Course

\* changeStateJob changes the one entry of the job, if there is one.
LEMMA ReportEntry ==
  ASSUME Types, Filled, Course, NEW r \in Reports,
         job_array' = SetState(job_array, r.id, r.state, r.exit), NEW i \in HistIdx
  PROVE  IF job_array[i] # NoEntry /\ job_array[i].id = r.id
         THEN /\ job_array'[i] # NoEntry
              /\ job_array'[i].id = r.id /\ job_array'[i].state = r.state
         ELSE job_array'[i] = job_array[i]
<1> DEFINE k == FindJob(job_array, r.id)
           new == [id |-> r.id, state |-> r.state, exit |-> r.exit]
<1>0. job_array \in [HistIdx -> Entries \cup {NoEntry}] /\ new # NoEntry
  <2>1. new \in EntryType(0 .. 255)
    BY EntriesTyped DEF Reports, EntryType, Entries, States, Final
  <2> QED
    BY <2>1, ValueAssumption DEF Types, MainTypes, HistoryTypes
<1>1. new.id = r.id /\ new.state = r.state
  OBVIOUS
<1>2. CASE Knows(job_array, r.id)
  <2>1. k \in HistIdx /\ job_array[k] # NoEntry /\ job_array[k].id = r.id
    BY <1>2, FindJobFinds
  <2>2. job_array' = [job_array EXCEPT ![k] = new]
    BY <1>2 DEF SetState
  <2>3. job_array[i] # NoEntry /\ job_array[i].id = r.id => i = k
    BY EntryFound
  <2> HIDE DEF k, new
  <2> QED
    BY <1>0, <1>1, <2>1, <2>2, <2>3
<1>3. CASE ~Knows(job_array, r.id)
  <2>1. job_array' = job_array
    BY <1>3 DEF SetState
  <2>2. ~(job_array[i] # NoEntry /\ job_array[i].id = r.id)
    BY <1>3, EntryFound
  <2> QED
    BY <2>1, <2>2
<1> QED
  BY <1>2, <1>3

\* A report is about a job whose recorded state it leads on from.
LEMMA ReportFits ==
  ASSUME Types, Custody, Course, NEW t \in Execs, NEW r \in Reports, ReportMove(t, r),
         NEW s \in States, Fits(r.id, s)
  PROVE  /\ Fits(r.id, r.state)'
         /\ Found(r.id, s) => Found(r.id, r.state)'
         /\ \/ s = "WAIT" /\ r.state \in {"RUN", "ERROR"}
            \/ s = "RUN" /\ r.state \in Final
<1>a. PICK j \in JobIds : j = r.id
  BY DEF Reports
<1>0. Concerns(t, j)
  BY <1>a DEF ReportMove, Concerns
<1>1. ~Has(j) /\ \A e \in Execs : ~Carries(e, j)
  BY <1>0, InOneHand
<1>2. \A e \in Execs : e # t => ~Concerns(e, j)
  BY <1>0 DEF Course, OneReporter
<1>3. ~Has(j)' /\ \A e \in Execs : ~Carries(e, j)' /\ ~StartSaid(e, j)'
  BY <1>1, <1>2 DEF ReportMove, Same, Concerns
<1>4. \A e \in Execs : e # t => ~Executes(e, j)' /\ ~EndSaid(e, j)'
  BY <1>2 DEF ReportMove, Same, Concerns
<1>5. ASSUME r.type = "JOB_RUN", r.state = "RUN",
             \A k \in JobIds : /\ StartSaid(t, k) <=> k = r.id
                               /\ EndSaid(t, k)' <=> EndSaid(t, k)
      PROVE  /\ Fits(j, "RUN")' /\ (Found(j, s) => Found(j, "RUN")')
             /\ s = "WAIT"
  <2>1. s = "WAIT" /\ "WAIT" \notin Final /\ "RUN" \notin Final
    BY <1>a, <1>5 DEF Fits, Final
  <2>2. Fits(j, "RUN")'
    BY <1>3, <2>1 DEF Fits
  <2>3. ASSUME Found(j, s) PROVE Found(j, "RUN")'
    <3>1. j \in lost \/ Executes(t, j) \/ EndSaid(t, j)
      BY <1>1, <1>2, <2>1, <2>3 DEF Found, Concerns
    <3>2. j \in lost' \/ Executes(t, j)' \/ EndSaid(t, j)'
      BY <1>5, <3>1 DEF ReportMove
    <3> QED
      BY <3>2 DEF Found
  <2> QED
    BY <2>1, <2>2, <2>3
<1>6. ASSUME r.state \in Final,
             \A k \in JobIds : /\ ~StartSaid(t, k) /\ ~EndSaid(t, k)'
                               /\ EndSaid(t, k) <=> k = r.id
                               /\ ErrorSaid(t, k) <=> k = r.id /\ r.state = "ERROR"
      PROVE  /\ Fits(j, r.state)' /\ Found(j, r.state)'
             /\ s = "RUN" \/ (s = "WAIT" /\ r.state = "ERROR")
  <2>1. EndSaid(t, j) /\ ~StartSaid(t, j) /\ ~EndSaid(t, j)'
    BY <1>a, <1>6
  <2>2. ~Executes(t, j)'
    BY <2>1 DEF ReportMove
  <2>3. j \notin lost'
    BY <2>1 DEF Course, LostAreGone, LostFor, ReportMove
  <2>4. PICK x \in Final : x = r.state
    BY <1>6
  <2>5. Fits(j, x)' /\ Found(j, x)'
    BY <1>3, <1>4, <2>1, <2>2, <2>3 DEF Fits, Found
  <2>6. s = "RUN" \/ (s = "WAIT" /\ r.state = "ERROR")
    BY <1>a, <1>6, <2>1 DEF Fits
  <2> QED
    BY <2>4, <2>5, <2>6
<1> QED
  BY <1>a, <1>5, <1>6 DEF ReportMove

\* What a report says fits.
LEMMA ReportKeeps ==
  ASSUME Types, Filled, Custody, Course, NEW t \in Execs, NEW r \in Reports, ReportMove(t, r)
  PROVE  Course'
<1>0. /\ history_putidx \in Nat /\ history_putidx' = history_putidx
      /\ lost' = lost /\ stopped' = stopped
  BY DEF Types, MainTypes, HistoryTypes, ReportMove
<1>1. Onward
  <2>1. \A j \in JobIds : EndSaid(t, j)' => EndSaid(t, j)
    BY DEF ReportMove
  <2> QED
    BY <1>0, <2>1 DEF Onward, ReportMove, Same
<1>2. OneReporter' /\ LostAreGone'
  BY <1>0, <1>1, OnwardKeeps DEF LostAreGone, Course
<1>3. ASSUME NEW j \in JobIds, NEW s \in States, j # r.id, Fits(j, s)
      PROVE  Fits(j, s)' /\ (Found(j, s) => Found(j, s)')
  <2>1. /\ StartSaid(t, j)' <=> StartSaid(t, j)
        /\ EndSaid(t, j)' <=> EndSaid(t, j)
        /\ EndSaid(t, j) => (ErrorSaid(t, j)' <=> ErrorSaid(t, j))
    BY <1>3 DEF ReportMove
  <2>2. ASSUME NEW e \in Execs
        PROVE  /\ Carries(e, j)' <=> Carries(e, j)
               /\ Executes(e, j)' <=> Executes(e, j)
               /\ StartSaid(e, j)' <=> StartSaid(e, j)
               /\ EndSaid(e, j)' <=> EndSaid(e, j)
               /\ EndSaid(e, j) => (ErrorSaid(e, j)' <=> ErrorSaid(e, j))
    BY <2>1 DEF ReportMove, Same
  <2>3. Has(j)' <=> Has(j)
    BY DEF ReportMove
  <2>4. Fits(j, s)'
    BY <1>0, <1>3, <2>2, <2>3 DEF Fits
  <2>5. Found(j, s) => Found(j, s)'
    BY <1>0, <2>2, <2>3 DEF Found
  <2> QED
    BY <2>4, <2>5
<1>4. ASSUME NEW i \in HistIdx PROVE Recorded(i)'
  <2>0. job_array' = SetState(job_array, r.id, r.state, r.exit)
    BY DEF ReportMove
  <2> SUFFICES ASSUME job_array[i] # NoEntry PROVE Recorded(i)'
    BY <2>0, ReportEntry DEF Recorded
  <2>1. PICK j \in JobIds, s \in States : j = job_array[i].id /\ s = job_array[i].state
    BY EntryParts
  <2>2. /\ j < history_putidx /\ j % JOB_HISTORY_MAX = i
        /\ Fits(j, s) /\ (~stopped => Found(j, s))
    BY <2>1 DEF Course, Recorded
  <2>3. CASE j = r.id
    <3>1. job_array'[i].id = r.id /\ job_array'[i].state = r.state
      BY <2>0, <2>1, <2>3, ReportEntry
    <3>2. PICK x : x = r.state
      OBVIOUS
    <3>3. Fits(j, x)' /\ (~stopped' => Found(j, x)')
      BY <1>0, <2>2, <2>3, <3>2, ReportFits
    <3> QED
      BY <1>0, <2>2, <2>3, <3>1, <3>2, <3>3 DEF Recorded
  <2>4. CASE j # r.id
    <3>1. job_array'[i] = job_array[i]
      BY <2>0, <2>1, <2>4, ReportEntry
    <3>2. Fits(j, s)' /\ (~stopped' => Found(j, s)')
      BY <1>0, <1>3, <2>2, <2>4
    <3> QED
      BY <1>0, <2>1, <2>2, <3>1, <3>2 DEF Recorded
  <2> QED
    BY <2>3, <2>4
<1> QED
  BY <1>2, <1>4 DEF Course

-----------------------------------------------------------------------------
(***************************************************************************)
(* Every step of the system is one of these.                               *)
(***************************************************************************)
\* The same reports, the same jobs.
LEMMA SameView ==
  ASSUME NEW e \in Execs, SameReports(toMain[e], toMain'[e]),
         toPeer'[e] = toPeer[e] \/ (NoJobIn(toPeer[e]) /\ NoJobIn(toPeer'[e])),
         \A j \in JobIds : Executes(e, j)' <=> Executes(e, j)
  PROVE  Same(e)
<1> SUFFICES ASSUME NEW j \in JobIds
             PROVE  /\ Carries(e, j)' <=> Carries(e, j)
                    /\ StartSaid(e, j)' <=> StartSaid(e, j)
                    /\ EndSaid(e, j)' <=> EndSaid(e, j)
                    /\ ErrorSaid(e, j)' <=> ErrorSaid(e, j)
  BY DEF Same
<1>1. Carries(e, j)' <=> Carries(e, j)
  BY DEF Carries, NoJobIn
<1>2. /\ StartSaid(e, j)' <=> StartSaid(e, j)
      /\ EndSaid(e, j)' <=> EndSaid(e, j)
      /\ ErrorSaid(e, j)' <=> ErrorSaid(e, j)
  BY DEF SameReports, StartSaid, EndSaid, ErrorSaid
<1> QED
  BY <1>1, <1>2

\* A connection on which nothing happens.
LEMMA SameLink ==
  ASSUME NEW e \in Execs, toMain'[e] = toMain[e], toPeer'[e] = toPeer[e],
         es'[e] = es[e], cur'[e] = cur[e]
  PROVE  Same(e)
<1>1. SameReports(toMain[e], toMain'[e])
  BY DEF SameReports
<1>2. \A j \in JobIds : Executes(e, j)' <=> Executes(e, j)
  BY DEF Executes
<1> QED
  BY <1>1, <1>2, SameView

\* What a thread does with the history and the jobs when it neither adds nor
\* sends one and reads no report.
Drops(t) ==
  /\ UNCHANGED histVars
  /\ \/ live' = live
     \/ /\ at[t] = "relink" /\ live' = live \ {held[t]}
        /\ ~Knows(job_array, held[t].id)

\* Without unsubmissions a thread drops only jobs that the history has forgotten.
LEMMA ThreadDrops ==
  ASSUME NoUnsubmit, NEW t \in Peers, ThreadStep(t)
  PROVE  \/ t \in Clients /\ NewJob(t)
         \/ t \in Execs /\ ChangeStateJob(t)
         \/ t \in Execs /\ SendJob(t) /\ live' # live
         \/ Drops(t)
<1>1. ASSUME Accept(t) \/ Leave(t) \/ QueueState(t) \/ Misuse(t) PROVE Drops(t)
  BY <1>1 DEF Accept, Leave, QueueState, Misuse, Drops, mainVars
<1>2. ASSUME t \in Clients, ClientThread(t) PROVE NewJob(t) \/ Drops(t)
  <2>1. at[t] \notin {"remove", "mark"} /\ ~Unsubmit(t)
    BY <1>2 DEF NoUnsubmit, Unsubmit, Recv, Arrived
  <2> QED
    BY <1>2, <2>1
       DEF ClientThread, FinishSubmit, PutJob, JobState, RemoveJob, MarkJob, Drops, mainVars
<1>3. ASSUME SendCheck(t) \/ RecvAck(t) \/ NoAck(t) PROVE Drops(t)
  BY <1>3 DEF SendCheck, RecvAck, NoAck, Drops
<1>4. ASSUME SendJob(t), live' = live PROVE Drops(t)
  BY <1>4 DEF SendJob, Drops
<1>5. ASSUME JobReq(t) \/ TakeJob(t) \/ FinishBack(t) PROVE Drops(t)
  BY <1>5 DEF JobReq, TakeJob, FinishBack, PutJob, Drops
<1>6. ASSUME Relink(t) PROVE Drops(t)
  BY <1>6 DEF Relink, Drops
<1> QED
  BY <1>1, <1>2, <1>3, <1>4, <1>5, <1>6 DEF ThreadStep, ExchangeStep, ExecThread

\* Nor does a job get lost but in sendJob.
LEMMA ThreadLost ==
  ASSUME NEW t \in Peers, ThreadStep(t), t \in Execs => ~SendJob(t)
  PROVE  lost' = lost
<1>1. ASSUME Accept(t) \/ Leave(t) \/ QueueState(t) \/ Misuse(t) PROVE lost' = lost
  BY <1>1 DEF Accept, Leave, QueueState, Misuse, CloseSocket, netVars, linkVars
<1>2. ASSUME ClientThread(t) PROVE lost' = lost
  BY <1>2 DEF ClientThread, NewJob, FinishSubmit, PutJob, JobState, Unsubmit, RemoveJob,
     MarkJob, netVars, linkVars
<1>3. ASSUME SendCheck(t) \/ RecvAck(t) \/ NoAck(t) PROVE lost' = lost
  BY <1>3 DEF SendCheck, RecvAck, NoAck, netVars, linkVars
<1>4. ASSUME ExecThread(t) PROVE lost' = lost
  BY <1>4 DEF ExecThread, JobReq, TakeJob, FinishBack, PutJob, Relink, CloseSocket,
     ChangeStateJob, netVars, linkVars
<1> QED
  BY <1>1, <1>2, <1>3, <1>4 DEF ThreadStep, ExchangeStep

\* newJob gives the job an id that none had.
LEMMA NewJobMoves ==
  ASSUME Types, Links, HistoryLink, MaxSubmits <= ID_MOD,
         NEW t \in Clients, ThreadStep(t), NewJob(t), submits' = submits,
         \A e \in Execs : Same(e), lost' = lost, stopped' = stopped
  PROVE  NewMove
<1>1. t \in Peers
  BY DEF Peers
<1>2. NewId = history_putidx /\ NewId \in JobIds
  <2>1. history_putidx \in Nat /\ history_putidx < MaxSubmits /\ MaxSubmits \in Nat
    BY <1>1, CountRead, ThreadPending, PeerAssumption
       DEF HistoryLink, Types, MainTypes, HistoryTypes
  <2>2. history_putidx \in 0 .. ID_MOD - 1
    BY <2>1, HistoryAssumption
  <2> QED
    BY <2>2, HistoryAssumption, ModSmall DEF NewId, JobIds
<1>3. PICK job : job.id = NewId /\ live' = live \cup {job}
  BY DEF NewJob
<1>4. job_array' = AddEntry(job_array, history_putidx) /\ history_putidx' = history_putidx + 1
  BY <1>2 DEF NewJob
<1>5. \A k \in JobIds : Has(k)' <=> Has(k) \/ k = history_putidx
  BY <1>2, <1>3 DEF Has
<1> QED
  BY <1>2, <1>4, <1>5 DEF NewMove

\* sendJob gives the connection a job that nobody else has.
LEMMA SendJobMoves ==
  ASSUME Types, Links, Custody, Reporting, NEW t \in Execs, ThreadStep(t),
         SendJob(t), live' # live, UNCHANGED <<es, cur, stopped>>,
         \A e \in Execs : e # t => Same(e)
  PROVE  \E j \in JobIds : SendMove(t, j)
<1>1. Sends(t) /\ toPeer[t] = <<>>
  BY SendJobSends
<1>2. toMain' = toMain /\ UNCHANGED histVars
  BY DEF SendJob
<1>3. PICK j \in JobIds : j = held[t].id
  BY <1>1 DEF Sends, Types, MainTypes, HeapTypes, Jobs
<1>4. held[t] \in live /\ live' = live \ {held[t]}
  BY <1>1 DEF Sends
<1>5. \A job \in live : job.id = j => job = held[t]
  BY <1>3, <1>4 DEF Custody, HeldOnce
<1>6. Has(j) /\ \A k \in JobIds : Has(k)' <=> Has(k) /\ k # j
  BY <1>3, <1>4, <1>5 DEF Has
<1>7. \A k \in JobIds : /\ ~Carries(t, k)
                        /\ Executes(t, k)' <=> Executes(t, k)
                        /\ StartSaid(t, k)' <=> StartSaid(t, k)
                        /\ EndSaid(t, k)' <=> EndSaid(t, k)
                        /\ ErrorSaid(t, k)' <=> ErrorSaid(t, k)
  BY <1>1, <1>2 DEF Carries, Executes, StartSaid, EndSaid, ErrorSaid
<1>8. \/ lost' = lost /\ \A k \in JobIds : Carries(t, k)' <=> k = j
      \/ lost' = lost \cup {j} /\ \A k \in JobIds : ~Carries(t, k)'
  BY <1>1, <1>3 DEF Sends, Carries
<1>9. Alone(t)
  BY <1>2 DEF Alone, histVars
<1> QED
  BY <1>6, <1>7, <1>8, <1>9 DEF SendMove

\* changeStateJob reads the first of the reports.
LEMMA ChangeStateMoves ==
  ASSUME Types, Links, Reporting, NEW t \in Execs, ChangeStateJob(t),
         UNCHANGED <<es, cur, stopped, lost>>, \A e \in Execs : e # t => Same(e)
  PROVE  \E r \in Reports : ReportMove(t, r)
<1> DEFINE m == toMain[t]
<1>0. /\ t \in Peers /\ m \in Seq(ExecMessages)
      /\ toMain \in [Peers -> Seq(ClientRequests \cup ExecMessages)]
  BY DEF Types, NetTypes, ToMainType, Peers
<1>1. /\ m # <<>> /\ Head(m).type \in ReportTypes /\ toMain'[t] = Tail(m) /\ toPeer' = toPeer
      /\ history_putidx' = history_putidx /\ live' = live
      /\ job_array' = SetState(job_array, Head(m).id, Head(m).state, Head(m).exit)
  BY <1>0 DEF ChangeStateJob, Recv, Arrived, Received, ReportTypes
<1>2. PICK r \in Reports : r = Head(m)
  <2>1. Head(m) \in ExecMessages
    BY <1>0, <1>1, MessageQueue
  <2> QED
    BY <1>1, <2>1 DEF ExecMessages, ReportTypes
<1>3. Talk(at[t], es[t], m, toPeer[t])
  BY DEF Reporting
<1>4. \A k \in JobIds : /\ Has(k)' <=> Has(k)
                        /\ Carries(t, k)' <=> Carries(t, k)
                        /\ Executes(t, k)' <=> Executes(t, k)
                        /\ Executes(t, k) => ~EndSaid(t, k)
  BY <1>1, <1>3 DEF Has, Carries, Executes, EndSaid, EndIn, NoEnd, Talk
<1>5. \A k : /\ ~RunIn(Tail(m), k)
             /\ EndIn(Tail(m), k) <=> EndIn(m, k) /\ ~IsEnd(r)
             /\ ErrorIn(Tail(m), k) <=> ErrorIn(m, k) /\ ~IsEnd(r)
             /\ IsEnd(r) => /\ ~RunIn(m, k)
                            /\ EndIn(m, k) <=> r.id = k
                            /\ ErrorIn(m, k) <=> r.id = k /\ r.state = "ERROR"
  BY <1>0, <1>1, <1>2, <1>3, OneLess DEF Talk
<1>6. \A k : r.type = "JOB_RUN" => (RunIn(m, k) <=> k = r.id)
  BY <1>1, <1>2 DEF RunIn
<1>7. \/ r.type = "JOB_RUN" /\ r.state = "RUN" /\ ~IsEnd(r)
      \/ IsEnd(r) /\ r.state \in Final
  BY DEF Reports, IsEnd, ES!EndTypes
<1>8. \A k \in JobIds : ~StartSaid(t, k)'
  BY <1>1, <1>5 DEF StartSaid
<1>9. \/ /\ r.type = "JOB_RUN" /\ r.state = "RUN"
         /\ \A k \in JobIds : /\ StartSaid(t, k) <=> k = r.id
                              /\ EndSaid(t, k)' <=> EndSaid(t, k)
                              /\ ErrorSaid(t, k)' <=> ErrorSaid(t, k)
      \/ /\ IsEnd(r) /\ r.state \in Final
         /\ \A k \in JobIds : /\ ~StartSaid(t, k) /\ ~EndSaid(t, k)'
                              /\ EndSaid(t, k) <=> k = r.id
                              /\ ErrorSaid(t, k) <=> k = r.id /\ r.state = "ERROR"
  BY <1>1, <1>5, <1>6, <1>7 DEF StartSaid, EndSaid, ErrorSaid
<1> QED
  BY <1>1, <1>2, <1>4, <1>8, <1>9 DEF ReportMove

\* A step of a thread is one of these, or is not about any job.
LEMMA ThreadMoves ==
  ASSUME Types, Links, HistoryLink, Custody, Reporting, NoUnsubmit, Course,
         MaxSubmits <= ID_MOD,
         NEW t \in Peers, ThreadStep(t), UNCHANGED <<execVars, submits>>
  PROVE  \/ RestMove \/ NewMove
         \/ t \in Execs /\ \E j \in JobIds : SendMove(t, j)
         \/ t \in Execs /\ \E r \in Reports : ReportMove(t, r)
<1>0. UNCHANGED <<es, cur, stopped>>
  BY DEF execVars, ThreadStep
<1>1. \A e \in Execs : e # t => Same(e)
  BY <1>0, ThreadFrame, SameLink DEF Peers
<1>2. t \in Clients => t \notin Execs
  BY PeerAssumption
<1>3. ASSUME t \in Clients, NewJob(t) PROVE NewMove
  BY <1>0, <1>1, <1>2, <1>3, ThreadLost, NewJobMoves
<1>4. ASSUME t \in Execs, ChangeStateJob(t) PROVE \E r \in Reports : ReportMove(t, r)
  <2>1. lost' = lost
    BY <1>4 DEF ChangeStateJob, linkVars
  <2> QED
    BY <1>0, <1>1, <1>4, <2>1, ChangeStateMoves
<1>5. ASSUME t \in Execs, SendJob(t), live' # live PROVE \E j \in JobIds : SendMove(t, j)
  BY <1>0, <1>1, <1>5, SendJobMoves
<1>6. ASSUME Drops(t), t \in Execs => ~ChangeStateJob(t) PROVE RestMove
  <2>1. lost' = lost /\ \A e \in Execs : Same(e)
    <3>1. CASE t \notin Execs
      BY <1>1, <3>1, ThreadLost
    <3>2. CASE t \in Execs
      <4>1. ~Sends(t)
        BY <1>6 DEF Sends, Drops
      <4>2. /\ SameReports(toMain[t], toMain'[t]) /\ lost' = lost
            /\ toPeer'[t] = toPeer[t] \/ (NoJobIn(toPeer[t]) /\ NoJobIn(toPeer'[t]))
        BY <1>6, <3>2, <4>1, ThreadTalk
      <4>3. \A j \in JobIds : Executes(t, j)' <=> Executes(t, j)
        BY <1>0 DEF Executes
      <4> QED
        BY <1>1, <3>2, <4>2, <4>3, SameView
    <3> QED
      BY <3>1, <3>2
  <2>2. \A k \in JobIds : Has(k)' => Has(k)
    BY <1>6 DEF Has, Drops
  <2>3. ASSUME NEW i \in HistIdx, job_array[i] # NoEntry, Has(job_array[i].id)
        PROVE  \E job \in live' : job.id = job_array[i].id
    <3>1. Knows(job_array, job_array[i].id)
      BY <2>3, EntryFound DEF HistoryLink
    <3> QED
      BY <1>6, <2>3, <3>1 DEF Has, Drops
  <2>4. job_array' = job_array /\ history_putidx' = history_putidx
    BY <1>6 DEF Drops, histVars
  <2>5. \A i \in HistIdx : job_array[i] # NoEntry /\ Has(job_array[i].id)
                             => Has(job_array[i].id)'
    BY <2>3, <2>4 DEF Has
  <2> QED
    BY <1>0, <2>1, <2>2, <2>4, <2>5 DEF RestMove
<1> QED
  BY <1>3, <1>4, <1>5, <1>6, ThreadDrops

\* The jobs that are sent are those on the connection.
LEMMA SentJobs ==
  ASSUME Types, Links, NEW e \in Execs, NEW j
  PROVE  j \in ES!JobsIn(toPeer[e], ES!JobTypes) <=> Carries(e, j)
<1> DEFINE p == toPeer[e]
<1>1. p \in Seq(JobMessages) /\ Len(p) <= 1
  BY DEF Types, NetTypes, ToPeerType, Links, ExecLink, ExecProtocol
<1>2. CASE p = <<>>
  BY <1>2 DEF ES!JobsIn, Carries
<1>3. CASE p # <<>>
  <2>1. DOMAIN p = {1} /\ p[1] = Head(p)
    BY <1>1, <1>3
  <2> QED
    BY <1>3, <2>1 DEF ES!JobsIn, Carries
<1> QED
  BY <1>2, <1>3

\* An execution server has no job but its own.
LEMMA ExecJobs ==
  ASSUME Types, NEW e \in Execs,
         \/ ES!ExecStep(e) \/ ES!Start(e) \/ ES!JobRequest(e)
         \/ ES!CloseConnecMain(e) \/ ES!Crash(e),
         NEW f \in Execs, f # e
  PROVE  cur'[f] = cur[f]
<1>0. cur \in [Execs -> Jobs]
  BY DEF Types, ExecTypes
<1>1. ASSUME ES!Start(e) \/ ES!JobRequest(e) \/ ES!CloseConnecMain(e) \/ ES!Crash(e)
      PROVE  cur'[f] = cur[f]
  BY <1>0, <1>1 DEF ES!Start, ES!JobRequest, ES!CloseConnecMain, ES!Crash
<1>2. ASSUME ES!ExecStep(e) PROVE cur'[f] = cur[f]
  BY <1>0, <1>2 DEF ES!ExecStep, ES!RecvCheck, ES!SendAck, ES!RecvJob, ES!Dial, ES!ReportJob,
     ES!LoseMain
<1> QED
  BY <1>1, <1>2

\* An execution server takes up a job or cannot.
LEMMA ReceiveMoves ==
  ASSUME NEW e \in Execs, NEW j \in JobIds, Receives(e, j), Alone(e),
         \A k \in JobIds : Has(k)' <=> Has(k)
  PROVE  RecvMove(e, j)
<1>1. \A k \in JobIds : /\ ~Carries(e, k)' /\ (Carries(e, k) => k = j)
                        /\ ~Executes(e, k) /\ ~StartSaid(e, k) /\ ~EndSaid(e, k)
  BY NoMessages DEF Receives, Carries, Executes, StartSaid, EndSaid
<1>2. ASSUME es'[e] \in {"dial", "run"}, cur'[e].id = j, toMain'[e] = <<SetJobRun(j)>>
      PROVE  \A k \in JobIds : /\ Executes(e, k)' <=> k = j
                               /\ StartSaid(e, k)' <=> k = j
                               /\ ~EndSaid(e, k)'
  <2> DEFINE r == SetJobRun(j)
  <2>1. r \in ExecMessages /\ r.type = "JOB_RUN" /\ r.id = j /\ ~IsEnd(r)
    <3>1. 0 \in Statuses
      BY DEF Statuses
    <3> QED
      BY <3>1 DEF SetJobRun, ExecMessages, Reports, IsEnd, ES!EndTypes
  <2> HIDE DEF r
  <2>2. toMain'[e] = Append(<<>>, r)
    BY <1>2 DEF r
  <2>3. \A k : (RunIn(toMain'[e], k) <=> k = j) /\ ~EndIn(toMain'[e], k)
    BY <2>1, <2>2, FirstMessage
  <2> QED
    BY <1>2, <2>3 DEF Executes, StartSaid, EndSaid
<1>3. ASSUME es'[e] = "prompt", toMain'[e] = <<SetJobDone(j, ForkFailed)>>
      PROVE  \A k \in JobIds : /\ ~Executes(e, k)' /\ ~StartSaid(e, k)'
                               /\ EndSaid(e, k)' <=> k = j
                               /\ ErrorSaid(e, k)' <=> k = j
  <2> DEFINE r == SetJobDone(j, ForkFailed)
  <2>1. /\ r \in ExecMessages /\ r.type = "JOB_DONE" /\ r.id = j /\ IsEnd(r)
        /\ r.state = "ERROR"
    <3>1. ForkFailed \in Statuses
      BY DEF Statuses
    <3> QED
      BY <3>1 DEF SetJobDone, ExecMessages, Reports, IsEnd, ES!EndTypes, Final
  <2> HIDE DEF r
  <2>2. toMain'[e] = Append(<<>>, r)
    BY <1>3 DEF r
  <2>3. \A k : /\ ~RunIn(toMain'[e], k)
               /\ EndIn(toMain'[e], k) <=> k = j
               /\ ErrorIn(toMain'[e], k) <=> k = j
    BY <2>1, <2>2, FirstMessage
  <2> QED
    BY <1>3, <2>3 DEF Executes, StartSaid, EndSaid, ErrorSaid
<1> QED
  BY <1>1, <1>2, <1>3 DEF Receives, RecvMove

\* It reports the end of its job.
LEMMA FinishMoves ==
  ASSUME Types, Reporting, NEW e \in Execs, Finishes(e), Alone(e),
         \A k \in JobIds : Has(k)' <=> Has(k)
  PROVE  \E j \in JobIds : FinishMove(e, j)
<1> DEFINE m == toMain[e]
<1>0. m \in Seq(ExecMessages) /\ cur[e] \in Jobs
  BY DEF Types, NetTypes, ToMainType, ExecTypes
<1>1. PICK j \in JobIds : j = cur[e].id
  BY <1>0 DEF Jobs
<1>2. PICK r \in Reports : IsEnd(r) /\ r.id = j /\ toMain'[e] = Append(m, r)
  BY <1>1 DEF Finishes
<1>3. NoEnd(m) /\ r \in ExecMessages /\ r.type # "JOB_RUN"
  BY <1>2 DEF Finishes, Reporting, Talk, ExecMessages, IsEnd, ES!EndTypes
<1>4. \A k : /\ ~EndIn(m, k)
             /\ EndIn(toMain'[e], k) <=> k = j
             /\ RunIn(toMain'[e], k) <=> RunIn(m, k)
  <2>1. \A k : ~EndIn(m, k)
    BY <1>3 DEF EndIn, NoEnd
  <2>2. \A k : ~RunIn(<<>>, k)
    BY NoMessages
  <2>3. \A k : /\ RunIn(Append(m, r), k) <=> IF m = <<>> THEN r.type = "JOB_RUN" /\ r.id = k
                                             ELSE RunIn(m, k)
               /\ EndIn(Append(m, r), k) <=> EndIn(m, k) \/ (IsEnd(r) /\ r.id = k)
    BY <1>0, <1>3, OneMore
  <2> QED
    BY <1>2, <1>3, <2>1, <2>2, <2>3
<1>5. \A k \in JobIds : /\ Carries(e, k)' <=> Carries(e, k)
                        /\ Executes(e, k) <=> k = j
                        /\ ~Executes(e, k)' /\ ~EndSaid(e, k)
                        /\ StartSaid(e, k)' <=> StartSaid(e, k)
                        /\ EndSaid(e, k)' <=> k = j
  BY <1>1, <1>4 DEF Finishes, Carries, Executes, StartSaid, EndSaid
<1>6. lost' = lost
  BY DEF Finishes
<1> QED
  BY <1>5, <1>6 DEF FinishMove

\* It fails, and what it had is lost.
LEMMA FailMoves ==
  ASSUME Types, Types', Links, Reporting, NEW e \in Execs, Fails(e), Alone(e),
         \A k \in JobIds : Has(k)' <=> Has(k)
  PROVE  FailMove(e)
<1> DEFINE m == toMain[e]
<1>0. m \in Seq(ExecMessages) /\ lost' \subseteq JobIds
  BY DEF Types, NetTypes, LinkTypes, ToMainType
<1>1. PICK n \in 0 .. Len(m) :
        /\ toMain'[e] = SubSeq(m, 1, n)
        /\ lost' = lost \cup ES!JobsIn(toPeer[e], ES!JobTypes)
                   \cup ES!JobsIn(SubSeq(m, n + 1, Len(m)), ES!EndTypes)
                   \cup {j \in {cur[e].id} : es[e] \in {"dial", "run"}}
  BY DEF Fails
<1> DEFINE kept == SubSeq(m, 1, n)
           rest == SubSeq(m, n + 1, Len(m))
<1>2. rest \in Seq(ExecMessages)
  BY <1>0
<1>3. InTurn(m) /\ (es[e] \in {"dial", "run"} => NoEnd(m))
  BY DEF Reporting, Talk
<1>4. \A k : /\ RunIn(kept, k) => RunIn(m, k)
             /\ EndIn(m, k) <=> EndIn(kept, k) \/ EndIn(rest, k)
             /\ ~(EndIn(kept, k) /\ EndIn(rest, k))
             /\ EndIn(kept, k) => (RunIn(m, k) => RunIn(kept, k))
             /\ ErrorIn(kept, k) <=> EndIn(kept, k) /\ ErrorIn(m, k)
  BY <1>0, <1>3, CutOff
<1> HIDE DEF kept, rest
<1>5. ASSUME NEW k \in JobIds
      PROVE  k \in lost' <=> \/ k \in lost \/ Carries(e, k) \/ Executes(e, k)
                             \/ EndSaid(e, k) /\ ~EndSaid(e, k)'
  <2>1. k \in ES!JobsIn(rest, ES!EndTypes) <=> EndIn(rest, k)
    BY <1>2, EndedJobs
  <2>2. k \in ES!JobsIn(toPeer[e], ES!JobTypes) <=> Carries(e, k)
    BY SentJobs
  <2>3. k \in {j \in {cur[e].id} : es[e] \in {"dial", "run"}} <=> Executes(e, k)
    BY DEF Executes
  <2>4. EndIn(rest, k) <=> EndSaid(e, k) /\ ~EndSaid(e, k)'
    BY <1>1, <1>4 DEF EndSaid, kept
  <2> QED
    BY <1>1, <2>1, <2>2, <2>3, <2>4 DEF rest
<1>6. ASSUME NEW k \in JobIds
      PROVE  /\ ~Carries(e, k)' /\ ~Executes(e, k)'
             /\ Executes(e, k) => ~EndSaid(e, k)
             /\ StartSaid(e, k)' => StartSaid(e, k)
             /\ EndSaid(e, k)' => /\ EndSaid(e, k)
                                  /\ StartSaid(e, k) => StartSaid(e, k)'
                                  /\ ErrorSaid(e, k) => ErrorSaid(e, k)'
  <2>1. ~Carries(e, k)' /\ ~Executes(e, k)'
    BY DEF Fails, Carries, Executes
  <2>2. Executes(e, k) => ~EndSaid(e, k)
    BY <1>3 DEF Executes, EndSaid, EndIn, NoEnd
  <2>3. /\ StartSaid(e, k)' => StartSaid(e, k)
        /\ EndSaid(e, k)' => /\ EndSaid(e, k)
                             /\ StartSaid(e, k) => StartSaid(e, k)'
                             /\ ErrorSaid(e, k) => ErrorSaid(e, k)'
    BY <1>1, <1>4 DEF StartSaid, EndSaid, ErrorSaid, kept
  <2> QED
    BY <2>1, <2>2, <2>3
<1> QED
  BY <1>0, <1>5, <1>6 DEF FailMove

\* A step of an execution server is one of these, or is not about any job.
LEMMA ExecServerMoves ==
  ASSUME Types, Types', Links, Reporting, NEW e \in Execs, UNCHANGED mainVars,
         \/ ES!ExecStep(e) \/ ES!Start(e) \/ ES!JobRequest(e)
         \/ ES!CloseConnecMain(e) \/ ES!Crash(e)
  PROVE  \/ RestMove \/ FailMove(e)
         \/ \E j \in JobIds : RecvMove(e, j) \/ FinishMove(e, j)
<1>1. /\ at' = at /\ live' = live
      /\ UNCHANGED <<job_array, history_putidx, stopped>>
  BY DEF mainVars, histVars
<1>2. \A k : Has(k)' <=> Has(k)
  BY <1>1 DEF Has
<1>3. \A f \in Execs : f # e => Same(f)
  BY ExecFrame, ExecJobs, SameLink DEF Peers
<1>4. Alone(e)
  BY <1>1, <1>3 DEF Alone
<1>5. CASE \E j \in JobIds : Receives(e, j)
  BY <1>2, <1>4, <1>5, ReceiveMoves
<1>6. CASE Finishes(e)
  BY <1>2, <1>4, <1>6, FinishMoves
<1>7. CASE Fails(e)
  BY <1>2, <1>4, <1>7, FailMoves
<1>8. CASE Unrelated(e)
  <2>1. \A j \in JobIds : Executes(e, j)' <=> Executes(e, j)
    BY <1>8 DEF Unrelated, Executes
  <2>2. Same(e) /\ lost' = lost
    BY <1>8, <2>1, SameView DEF Unrelated
  <2>3. \A i \in HistIdx : Has(job_array[i].id) => Has(job_array[i].id)'
    BY <1>1 DEF Has
  <2> QED
    BY <1>1, <1>2, <1>3, <2>2, <2>3 DEF RestMove
<1> QED
  BY <1>1, <1>5, <1>6, <1>7, <1>8, ExecTalk

\* Nothing about a job is said by a step that touches no execution server.
LEMMA OtherMoves ==
  ASSUME UNCHANGED <<es, cur, lost, job_array, history_putidx>>, live' \subseteq live,
         \A e \in Execs : toMain'[e] = toMain[e] /\ toPeer'[e] = toPeer[e],
         stopped' \/ (stopped' = stopped /\ live' = live)
  PROVE  RestMove
<1>1. \A e \in Execs : Same(e)
  BY SameLink
<1>2. \A k \in JobIds : Has(k)' => Has(k)
  BY DEF Has
<1>3. live' = live => \A i \in HistIdx : Has(job_array[i].id) => Has(job_array[i].id)'
  BY DEF Has
<1> QED
  BY <1>1, <1>2, <1>3 DEF RestMove

\* What is known of the system when nobody unsubmits anything.
Known == Types /\ Links /\ HistoryLink /\ Custody /\ Reporting /\ NoUnsubmit

\* A step about a job, by the thread of execution server t or by t itself.
JobMove(t) ==
  \/ FailMove(t)
  \/ \E j \in JobIds : SendMove(t, j) \/ RecvMove(t, j) \/ FinishMove(t, j)

\* Every step of the system is about one job or about none.
LEMMA SystemMoves ==
  ASSUME MaxSubmits <= ID_MOD, Known, Types', Course, [Next]_vars
  PROVE  \/ RestMove \/ NewMove
         \/ \E t \in Execs : JobMove(t) \/ \E r \in Reports : ReportMove(t, r)
<1> DEFINE G == \/ RestMove \/ NewMove
                \/ \E t \in Execs : JobMove(t) \/ \E r \in Reports : ReportMove(t, r)
<1>0. Types /\ Links /\ HistoryLink /\ Custody /\ Reporting /\ NoUnsubmit
  BY DEF Known
<1>1. CASE MainStep
  <2>1. UNCHANGED <<execVars, submits>> /\ es' = es /\ cur' = cur
    BY <1>1 DEF MainStep, clientVars, execVars
  <2>2. ASSUME NEW t \in Peers, ThreadStep(t) PROVE G
    BY <1>0, <2>1, <2>2, ThreadMoves DEF JobMove
  <2>3. ASSUME NEW t \in Peers, Wakeup(t), UNCHANGED stopped PROVE G
    BY <2>1, <2>3, OtherMoves DEF Wakeup, netVars, linkVars, histVars
  <2>4. ASSUME Stop PROVE G
    BY <2>1, <2>4, OtherMoves DEF Stop, netVars, linkVars, histVars
  <2> QED
    BY <1>1, <2>2, <2>3, <2>4 DEF MainStep, MainNext
<1>2. CASE ExecStep
  <2>1. UNCHANGED mainVars
    BY <1>2 DEF ExecStep
  <2>2. PICK e \in Execs : \/ ES!ExecStep(e) \/ ES!Start(e) \/ ES!JobRequest(e)
                           \/ ES!CloseConnecMain(e) \/ ES!Crash(e)
    BY <1>2 DEF ExecStep, ES!ExecNext
  <2> QED
    BY <1>0, <2>1, <2>2, ExecServerMoves DEF JobMove
<1>3. CASE ClientStep
  <2>1. UNCHANGED <<es, cur, job_array, history_putidx, live, stopped>>
    BY <1>3 DEF ClientStep, mainVars, histVars, execVars
  <2>2. PICK c \in Clients : ClientActs(c)
    BY <1>3 DEF ClientStep, CL!ClientNext, ClientActs
  <2>3. lost' = lost
    BY <2>2 DEF ClientActs, CL!Start, CL!Connect, CL!Submit, CL!SubmitInt, CL!SubmitFails,
       CL!JobState, CL!QueueState, CL!Unsubmit, CL!Request, CL!Stop, CL!Kill, CL!Disconnect,
       CL!ClientStep, CL!Response, CL!NoResponse, CL!ClientAccept, CL!EndSession,
       CL!netVars, CL!linkVars
  <2>4. ASSUME NEW e \in Execs PROVE toMain'[e] = toMain[e] /\ toPeer'[e] = toPeer[e]
    <3>1. e \in Peers /\ e # c
      BY PeerAssumption DEF Peers
    <3> QED
      BY <1>0, <2>2, <3>1, ClientFrame
  <2> QED
    BY <2>1, <2>3, <2>4, OtherMoves
<1>4. CASE UNCHANGED vars
  BY <1>4, OtherMoves DEF vars, netVars, linkVars, mainVars, histVars, execVars
<1> QED
  BY <1>1, <1>2, <1>3, <1>4 DEF Next

\* Every step keeps the entries and the jobs in keeping.
LEMMA CourseStep ==
  ASSUME MaxSubmits <= ID_MOD
  PROVE  Known /\ Types' /\ Course /\ [Next]_vars => Course'
<1> SUFFICES ASSUME Known, Types', Course, [Next]_vars PROVE Course'
  OBVIOUS
<1>0. Types /\ Filled /\ Custody /\ OneReporter /\ LostAreGone
  BY DEF Known, HistoryLink, Course
<1>1. CASE RestMove
  BY <1>0, <1>1, RestKeeps
<1>2. CASE NewMove
  BY <1>0, <1>2, NewKeeps
<1>3. ASSUME NEW t \in Execs, JobMove(t) PROVE Course'
  <2>1. Keeps
    BY <1>0, <1>3, FailKeeps, SendKeeps, RecvKeeps, FinishKeeps DEF JobMove
  <2>2. UNCHANGED <<job_array, history_putidx, stopped>>
    BY <1>3 DEF JobMove, FailMove, SendMove, RecvMove, FinishMove, Alone
  <2> QED
    BY <1>0, <2>1, <2>2, KeepsCourse
<1>4. ASSUME NEW t \in Execs, NEW r \in Reports, ReportMove(t, r) PROVE Course'
  BY <1>0, <1>4, ReportKeeps
<1> QED
  BY <1>1, <1>2, <1>3, <1>4, SystemMoves

\* If nobody unsubmits anything, the entries and the jobs are always in keeping.
LEMMA CourseCorrect ==
  ASSUME MaxSubmits <= ID_MOD, UnsubIds = {}
  PROVE  Spec => [](Known /\ Course)
<1>1. Init => Course
  <2> SUFFICES ASSUME Init PROVE Course
    OBVIOUS
  <2>1. /\ lost = {} /\ \A i \in HistIdx : job_array[i] = NoEntry
        /\ \A e \in Execs : toMain[e] = <<>> /\ es[e] = "off"
    BY DEF Init, NetInit, MainInit, HistoryInit, ES!ExecInit, Peers
  <2>2. \A e \in Execs, j \in JobIds : ~Concerns(e, j)
    BY <2>1, NoMessages DEF Concerns, Executes, StartSaid, EndSaid
  <2> QED
    BY <2>1, <2>2 DEF Course, OneReporter, LostAreGone, Recorded
<1>2. Known /\ Types' /\ Course /\ [Next]_vars => Course'
  BY CourseStep
<1>3. Types /\ Links /\ HistoryLink /\ Custody /\ Reporting /\ NoUnsubmit <=> Known
  BY DEF Known
<1> QED
  BY <1>1, <1>2, <1>3, TypesCorrect, LinksCorrect, HistoryLinkCorrect, CustodyCorrect,
     ReportingCorrect, NoUnsubmitCorrect, PTL DEF Spec

-----------------------------------------------------------------------------
\* A job that the main server still has is recorded as waiting, for as long as
\* the history knows it, whatever is reported on other jobs meanwhile, if nobody
\* unsubmits a job and as long as the ids do not start again.
THEOREM HeldIsWaitingCorrect ==
  ASSUME MaxSubmits <= ID_MOD, UnsubIds = {}
  PROVE  Spec => []HeldIsWaiting
<1>1. Course => HeldIsWaiting
  <2> SUFFICES ASSUME Course, NEW job \in live, Knows(job_array, job.id)
               PROVE  Entry(job_array, job.id).state = "WAIT"
    BY DEF HeldIsWaiting
  <2> DEFINE i == FindJob(job_array, job.id)
  <2>1. i \in HistIdx /\ job_array[i] # NoEntry /\ job_array[i].id = job.id
    BY FindJobFinds
  <2>2. Has(job.id)
    BY DEF Has
  <2> QED
    BY <2>1, <2>2 DEF Course, Recorded, Fits, Entry
<1> QED
  BY <1>1, CourseCorrect, PTL

\* A step of the system changes a recorded state as the reports lead on from it.
LEMMA AdvanceStep ==
  ASSUME MaxSubmits <= ID_MOD, Known, Types', Course, Course', [Next]_vars,
         NEW j \in JobIds, Knows(job_array, j), Knows(job_array', j)
  PROVE  LET old == Entry(job_array, j).state
             new == Entry(job_array', j).state
         IN \/ new = old
            \/ old = "WAIT" /\ new \in {"RUN", "ERROR"}
            \/ old = "RUN" /\ new \in Final
<1> DEFINE i == FindJob(job_array, j)
           k == FindJob(job_array', j)
           old == job_array[i].state
           new == job_array'[i].state
           G == \/ new = old
                \/ old = "WAIT" /\ new \in {"RUN", "ERROR"}
                \/ old = "RUN" /\ new \in Final
<1>0. Types /\ Filled /\ Custody
  BY DEF Known, HistoryLink
<1>1. i \in HistIdx /\ job_array[i] # NoEntry /\ job_array[i].id = j
  BY FindJobFinds
<1>2. k \in HistIdx /\ job_array'[k] # NoEntry /\ job_array'[k].id = j
  BY FindJobFinds
<1>3. Entry(job_array, j) = job_array[i] /\ Entry(job_array', j) = job_array'[k]
  BY DEF Entry
<1> HIDE DEF i, k
<1>4. i = j % JOB_HISTORY_MAX /\ j < history_putidx /\ Fits(j, job_array[i].state)
  BY <1>1 DEF Course, Recorded
<1>5. k = j % JOB_HISTORY_MAX
  BY <1>2 DEF Course, Recorded
<1>6. k = i
  BY <1>4, <1>5
<1>7. ASSUME job_array' = job_array PROVE G
  BY <1>7
<1>8. ASSUME RestMove PROVE G
  BY <1>7, <1>8 DEF RestMove
<1>9. ASSUME NewMove PROVE G
  <2> DEFINE p == history_putidx % JOB_HISTORY_MAX
             e == [id |-> history_putidx, state |-> "WAIT", exit |-> Garbage]
  <2>1. job_array' = [job_array EXCEPT ![p] = e] /\ e.id = history_putidx
    BY <1>9 DEF NewMove, AddEntry
  <2>2. job_array \in [HistIdx -> Entries \cup {NoEntry}] /\ history_putidx \in Nat
    BY <1>0 DEF Types, MainTypes, HistoryTypes
  <2>3. j # history_putidx
    BY <1>4, <2>2
  <2> HIDE DEF p, e
  <2>4. i # p
    BY <1>1, <1>2, <1>6, <2>1, <2>2, <2>3
  <2>5. job_array'[i] = job_array[i]
    BY <1>1, <2>1, <2>2, <2>4
  <2> QED
    BY <2>5
<1>10. ASSUME NEW t \in Execs, JobMove(t) PROVE G
  BY <1>7, <1>10 DEF JobMove, FailMove, SendMove, RecvMove, FinishMove, Alone
<1>11. ASSUME NEW t \in Execs, NEW r \in Reports, ReportMove(t, r) PROVE G
  <2>1. job_array' = SetState(job_array, r.id, r.state, r.exit)
    BY <1>11 DEF ReportMove
  <2>2. CASE j # r.id
    <3>1. job_array'[i] = job_array[i]
      BY <1>0, <1>1, <2>1, <2>2, ReportEntry
    <3> QED
      BY <3>1
  <2>3. CASE j = r.id
    <3>1. job_array'[i].state = r.state
      BY <1>0, <1>1, <2>1, <2>3, ReportEntry
    <3>2. PICK s \in States : s = job_array[i].state
      BY <1>0, <1>1, EntryParts
    <3>3. \/ s = "WAIT" /\ r.state \in {"RUN", "ERROR"}
          \/ s = "RUN" /\ r.state \in Final
      BY <1>0, <1>4, <1>11, <2>3, <3>2, ReportFits
    <3> QED
      BY <3>1, <3>2, <3>3
  <2> QED
    BY <2>2, <2>3
<1> HIDE DEF G
<1>12. \/ RestMove \/ NewMove \/ \E t \in Execs : JobMove(t)
       \/ \E t \in Execs, r \in Reports : ReportMove(t, r)
  BY <1>0, SystemMoves
<1>13. G
  BY <1>8, <1>9, <1>10, <1>11, <1>12
<1> USE DEF G
<1> QED
  BY <1>3, <1>6, <1>13

\* A job's recorded state goes from WAIT to RUN to its end, or from WAIT to ERROR,
\* and never back, for any number of execution servers and however their reports
\* and failures interleave, if nobody unsubmits a job and as long as the ids do
\* not start again.
THEOREM StateAdvancesCorrect ==
  ASSUME MaxSubmits <= ID_MOD, UnsubIds = {}
  PROVE  Spec => StateAdvances
<1> DEFINE Advances ==
      \A j \in JobIds :
        Knows(job_array, j) /\ Knows(job_array', j) =>
          LET old == Entry(job_array, j).state
              new == Entry(job_array', j).state
          IN \/ new = old
             \/ old = "WAIT" /\ new \in {"RUN", "ERROR"}
             \/ old = "RUN" /\ new \in Final
<1>1. Known /\ Types' /\ Course /\ Course' /\ [Next]_vars => Advances
  <2> SUFFICES ASSUME Known, Types', Course, Course', [Next]_vars, NEW j \in JobIds,
                      Knows(job_array, j), Knows(job_array', j)
               PROVE  LET old == Entry(job_array, j).state
                          new == Entry(job_array', j).state
                      IN \/ new = old
                         \/ old = "WAIT" /\ new \in {"RUN", "ERROR"}
                         \/ old = "RUN" /\ new \in Final
    OBVIOUS
  <2> QED
    BY AdvanceStep
<1>2. Known' => Types'
  BY DEF Known
<1> HIDE DEF Advances
<1>3. Known /\ Known' /\ Course /\ Course' /\ [Next]_vars => [Advances]_vars
  BY <1>1, <1>2
<1>4. StateAdvances <=> [][Advances]_vars
  BY DEF StateAdvances, Advances
<1> QED
  BY <1>3, <1>4, CourseCorrect, PTL DEF Spec

\* Of six conditions of which one holds and excludes the others, one holds.
LEMMA OneOfSix ==
  ASSUME NEW a1 \in BOOLEAN, NEW a2 \in BOOLEAN, NEW a3 \in BOOLEAN,
         NEW a4 \in BOOLEAN, NEW a5 \in BOOLEAN, NEW a6 \in BOOLEAN,
         a1 \/ a2 \/ a3 \/ a4 \/ a5 \/ a6,
         a1 => ~a2 /\ ~a3 /\ ~a4 /\ ~a5 /\ ~a6,
         a2 => ~a3 /\ ~a4 /\ ~a5 /\ ~a6,
         a3 => ~a4 /\ ~a5 /\ ~a6,
         a4 => ~a5 /\ ~a6,
         a5 => ~a6
  PROVE  Cardinality({i \in 1 .. 6 : <<a1, a2, a3, a4, a5, a6>>[i]}) = 1
<1> DEFINE w == <<a1, a2, a3, a4, a5, a6>>
           W == {i \in 1 .. 6 : w[i]}
<1>1. w[1] = a1 /\ w[2] = a2 /\ w[3] = a3 /\ w[4] = a4 /\ w[5] = a5 /\ w[6] = a6
  OBVIOUS
<1>2. 1 .. 6 = {1, 2, 3, 4, 5, 6}
  OBVIOUS
<1> HIDE DEF w
<1>3. \E n \in 1 .. 6 : W = {n}
  <2>1. CASE a1
    <3> QED BY <1>1, <1>2, <2>1
  <2>2. CASE a2
    <3> QED BY <1>1, <1>2, <2>2
  <2>3. CASE a3
    <3> QED BY <1>1, <1>2, <2>3
  <2>4. CASE a4
    <3> QED BY <1>1, <1>2, <2>4
  <2>5. CASE a5
    <3> QED BY <1>1, <1>2, <2>5
  <2>6. CASE a6
    <3> QED BY <1>1, <1>2, <2>6
  <2> QED
    BY <2>1, <2>2, <2>3, <2>4, <2>5, <2>6
<1>4. Cardinality(W) = 1
  BY <1>3, FS_Singleton
<1> QED
  BY <1>4 DEF w, W

\* Every job that the history knows is at one stage of its way, for any number of
\* jobs and of execution servers and through their timeouts and crashes, if nobody
\* unsubmits a job and as long as the ids do not start again: none is lost inside
\* the system, and nothing happens to one twice.
THEOREM AccountedCorrect ==
  ASSUME MaxSubmits <= ID_MOD, UnsubIds = {}
  PROVE  Spec => []Accounted
<1>1. Known /\ Course => Accounted
  <2> SUFFICES ASSUME Known, Course, ~stopped, NEW j \in JobIds, Knows(job_array, j)
               PROVE  Cardinality({i \in 1 .. 6 : Whereabouts(j)[i]}) = 1
    BY DEF Accounted
  <2>0. Types /\ Links /\ Custody /\ Reporting
    BY DEF Known
  <2> DEFINE i == FindJob(job_array, j)
  <2>1. i \in HistIdx /\ job_array[i] # NoEntry /\ job_array[i].id = j
    BY FindJobFinds
  <2>2. PICK s : s = job_array[i].state
    OBVIOUS
  <2>3. Entry(job_array, j).state = s
    BY <2>2 DEF Entry
  <2> HIDE DEF i
  <2>4. Fits(j, s) /\ Found(j, s)
    BY <2>1, <2>2 DEF Course, Recorded
  <2> DEFINE b1 == \E job \in live : job.id = j
             b2 == j \in OnTheWay(toPeer, ES!JobTypes)
             b3 == \E e \in Execs : es[e] \in {"dial", "run"} /\ cur[e].id = j
             b4 == j \in OnTheWay(toMain, ES!EndTypes)
             b5 == Entry(job_array, j).state \in Final
             b6 == j \in lost
  <2>5. b1 <=> Has(j)
    BY DEF Has
  <2>6. b2 <=> \E e \in Execs : Carries(e, j)
    BY <2>0, SentJobs DEF OnTheWay
  <2>7. b3 <=> \E e \in Execs : Executes(e, j)
    BY DEF Executes
  <2>8. b4 <=> \E e \in Execs : EndSaid(e, j)
    <3>1. \A e \in Execs : toMain[e] \in Seq(ExecMessages)
      BY <2>0 DEF Types, NetTypes, ToMainType
    <3>2. \A e \in Execs : j \in ES!JobsIn(toMain[e], ES!EndTypes) <=> EndSaid(e, j)
      BY <3>1, EndedJobs DEF EndSaid
    <3> QED
      BY <3>2 DEF OnTheWay
  <2>9. b5 <=> s \in Final
    BY <2>3
  <2>10. (b1 \/ b2) => s = "WAIT"
    BY <2>4, <2>5, <2>6 DEF Fits
  <2>11. (b3 \/ b4) => s \in {"WAIT", "RUN"}
    BY <2>4, <2>7, <2>8 DEF Fits
  <2>12. (b3 \/ b4 \/ b6) => Gone(j)
    BY <2>0, <2>7, <2>8, InOneHand DEF Course, LostAreGone, LostFor, Concerns
  <2>13. Gone(j) => ~b1 /\ ~b2
    BY <2>0, <2>5, <2>6, InOneHand
  <2>14. b1 => ~b2
    BY <2>0, <2>5, <2>6, InOneHand
  <2>15. b3 => ~b4
    <3> SUFFICES ASSUME NEW e \in Execs, Executes(e, j), NEW f \in Execs, EndSaid(f, j)
                 PROVE  FALSE
      BY <2>7, <2>8
    <3>1. e = f
      BY DEF Course, OneReporter, Concerns
    <3>2. NoEnd(toMain[e])
      BY <2>0 DEF Reporting, Talk, Executes
    <3> QED
      BY <3>1, <3>2 DEF EndSaid, EndIn, NoEnd
  <2>16. b6 => ~b3 /\ ~b4 /\ ~b5
    BY <2>4, <2>7, <2>8, <2>9 DEF Course, LostAreGone, LostFor, Fits
  <2>17. b1 \/ b2 \/ b3 \/ b4 \/ b5 \/ b6
    BY <2>4, <2>5, <2>6, <2>7, <2>8, <2>9 DEF Found
  <2>18. s \in {"WAIT", "RUN"} => ~b5
    BY <2>9 DEF Final
  <2>19. Whereabouts(j) = <<b1, b2, b3, b4, b5, b6>>
    BY DEF Whereabouts
  <2>20. /\ b1 \in BOOLEAN /\ b2 \in BOOLEAN /\ b3 \in BOOLEAN
         /\ b4 \in BOOLEAN /\ b5 \in BOOLEAN /\ b6 \in BOOLEAN
    OBVIOUS
  <2> HIDE DEF b1, b2, b3, b4, b5, b6
  <2>21. /\ b1 => ~b2 /\ ~b3 /\ ~b4 /\ ~b5 /\ ~b6
         /\ b2 => ~b3 /\ ~b4 /\ ~b5 /\ ~b6
         /\ b3 => ~b4 /\ ~b5 /\ ~b6
         /\ b4 => ~b5 /\ ~b6
         /\ b5 => ~b6
    BY <2>10, <2>11, <2>12, <2>13, <2>14, <2>15, <2>16, <2>18
  <2> QED
    BY <2>17, <2>19, <2>20, <2>21, OneOfSix
<1> QED
  BY <1>1, CourseCorrect, PTL

-----------------------------------------------------------------------------
(***************************************************************************)
(* The places of the jobs when nobody unsubmits any: none is leaked.       *)
(***************************************************************************)
\* Every allocated job is in some place.
LEMMA NoLeakCorrect ==
  ASSUME MaxSubmits <= ID_MOD, UnsubIds = {}
  PROVE  Spec /\ []Q!InOrder => []NoLeak
<1>1. Init => NoLeak
  BY PlacesInit
<1>2. (Types /\ Types' /\ Links /\ HistoryLink /\ HistoryLink' /\ NoUnsubmit /\ Placement
         /\ Q!InOrder /\ NoLeak /\ [Next]_vars) => NoLeak'
  <2> SUFFICES ASSUME Types, Types', Links, HistoryLink, HistoryLink', NoUnsubmit, Placement,
                      Q!InOrder, NoLeak, [Next]_vars
               PROVE  NoLeak'
    OBVIOUS
  <2>1. \A c \in Clients : at[c] # "remove"
    BY DEF NoUnsubmit
  <2> QED
    BY <2>1, PlacesStep
<1> QED
  BY <1>1, <1>2, TypesCorrect, LinksCorrect, HistoryLinkCorrect, NoUnsubmitCorrect,
     PlacesCorrect, PTL DEF Spec

\* Every job that is allocated is in one place of the main server, none is in two,
\* and none that the history knows is freed while it is in one, for any number of
\* clients and execution servers and any length of the history, through timeouts,
\* put-backs and crashes, if nobody unsubmits a job, as long as the ids do not
\* start again and the indices of the queue do not wrap between two queued jobs.
THEOREM OnePlaceCorrect ==
  ASSUME MaxSubmits <= ID_MOD, UnsubIds = {}
  PROVE  Spec /\ []Q!InOrder => []OnePlace
<1>1. (Types /\ Placement /\ NoLeak) => OnePlace
  <2> SUFFICES ASSUME Types, Placement, NoLeak, ~stopped, NEW job \in Jobs
               PROVE  /\ Places(job) <= 1
                      /\ job \in live => Places(job) = 1
                      /\ Places(job) = 1 /\ Knows(job_array, job.id) => job \in live
    BY DEF OnePlace
  <2>1. Places(job) = IF job \in AllPlaced THEN 1 ELSE 0
    BY PlacesCounted
  <2>2. job \in live => job \in AllPlaced
    BY DEF NoLeak, AllPlaced
  <2>3. job \in AllPlaced /\ Knows(job_array, job.id) => job \in live
    BY DEF Placement, InPlace
  <2> QED
    BY <2>1, <2>2, <2>3
<1> QED
  BY <1>1, TypesCorrect, PlacesCorrect, NoLeakCorrect, PTL

\* Whenever the user of the main server types stop, and whatever the threads are
\* doing then: once they are done with what they had in hand, no job is left over,
\* if nobody unsubmits a job, as long as the ids do not start again and the
\* indices of the queue do not wrap between two queued jobs.
THEOREM CleanStopCorrect ==
  ASSUME MaxSubmits <= ID_MOD, UnsubIds = {}
  PROVE  Spec /\ []Q!InOrder => []CleanStop
<1>1. Placement /\ NoLeak => CleanStop
  <2> SUFFICES ASSUME Placement, NoLeak, stopped, \A t \in Peers : at[t] \in {"off", "recv"}
               PROVE  live = {}
    BY DEF CleanStop
  <2>1. \A t \in Peers : arg[t] = NoJob
    BY DEF Placement, Calls, InCall
  <2>2. \A e \in Execs : InHand[e] = NoJob
    BY DEF InHand, Peers
  <2>3. Placed(arg, 0, Q!Items(queue), InHand) = {}
    BY <2>1, <2>2, MainAssumption DEF Placed
  <2> QED
    BY <2>3 DEF NoLeak
<1> QED
  BY <1>1, PlacesCorrect, NoLeakCorrect, PTL
=============================================================================
