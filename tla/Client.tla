------------------------------- MODULE Client -------------------------------
(***************************************************************************)
(* The clients (client.c): each sends one request per command of its user  *)
(* and waits for the response in client_protocol.  cl is where it is:      *)
(*   off     not running       prompt  waits for a command                 *)
(*   wait, waitInter           in client_protocol, the latter for submiti  *)
(*   hang    in client_protocol, though nothing was sent                   *)
(*   accept  in client_accept  session in interaction_1                    *)
(***************************************************************************)
EXTENDS Connections, Messages

CONSTANTS
  JobIds,
  NoAddr,       \* as in MainServer
  Kinds,        \* the submissions of users: submit, submiti, or one that fails
  AskedIds,     \* ids that users type
  UnsubIds,     \* ids that users unsubmit
  Queues        \* queue numbers that users type

VARIABLES
  cl,        \* where each client is
  port,      \* the port of the latest submiti of each client
  submits,   \* number of submissions so far
  withdrawn  \* ids whose unsubmission was confirmed to a user

ClientInit ==
  /\ cl = [c \in Clients |-> "off"]
  /\ port = [c \in Clients |-> NoAddr]
  /\ submits = 0
  /\ withdrawn = {}

Become(c, stage) == cl' = [cl EXCEPT ![c] = stage]

\* main connects.
Start(c) ==
  /\ cl[c] = "off"
  /\ Connect(c)
  /\ Become(c, "prompt")
  /\ UNCHANGED <<port, submits, withdrawn>>

Request(c, msg, stage) ==
  /\ cl[c] = "prompt"
  /\ toMain' = Sent(toMain, c, "main", msg)
  /\ Become(c, stage)
  /\ UNCHANGED <<toPeer, open, connects, lost, withdrawn>>

\* submit: getArgsSubmit.
Submit(c) ==
  /\ "submit" \in Kinds /\ submits < MaxSubmits
  /\ submits' = submits + 1
  /\ Request(c, SetFileExecNoInter_CLIENT, "wait")
  /\ UNCHANGED <<tty, port>>

\* submiti: getArgsSubmitInt listens on a port of its own and sends its address.
\* When ioctl does not know the interface en0, the address is what happened to
\* be in ifr: perhaps 0, or one where connect of the child will fail.
SubmitInt(c) ==
  LET p == <<c, submits + 1>>
  IN /\ "submiti" \in Kinds /\ submits < MaxSubmits
     /\ submits' = submits + 1
     /\ tty' = [tty EXCEPT ![p] = "listen"]
     /\ port' = [port EXCEPT ![c] = p]
     /\ \E addr \in {p, NoAddr} :
          Request(c, SetFileExecInter_CLIENT(addr), "waitInter")

\* getline or getcwd fails: nothing is sent, and main goes on as if it were.
\* (client_accept of the -1 that getArgsSubmitInt returns fails at once.)
SubmitFails(c) ==
  /\ "fails" \in Kinds /\ cl[c] = "prompt"
  /\ Become(c, "hang")
  /\ UNCHANGED <<netVars, port, submits, withdrawn>>

\* statejob, statequeue, unsubmit.
JobState(c) ==
  /\ \E j \in AskedIds : Request(c, SetJobState_CLIENT(j), "wait")
  /\ UNCHANGED <<tty, port, submits>>

QueueState(c) ==
  /\ \E q \in Queues : Request(c, SetQueueState_CLIENT(q), "wait")
  /\ UNCHANGED <<tty, port, submits>>

Unsubmit(c) ==
  /\ \E j \in UnsubIds : Request(c, SetUnsubmit_CLIENT(j), "wait")
  /\ UNCHANGED <<tty, port, submits>>

\* The end of the process closes its ports too.
Disconnect(c) ==
  /\ open' = [open EXCEPT ![c] = @ \ {"peer"}]
  /\ tty' = [p \in Ports |-> IF p[1] = c /\ tty[p] # "none" THEN "closed" ELSE tty[p]]
  /\ toPeer' = [toPeer EXCEPT ![c] = <<>>]
  /\ Become(c, "off")
  /\ UNCHANGED <<connects, lost, port, submits, withdrawn>>

Stop(c) ==
  /\ cl[c] = "prompt"
  /\ toMain' = Sent(toMain, c, "main", SetClosedConnection)
  /\ Disconnect(c)

-----------------------------------------------------------------------------
\* Where client_protocol returns to.
After(stage) == IF stage = "waitInter" THEN "accept" ELSE "prompt"

\* client_protocol: the response is shown to the user.
Responses == {"SUB_RESP", "JOBSTATE_RESP", "QUESTATE_RESP", "UNSUB_RESP", "BAD_PARAMS"}

Response(c) ==
  LET msg == Head(toPeer[c])
  IN /\ cl[c] \in {"wait", "waitInter", "hang"}
     /\ Arrived(toPeer, c, Responses)
     /\ toPeer' = Received(toPeer, c)
     /\ Become(c, After(cl[c]))
     /\ withdrawn' = IF msg.type = "UNSUB_RESP" THEN withdrawn \cup {msg.id} ELSE withdrawn
     /\ UNCHANGED <<toMain, linkVars, port, submits>>

\* client_protocol after the end of the connection: the client goes on.
NoResponse(c) ==
  /\ cl[c] \in {"wait", "waitInter", "hang"}
  /\ Ended(toPeer, c, "main")
  /\ Become(c, After(cl[c]))
  /\ UNCHANGED <<netVars, port, submits, withdrawn>>

\* Mutant: a connection whose child has gone already is not taken.
ClientAcceptAlive(c) ==
  /\ cl[c] = "accept"
  /\ tty[port[c]] = "connected"
  /\ Become(c, "session")
  /\ UNCHANGED <<netVars, port, submits, withdrawn>>

\* client_accept: the child has connected, and may even have gone since.
ClientAccept(c) ==
  /\ cl[c] = "accept"
  /\ tty[port[c]] \in {"connected", "hungup"}
  /\ Become(c, "session")
  /\ UNCHANGED <<netVars, port, submits, withdrawn>>

\* interaction_1 passes on what the child writes and what the user types, until
\* the child has gone or the user's input ends.
EndSession(c) ==
  /\ cl[c] = "session"
  /\ tty' = [tty EXCEPT ![port[c]] = "closed"]
  /\ Become(c, "prompt")
  /\ UNCHANGED <<toMain, toPeer, open, connects, lost, port, submits, withdrawn>>

\* The user kills the client, in the middle of a request too.
Kill(c) ==
  /\ cl[c] # "off"
  /\ Disconnect(c)
  /\ UNCHANGED toMain

\* What a client does by itself, without its user.
ClientStep(c) ==
  \/ Response(c) \/ NoResponse(c) \/ ClientAccept(c)
  \/ EndSession(c) /\ tty[port[c]] = "hungup"

ClientNext ==
  \E c \in Clients :
    \/ Start(c) \/ Submit(c) \/ SubmitInt(c) \/ SubmitFails(c)
    \/ JobState(c) \/ QueueState(c) \/ Unsubmit(c)
    \/ Stop(c) \/ Kill(c) \/ ClientStep(c) \/ EndSession(c)
=============================================================================
