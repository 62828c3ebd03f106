---------------------------- MODULE Connections ----------------------------
(***************************************************************************)
(* The TCP connections between the main server and its peers, the clients  *)
(* and the execution servers, at the level of the messages that sendMsg    *)
(* and recvMsg of PROTO_DIST_QUEUE.c transfer: each direction is a FIFO    *)
(* sequence of messages.  A message is a record with the field type of its *)
(* Header and the fields of its payload that matter.  Framing shows that   *)
(* the byte loops of the two functions implement such channels.            *)
(*                                                                         *)
(* Beside them there are the connections of interactive jobs, each from    *)
(* the child that executes the job to a port on which its client listens:  *)
(*   none    not opened            listen     opened by the client         *)
(*   connected  by the child       hungup     the child's end is closed    *)
(*   closed  by the client                                                 *)
(***************************************************************************)
EXTENDS Naturals, Sequences

CONSTANTS
  Clients,     \* connections of clients
  Execs,       \* connections of execution servers
  MaxConnects, \* bound on the number of connections ever opened
  MaxSubmits   \* bound on the number of submissions

ASSUME PeerAssumption == Clients \cap Execs = {} /\ MaxSubmits \in Nat

VARIABLES
  toMain,    \* messages on their way to the main server, per peer
  toPeer,    \* messages on their way to the peer
  open,      \* which of the two ends of each connection are open
  connects,  \* number of connections opened so far
  tty,       \* the connection of each port of an interactive job
  lost       \* ids of the jobs that were lost with an execution server

linkVars == <<open, connects, tty, lost>>
netVars  == <<toMain, toPeer, linkVars>>

Peers == Clients \cup Execs

\* A port is given to one submission of one client.  (The kernel may give it out
\* again once the client is gone.)
Ports == Clients \X (1 .. MaxSubmits)

NetInit ==
  /\ toMain = [p \in Peers |-> <<>>]
  /\ toPeer = [p \in Peers |-> <<>>]
  /\ open = [p \in Peers |-> {}]
  /\ connects = 0
  /\ tty = [p \in Ports |-> "none"]
  /\ lost = {}

\* sendMsg: what is sent to an end that is closed is lost.
Sent(ch, p, end, msg) ==
  IF end \in open[p] THEN [ch EXCEPT ![p] = Append(@, msg)] ELSE ch

\* recvMsg returns 1 with the first message ...
Arrived(ch, p, types) == ch[p] # <<>> /\ Head(ch[p]).type \in types

Received(ch, p) == [ch EXCEPT ![p] = Tail(@)]

\* ... or 0 or -1 when the other end is closed and there is nothing left.
Ended(ch, p, end) == ch[p] = <<>> /\ end \notin open[p]

\* A connection is opened by the peer, once both ends of the one before are
\* closed; the kernel of the main server completes it before accept returns.
Connect(p) ==
  /\ open[p] = {}
  /\ connects < MaxConnects
  /\ connects' = connects + 1
  /\ open' = [open EXCEPT ![p] = {"main", "peer"}]
  /\ toMain' = [toMain EXCEPT ![p] = <<>>]
  /\ toPeer' = [toPeer EXCEPT ![p] = <<>>]
  /\ UNCHANGED <<tty, lost>>
=============================================================================
