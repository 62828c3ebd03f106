--------------------------- MODULE MessageChannel ---------------------------
(***************************************************************************)
(* What sendMsg and recvMsg promise (PROTO_DIST_QUEUE.c:14-18 and 35-40)   *)
(* for one direction of one connection: whole messages, in order, until    *)
(* an end is closed.  These are the steps that Connections takes for       *)
(* granted: Sent, Received, Ended, and the two ways in which an end goes.  *)
(***************************************************************************)
EXTENDS Naturals, Sequences

CONSTANTS Messages, None, Ended

VARIABLES
  chan,  \* messages sent and not yet received
  open,  \* which of the ends "sender" and "receiver" are open
  msg    \* the result of the latest recvMsg

Init == chan = <<>> /\ open = {"sender", "receiver"} /\ msg = None

Send(m) ==
  /\ open = {"sender", "receiver"}
  /\ chan' = Append(chan, m)
  /\ UNCHANGED <<open, msg>>

Receive ==
  /\ "receiver" \in open /\ chan # <<>>
  /\ msg' = Head(chan)
  /\ chan' = Tail(chan)
  /\ UNCHANGED open

End ==
  /\ "receiver" \in open /\ "sender" \notin open /\ chan = <<>>
  /\ msg' = Ended
  /\ UNCHANGED <<chan, open>>

SenderGoes ==
  /\ open' = open \ {"sender"}
  /\ \E n \in 0 .. Len(chan) : chan' = SubSeq(chan, 1, n)
  /\ UNCHANGED msg

ReceiverGoes ==
  /\ open' = open \ {"receiver"}
  /\ chan' = <<>>
  /\ UNCHANGED msg

Next == (\E m \in Messages : Send(m)) \/ Receive \/ End \/ SenderGoes \/ ReceiverGoes

Spec == Init /\ [][Next]_<<chan, open, msg>>
=============================================================================
