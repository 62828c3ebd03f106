------------------------------ MODULE Framing ------------------------------
(***************************************************************************)
(* The byte loops of sendMsg and recvMsg on one direction of a connection. *)
(* send and recv transfer as many bytes as they like, at least one.        *)
(* recvMsg waits for the bytes of a Header and then for as many more as    *)
(* the header's sz8 says; there may be none.  Either end may go at any     *)
(* time, in the middle of a message too.                                   *)
(*                                                                         *)
(* A byte is the pair of a message and a position in it.  What sz8 tells   *)
(* is the size of the message whose first byte it is.  No program of the   *)
(* system installs a signal handler, so no call fails with EINTR.          *)
(***************************************************************************)
EXTENDS Naturals, Sequences

LOCAL INSTANCE FiniteSetsExt

CONSTANTS
  Messages,
  Size,      \* sz8 of each message, header included
  HeaderSize,\* sizeof(Header): 5
  Capacity,  \* bytes that fit into the buffers of the two kernels
  MaxCalls,  \* bound on the calls of sendMsg
  None, Ended, Corrupt  \* no message yet; no message more; no message at all

ASSUME FramingAssumption ==
  /\ HeaderSize \in Nat \ {0} /\ Capacity \in Nat \ {0} /\ MaxCalls \in Nat
  /\ Size \in [Messages -> Nat]
  /\ \A m \in Messages : Size[m] >= HeaderSize

VARIABLES
  toSend,      \* the bytes that sendMsg has still to send
  calls,       \* number of calls of sendMsg
  wire,        \* the bytes between the two ends
  open,        \* which of the ends "sender" and "receiver" are open
  toRecv,      \* the number of bytes that recvMsg waits for, 0 outside it
  headerRecvd, \* as in recvMsg
  buf,         \* the bytes of the Msg received so far, header and payload
  msg          \* the result of the latest recvMsg

vars == <<toSend, calls, wire, open, toRecv, headerRecvd, buf, msg>>

Bytes(m) == [i \in 1 .. Size[m] |-> <<m, i>>]

Init ==
  /\ toSend = <<>> /\ calls = 0
  /\ wire = <<>> /\ open = {"sender", "receiver"}
  /\ toRecv = 0 /\ headerRecvd = FALSE /\ buf = <<>> /\ msg = None

\* What is left of a sequence of bytes after the first k.
Drop(bytes, k) == SubSeq(bytes, k + 1, Len(bytes))

-----------------------------------------------------------------------------
CallSend(m) ==
  /\ toSend = <<>> /\ "sender" \in open
  /\ calls < MaxCalls
  /\ calls' = calls + 1
  /\ toSend' = Bytes(m)
  /\ UNCHANGED <<wire, open, toRecv, headerRecvd, buf, msg>>

\* One round of the loop of sendMsg ...
Send ==
  /\ toSend # <<>> /\ "receiver" \in open
  /\ \E k \in 1 .. Min({Len(toSend), Capacity - Len(wire)}) :
       /\ wire' = wire \o SubSeq(toSend, 1, k)
       /\ toSend' = Drop(toSend, k)
  /\ UNCHANGED <<calls, open, toRecv, headerRecvd, buf, msg>>

\* ... and what it does when nobody receives: the kernel takes the bytes and
\* loses them, or send reports an error and sendMsg returns -1.
SendToNobody ==
  /\ toSend # <<>> /\ "receiver" \notin open
  /\ toSend' = <<>>
  /\ UNCHANGED <<calls, wire, open, toRecv, headerRecvd, buf, msg>>

-----------------------------------------------------------------------------
CallRecv ==
  /\ toRecv = 0 /\ "receiver" \in open /\ msg # Ended
  /\ toRecv' = HeaderSize
  /\ headerRecvd' = FALSE
  /\ UNCHANGED <<toSend, calls, wire, open, buf, msg>>

\* sz8 of the header at the beginning of the bytes.
Sz8(bytes) == Size[bytes[1][1]]

\* The message that the bytes make up.
Decoded(bytes) ==
  IF \E m \in Messages : bytes = Bytes(m)
  THEN CHOOSE m \in Messages : bytes = Bytes(m)
  ELSE Corrupt

\* Mutants: the size of the header is not subtracted from sz8; recv is made to
\* wait for all that was asked for.
RecvWholeSize ==
  /\ toRecv # 0
  /\ \E k \in 1 .. Min({toRecv, Len(wire)}) :
       LET got     == buf \o SubSeq(wire, 1, k)
           hdrDone == toRecv = k /\ ~headerRecvd
           rest    == IF hdrDone THEN Sz8(got) ELSE toRecv - k
       IN /\ wire' = Drop(wire, k)
          /\ headerRecvd' = (headerRecvd \/ hdrDone)
          /\ toRecv' = rest
          /\ buf' = IF rest = 0 THEN <<>> ELSE got
          /\ msg' = IF rest = 0 THEN Decoded(got) ELSE msg
  /\ UNCHANGED <<toSend, calls, open>>

RecvAll ==
  /\ toRecv # 0 /\ Len(wire) >= toRecv
  /\ LET got     == buf \o SubSeq(wire, 1, toRecv)
         rest    == IF ~headerRecvd THEN Sz8(got) - HeaderSize ELSE 0
     IN /\ wire' = Drop(wire, toRecv)
        /\ headerRecvd' = TRUE
        /\ toRecv' = rest
        /\ buf' = IF rest = 0 THEN <<>> ELSE got
        /\ msg' = IF rest = 0 THEN Decoded(got) ELSE msg
  /\ UNCHANGED <<toSend, calls, open>>

\* One round of the loop of recvMsg.  It returns 1 when nothing is left to be
\* received, which after the header of a message without payload is at once.
Recv ==
  /\ toRecv # 0
  /\ \E k \in 1 .. Min({toRecv, Len(wire)}) :
       LET got     == buf \o SubSeq(wire, 1, k)
           hdrDone == toRecv = k /\ ~headerRecvd
           rest    == IF hdrDone THEN Sz8(got) - HeaderSize ELSE toRecv - k
       IN /\ wire' = Drop(wire, k)
          /\ headerRecvd' = (headerRecvd \/ hdrDone)
          /\ toRecv' = rest
          /\ buf' = IF rest = 0 THEN <<>> ELSE got
          /\ msg' = IF rest = 0 THEN Decoded(got) ELSE msg
  /\ UNCHANGED <<toSend, calls, open>>

\* recv returns 0 or -1, and so does recvMsg, whatever part of a message it has.
RecvEnds ==
  /\ toRecv # 0 /\ wire = <<>> /\ "sender" \notin open
  /\ toRecv' = 0 /\ buf' = <<>> /\ msg' = Ended
  /\ UNCHANGED <<toSend, calls, wire, open, headerRecvd>>

-----------------------------------------------------------------------------
\* The sender closes its end, or fails with what had not yet left.
SenderGoes ==
  /\ "sender" \in open
  /\ open' = open \ {"sender"}
  /\ toSend' = <<>>
  /\ \E n \in 0 .. Len(wire) : wire' = SubSeq(wire, 1, n)
  /\ UNCHANGED <<calls, toRecv, headerRecvd, buf, msg>>

ReceiverGoes ==
  /\ "receiver" \in open
  /\ open' = open \ {"receiver"}
  /\ wire' = <<>> /\ toRecv' = 0 /\ buf' = <<>>
  /\ UNCHANGED <<toSend, calls, headerRecvd, msg>>

Next ==
  \/ \E m \in Messages : CallSend(m)
  \/ Send \/ SendToNobody
  \/ CallRecv \/ Recv \/ RecvEnds
  \/ SenderGoes \/ ReceiverGoes

\* Both loops go on when they can, and the receiver calls recvMsg again: that
\* is what the loops of attendClient and attendExecServ do.
Spec ==
  /\ Init /\ [][Next]_vars
  /\ WF_vars(Send \/ SendToNobody)
  /\ WF_vars(CallRecv \/ Recv \/ RecvEnds)

-----------------------------------------------------------------------------
\* The messages that are completely in the network or in recvMsg.
Complete ==
  LET last == SelectSeq(buf \o wire, LAMBDA byte : byte[2] = Size[byte[1]])
  IN [i \in DOMAIN last |-> last[i][1]]

\* However the bytes of headers and payloads are split and joined on the way,
\* and wherever a connection ends, the two loops transfer whole messages in
\* order: what recvMsg returns is the next message that was sent, never a part
\* of one or of two, and the loss of an end loses only a tail.
Channel == INSTANCE MessageChannel WITH chan <- Complete
ChannelSpec == Channel!Spec

\* A message that is being sent or received gets through, or its end goes,
\* even when the network takes less than a header at a time: neither loop
\* waits for bytes that the other will not send.
Transferred ==
  (toSend # <<>> \/ Complete # <<>>) ~> (toSend = <<>> /\ Complete = <<>>)
=============================================================================
