------------------------------ MODULE MsgChan ------------------------------
(***************************************************************************)
(* One direction of a msgchan (msgchan.c, message.c): the send queue, the  *)
(* partially sent message, the byte stream, and the partially received     *)
(* message, with the read and write callbacks of the event loops at its    *)
(* two ends.  Each end is a struct msgchan that is cleared and initialised *)
(* again when a connection is replaced, so what one connection leaves      *)
(* behind could reach the next.                                            *)
(***************************************************************************)
EXTENDS Integers, Sequences

CONSTANTS
  Messages,        \* messages
  BodyLen,         \* number of bytes of each one's XDR body
  MSGHDR_SIZE,     \* number of bytes of the length descriptor
  MaxBacklog,      \* MAX_SEND_BACKLOG
  PipeSize,        \* bytes that socket buffers and ssh hold between the ends
  MaxSent,         \* bound: messages queued per connection
  MaxConns         \* bound: connections

ASSUME MsgChanAssumption ==
  /\ BodyLen \in [Messages -> Nat \ {0}]
  /\ MSGHDR_SIZE \in Nat \ {0}
  /\ MaxBacklog \in Nat \ {0}
  /\ PipeSize \in Nat \ {0}
  /\ MaxSent \in Nat
  /\ MaxConns \in Nat

VARIABLES
  queue,     \* sendqueue: messages
  sendbuf,   \* send_msgbuf: the bytes not yet sent, << >> when buf is NULL
  monitor,   \* FM_WRITE is set on send.mon
  wire,      \* bytes under way
  recvbuf,   \* recv_msgbuf: the bytes received of the current message
  plbuf,     \* recv_msgbuf.plbuf is allocated
  sopen,     \* the sending end is initialised
  ropen,     \* the receiving end is initialised
  conns,     \* connections so far
  sent,      \* history: messages queued on this connection
  rcvd       \* history: messages handed to the recv callback

vars == <<queue, sendbuf, monitor, wire, recvbuf, plbuf, sopen, ropen, conns,
          sent, rcvd>>
sender == <<queue, sendbuf, monitor, sopen>>
receiver == <<recvbuf, plbuf, ropen>>

(***************************************************************************)
(* The wire protocol: a length descriptor, then the XDR body.  Only the    *)
(* bytes of the right descriptor decode to a length, and only the bytes of *)
(* one whole body decode to a message.                                     *)
(***************************************************************************)
HdrByte(n, i) == <<"hdr", n, i>>
BodyByte(msg, i) == <<"body", msg, i>>

\* unparse_message.
Unparse(msg) ==
  [i \in 1..MSGHDR_SIZE |-> HdrByte(BodyLen[msg], i)]
    \o [i \in 1..BodyLen[msg] |-> BodyByte(msg, i)]

\* ntohl of the length descriptor: garbage, here 0, if it is not one.
MsgSize(buf) ==
  IF \E msg \in Messages : \A i \in 1..MSGHDR_SIZE :
       buf[i] = HdrByte(BodyLen[msg], i)
  THEN buf[1][2] ELSE 0

\* parse_message: the messages with this body, none when XDR rejects it.
Parse(buf) ==
  {msg \in Messages : SubSeq(buf, MSGHDR_SIZE + 1, Len(buf))
                        = [i \in 1..BodyLen[msg] |-> BodyByte(msg, i)]}

-----------------------------------------------------------------------------
Init ==
  /\ queue = <<>> /\ sendbuf = <<>> /\ monitor = FALSE /\ sopen = TRUE
  /\ recvbuf = <<>> /\ plbuf = FALSE /\ ropen = TRUE
  /\ wire = <<>> /\ conns = 1
  /\ sent = <<>> /\ rcvd = <<>>

\* Mutants: the partial message survives; its payload is freed but its bytes
\* still count.
ClearReceiverNot == UNCHANGED <<recvbuf, plbuf>>
ClearReceiverKeepsCount == UNCHANGED recvbuf /\ plbuf' = FALSE

\* mc_clear, its two halves.
ClearSender == queue' = <<>> /\ sendbuf' = <<>>
ClearReceiver == recvbuf' = <<>> /\ plbuf' = FALSE

\* mc_close: mc_clear, then the monitors and the file descriptors.
CloseSender == ClearSender /\ monitor' = FALSE /\ sopen' = FALSE
CloseReceiver == ClearReceiver /\ ropen' = FALSE

\* mc_enqueue_message; the callers close the channel when it fails.
Enqueue(msg) ==
  /\ sopen /\ Len(sent) < MaxSent
  /\ sent' = Append(sent, msg)
  /\ IF Len(queue) + 1 > MaxBacklog THEN CloseSender
     ELSE /\ queue' = Append(queue, msg)
          /\ monitor' = TRUE
          /\ UNCHANGED <<sendbuf, sopen>>
  /\ UNCHANGED <<receiver, wire, conns, rcvd>>

\* mc_dequeue_message: what is left once the head is taken off.
Dequeue(q) == Tail(q)

\* Mutant: only a partially sent message counts.
OutboundPartOnly(q, buf) == buf # <<>>

\* mc_have_outbound_data.
HaveOutboundData(q, buf) == buf # <<>> \/ q # <<>>

\* Mutant: a message is only written where all of it fits.
DrainWhole(buf, k) == k = Len(buf) /\ Len(wire) + k <= PipeSize

\* drain_msgbuf: write() takes k bytes, then blocks or buf is drained.
Drain(buf, k) == k <= Len(buf) /\ Len(wire) + k <= PipeSize

\* send_message: the rest of the message under way, or else the next one.
OutBuf == IF sendbuf = <<>> THEN Unparse(Head(queue)) ELSE sendbuf

\* mc_write_cb.  Without outbound data it only stops monitoring (WriteWakeup: never).
Write(k) ==
  LET buf == OutBuf
  IN /\ sopen /\ monitor
     /\ IF HaveOutboundData(queue, sendbuf)
        THEN /\ Drain(buf, k)
             /\ queue' = IF sendbuf = <<>> THEN Dequeue(queue) ELSE queue
             /\ sendbuf' = SubSeq(buf, k + 1, Len(buf))
             /\ wire' = wire \o SubSeq(buf, 1, k)
             /\ monitor' = HaveOutboundData(queue', sendbuf')
        ELSE /\ monitor' = FALSE
             /\ UNCHANGED <<queue, sendbuf, wire>>
     /\ UNCHANGED <<sopen, receiver, conns, sent, rcvd>>

\* mc_write_cb when write fails: the other end is gone.
WriteError ==
  /\ sopen /\ monitor /\ ~ropen
  /\ CloseSender
  /\ UNCHANGED <<receiver, wire, conns, sent, rcvd>>

\* mc_read_cb: fill_msgbuf reads until the stream blocks, here after k bytes,
\* but never past the end of the message; a complete one is parsed and
\* handed to the recv callback.  XDR and malloc failures close the channel.
Read(k) ==
  LET buf   == recvbuf \o SubSeq(wire, 1, k)
      sized == Len(buf) >= MSGHDR_SIZE
      size  == MSGHDR_SIZE + MsgSize(buf)
  IN /\ ropen /\ k <= Len(wire)
     /\ Len(buf) > MSGHDR_SIZE => Len(buf) <= size
     /\ wire' = SubSeq(wire, k + 1, Len(wire))
     /\ \/ /\ ~sized
           /\ recvbuf' = buf
           /\ UNCHANGED <<plbuf, ropen, rcvd>>
        \/ /\ sized /\ Len(buf) < size
           /\ recvbuf' = buf /\ plbuf' = TRUE
           /\ UNCHANGED <<ropen, rcvd>>
        \/ /\ sized /\ Len(buf) >= size /\ Parse(buf) # {}
           /\ recvbuf' = <<>> /\ plbuf' = FALSE
           /\ \E msg \in Parse(buf) : rcvd' = Append(rcvd, msg)
           /\ UNCHANGED ropen
        \/ /\ sized
           /\ \/ Len(buf) = MSGHDR_SIZE /\ ~plbuf      \* malloc fails
              \/ Len(buf) >= size /\ Parse(buf) = {}   \* XDR fails
           /\ CloseReceiver
           /\ UNCHANGED rcvd
     /\ UNCHANGED <<sender, conns, sent>>

\* mc_read_cb at the end of the stream.
ReadEOF ==
  /\ ropen /\ ~sopen /\ wire = <<>>
  /\ CloseReceiver
  /\ UNCHANGED <<sender, wire, conns, sent, rcvd>>

\* The user of one end closes it: the connection is reset, halted, or the
\* process exits.
Hangup ==
  /\ \/ sopen /\ CloseSender /\ UNCHANGED <<receiver, wire>>
     \/ ropen /\ CloseReceiver /\ UNCHANGED <<sender, wire>>
     \* ssh, or the network, fails in between
     \/ sopen /\ CloseSender /\ wire' = <<>> /\ UNCHANGED receiver
  /\ UNCHANGED <<conns, sent, rcvd>>

\* setup_remote: mc_init on a new pair of sockets and, at the other end, in a
\* new process.  A process left at the old pair keeps bytes of its own.
Reconnect ==
  /\ ~sopen \/ ~ropen
  /\ conns < MaxConns
  /\ conns' = conns + 1
  /\ ClearSender /\ ClearReceiver
  /\ monitor' = FALSE
  /\ sopen' = TRUE /\ ropen' = TRUE
  /\ wire' = <<>> /\ sent' = <<>> /\ rcvd' = <<>>

Next ==
  \/ \E msg \in Messages : Enqueue(msg)
  \/ \E k \in 0..PipeSize : Write(k)
  \/ WriteError
  \/ \E k \in 1..PipeSize : Read(k)
  \/ ReadEOF
  \/ Hangup
  \/ Reconnect

Spec == Init /\ [][Next]_vars

\* select() reports a stream with room, or with bytes, and the event loop then
\* calls the callback, which moves at least one byte.
FairSpec ==
  /\ Spec
  /\ WF_vars(\E k \in 1..PipeSize : Write(k))
  /\ WF_vars(\E k \in 1..PipeSize : Read(k))

-----------------------------------------------------------------------------
Bytes == {HdrByte(BodyLen[msg], i) : msg \in Messages, i \in 1..MSGHDR_SIZE}
           \cup UNION {{BodyByte(msg, i) : i \in 1..BodyLen[msg]} : msg \in Messages}

\* Every variable has its type; the send queue never exceeds
\* MAX_SEND_BACKLOG and the stream never more than its buffers.
TypeOK ==
  /\ queue \in Seq(Messages) /\ Len(queue) <= MaxBacklog
  /\ sendbuf \in Seq(Bytes)
  /\ wire \in Seq(Bytes) /\ Len(wire) <= PipeSize
  /\ recvbuf \in Seq(Bytes)
  /\ monitor \in BOOLEAN /\ plbuf \in BOOLEAN
  /\ sopen \in BOOLEAN /\ ropen \in BOOLEAN
  /\ conns \in 1..MaxConns
  /\ sent \in Seq(Messages) /\ rcvd \in Seq(Messages)

\* mc_write_cb stops monitoring a drained channel and mc_enqueue_message
\* resumes: a channel waits to be writable exactly when it has outbound data,
\* so none is stranded, and mc_write_cb never meets the case it warns about.
WriteWakeup == monitor <=> (sendbuf # <<>> \/ queue # <<>>)

\* The assertion in fill_msgbuf: the payload buffer is allocated exactly when
\* the length descriptor is complete, so bytes_recvd counts what it holds.
PayloadAllocated == plbuf <=> Len(recvbuf) >= MSGHDR_SIZE

\* Where each of the messages ends in the stream of their bytes.
Ends(msgs) ==
  LET end[i \in 0..Len(msgs)] ==
        IF i = 0 THEN 0 ELSE end[i - 1] + MSGHDR_SIZE + BodyLen[msgs[i]]
  IN end

\* The bytes that the receiver has not parsed yet.
Stream == recvbuf \o wire \o sendbuf

\* The bytes begin with the messages that follow the n-th, up to the i-th.
Begins(bytes, msgs, n, i) ==
  LET at(j) == Ends(msgs)[j] - Ends(msgs)[n]
  IN /\ at(i) <= Len(bytes)
     /\ \A j \in n + 1..i : SubSeq(bytes, at(j - 1) + 1, at(j)) = Unparse(msgs[j])

\* The last message that the bytes hold whole.
Carried(bytes, msgs, n) ==
  CHOOSE i \in n..Len(msgs) :
    Begins(bytes, msgs, n, i) /\ (i < Len(msgs) => ~Begins(bytes, msgs, n, i + 1))

\* The messages queued and not yet handed to the receiver, read off the stream
\* and the queue.
UnderWay ==
  SubSeq(sent, Len(rcvd) + 1, Carried(Stream, sent, Len(rcvd))) \o queue

Fifo == INSTANCE FifoChannel WITH
  transit <- IF ropen THEN UnderWay ELSE <<>>,
  last <- IF rcvd = <<>> THEN <<>> ELSE <<rcvd[Len(rcvd)]>>

\* Queueing, partial writes and reads, failures and reconnections together
\* implement the FIFO channel that the rest of the program relies on: what the
\* recv callback is handed is what was queued, in its order.
ImplementsFifo == Fifo!Spec

\* A message queued on a connection that stays up is delivered.
Delivery ==
  \A i \in 1..MaxSent :
    sopen /\ ropen /\ Len(sent) >= i ~> Len(rcvd) >= i \/ ~sopen \/ ~ropen
=============================================================================
