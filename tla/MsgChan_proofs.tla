--------------------------- MODULE MsgChan_proofs ---------------------------
(***************************************************************************)
(* Proofs about MsgChan, for every message format, backlog limit and       *)
(* stream capacity: the write monitor, the bound on the send queue, the    *)
(* assertion of fill_msgbuf, and that the channel implements FifoChannel.  *)
(***************************************************************************)
EXTENDS MsgChan, SequenceTheorems, WellFoundedInduction, TLAPS

\* The buffers hold messages and bytes, and the queue keeps its bound.
BuffersOK ==
  /\ queue \in Seq(Messages) /\ Len(queue) <= MaxBacklog
  /\ sendbuf \in Seq(Bytes) /\ wire \in Seq(Bytes) /\ recvbuf \in Seq(Bytes)

\* The inductive invariant.
IInv == BuffersOK /\ WriteWakeup /\ PayloadAllocated

\* unparse_message yields wire-format bytes.
LEMMA UnparseType ==
  ASSUME NEW msg \in Messages
  PROVE  Unparse(msg) \in Seq(Bytes)
<1> DEFINE h == [i \in 1..MSGHDR_SIZE |-> HdrByte(BodyLen[msg], i)]
           b == [i \in 1..BodyLen[msg] |-> BodyByte(msg, i)]
<1>1. MSGHDR_SIZE \in Nat /\ BodyLen[msg] \in Nat
  BY Zenon, MsgChanAssumption
<1>2. \A i \in 1..MSGHDR_SIZE : HdrByte(BodyLen[msg], i) \in Bytes
  BY DEF Bytes
<1>3. \A i \in 1..BodyLen[msg] : BodyByte(msg, i) \in Bytes
  BY DEF Bytes
<1>4. h \in Seq(Bytes)
  BY <1>1, <1>2
<1>5. b \in Seq(Bytes)
  BY <1>1, <1>3
<1>6. Unparse(msg) = h \o b
  BY Zenon DEF Unparse
<1> HIDE DEF h, b
<1> QED  BY <1>4, <1>5, <1>6

\* A part of a byte sequence is one.
LEMMA Part ==
  ASSUME NEW s \in Seq(Bytes), NEW i \in Nat \ {0}, NEW j \in Nat, j <= Len(s)
  PROVE  SubSeq(s, i, j) \in Seq(Bytes)
  OBVIOUS

\* mc_close and mc_init on the sending end establish its half of the invariant.
LEMMA Cleared ==
  ASSUME ClearSender, monitor' = FALSE
  PROVE  /\ queue' \in Seq(Messages) /\ Len(queue') <= MaxBacklog
         /\ sendbuf' \in Seq(Bytes)
         /\ WriteWakeup'
<1>1. queue' = <<>> /\ sendbuf' = <<>>
  BY Zenon DEF ClearSender
<1>2. WriteWakeup'
  BY <1>1, Zenon DEF WriteWakeup
<1> QED  BY <1>1, <1>2, MsgChanAssumption

\* So do they on the receiving end.
LEMMA ClearedReceiver ==
  ASSUME ClearReceiver
  PROVE  recvbuf' \in Seq(Bytes) /\ PayloadAllocated'
<1>1. recvbuf' = <<>> /\ plbuf' = FALSE
  BY Zenon DEF ClearReceiver
<1>2. ~(Len(recvbuf') >= MSGHDR_SIZE)
  BY <1>1, MsgChanAssumption
<1>3. PayloadAllocated'
  BY <1>1, <1>2, Zenon DEF PayloadAllocated
<1> QED  BY <1>1, <1>3

\* mc_enqueue_message preserves the invariant.
LEMMA EnqueueInv ==
  ASSUME NEW msg \in Messages, IInv, Enqueue(msg)
  PROVE  IInv'
<1>1. wire' = wire /\ recvbuf' = recvbuf /\ plbuf' = plbuf
  BY Zenon DEF Enqueue, receiver
<1>2. PayloadAllocated'
  BY <1>1, Zenon DEF IInv, PayloadAllocated
<1>3. CASE Len(queue) + 1 > MaxBacklog
  <2>1. ClearSender /\ monitor' = FALSE
    BY Zenon, <1>3 DEF Enqueue, CloseSender
  <2> QED  BY Zenon, <1>1, <1>2, <2>1, Cleared DEF IInv, BuffersOK
<1>4. CASE ~(Len(queue) + 1 > MaxBacklog)
  <2>1. queue' = Append(queue, msg) /\ monitor' = TRUE /\ sendbuf' = sendbuf
    BY Zenon, <1>4 DEF Enqueue
  <2>2. queue' \in Seq(Messages) /\ Len(queue') <= MaxBacklog /\ queue' # <<>>
    BY <1>4, <2>1, MsgChanAssumption DEF IInv, BuffersOK
  <2>3. WriteWakeup'
    BY <2>1, <2>2, Zenon DEF WriteWakeup
  <2> QED  BY Zenon, <1>1, <1>2, <2>1, <2>2, <2>3 DEF IInv, BuffersOK
<1> QED  BY Zenon, <1>3, <1>4

\* mc_write_cb preserves the invariant.
LEMMA WriteInv ==
  ASSUME NEW k \in 0..PipeSize, IInv, Write(k)
  PROVE  IInv'
<1> DEFINE buf == IF sendbuf = <<>> THEN Unparse(Head(queue)) ELSE sendbuf
<1>1. recvbuf' = recvbuf /\ plbuf' = plbuf /\ monitor
  BY Zenon DEF Write, receiver
<1>2. PayloadAllocated'
  BY <1>1, Zenon DEF IInv, PayloadAllocated
<1>3. HaveOutboundData(queue, sendbuf)
  BY <1>1, Zenon DEF IInv, WriteWakeup, HaveOutboundData
<1>4. /\ Drain(buf, k)
      /\ queue' = IF sendbuf = <<>> THEN Tail(queue) ELSE queue
      /\ sendbuf' = SubSeq(buf, k + 1, Len(buf))
      /\ wire' = wire \o SubSeq(buf, 1, k)
      /\ monitor' = HaveOutboundData(queue', sendbuf')
  BY Zenon, <1>3 DEF Write, OutBuf, Dequeue
<1>5. sendbuf = <<>> => queue # <<>>
  BY <1>3, Zenon DEF HaveOutboundData
<1>6. buf \in Seq(Bytes)
  <2>1. CASE sendbuf = <<>>
    <3>1. Head(queue) \in Messages
      BY <1>5, <2>1 DEF IInv, BuffersOK
    <3> QED  BY Zenon, <2>1, <3>1, UnparseType
  <2>2. CASE sendbuf # <<>>
    BY Zenon, <2>2 DEF IInv, BuffersOK
  <2> QED  BY Zenon, <2>1, <2>2
<1>7. k \in Nat /\ k <= Len(buf)
  BY <1>4, MsgChanAssumption DEF Drain
<1> HIDE DEF buf
<1>8. sendbuf' \in Seq(Bytes)
  BY <1>4, <1>6, <1>7, Part
<1>9. wire' \in Seq(Bytes)
  <2>1. SubSeq(buf, 1, k) \in Seq(Bytes)
    BY <1>6, <1>7, Part
  <2> QED  BY <1>4, <2>1 DEF IInv, BuffersOK
<1>10. queue' \in Seq(Messages) /\ Len(queue') <= MaxBacklog
  BY <1>4, <1>5, MsgChanAssumption DEF IInv, BuffersOK
<1>11. WriteWakeup'
  BY <1>4, Zenon DEF WriteWakeup, HaveOutboundData
<1> QED  BY Zenon, <1>1, <1>2, <1>8, <1>9, <1>10, <1>11 DEF IInv, BuffersOK

\* mc_read_cb preserves the invariant.
LEMMA ReadInv ==
  ASSUME NEW k \in 1..PipeSize, IInv, Read(k)
  PROVE  IInv'
<1> DEFINE buf == recvbuf \o SubSeq(wire, 1, k)
<1>1. queue' = queue /\ sendbuf' = sendbuf /\ monitor' = monitor
  BY Zenon DEF Read, sender
<1>2. WriteWakeup'
  BY <1>1, Zenon DEF IInv, WriteWakeup
<1>3. k \in Nat /\ k <= Len(wire) /\ wire' = SubSeq(wire, k + 1, Len(wire))
  BY MsgChanAssumption DEF Read
<1>4. wire' \in Seq(Bytes)
  BY <1>3, Part DEF IInv, BuffersOK
<1>5. buf \in Seq(Bytes) /\ Len(buf) \in Nat /\ Len(recvbuf) <= Len(buf)
  <2>1. SubSeq(wire, 1, k) \in Seq(Bytes)
    BY <1>3, Part DEF IInv, BuffersOK
  <2> QED  BY <2>1 DEF IInv, BuffersOK
<1>6. \/ Len(buf) < MSGHDR_SIZE /\ recvbuf' = buf /\ plbuf' = plbuf
      \/ Len(buf) >= MSGHDR_SIZE /\ recvbuf' = buf /\ plbuf' = TRUE
      \/ ClearReceiver
  <2>1. (Len(buf) >= MSGHDR_SIZE) \/ ~(Len(buf) >= MSGHDR_SIZE)
    BY Zenon
  <2>2. ~(Len(buf) >= MSGHDR_SIZE) => Len(buf) < MSGHDR_SIZE
    BY <1>5, MsgChanAssumption
  <2> QED  BY Zenon, <2>2 DEF Read, CloseReceiver, ClearReceiver
<1> HIDE DEF buf
<1>7. recvbuf' \in Seq(Bytes) /\ PayloadAllocated'
  <2>1. CASE Len(buf) < MSGHDR_SIZE /\ recvbuf' = buf /\ plbuf' = plbuf
    <3>1. ~(Len(recvbuf) >= MSGHDR_SIZE) /\ ~(Len(recvbuf') >= MSGHDR_SIZE)
      BY <1>5, <2>1, MsgChanAssumption DEF IInv, BuffersOK
    <3>2. PayloadAllocated'
      BY <2>1, <3>1, Zenon DEF IInv, PayloadAllocated
    <3> QED  BY Zenon, <1>5, <2>1, <3>2
  <2>2. CASE Len(buf) >= MSGHDR_SIZE /\ recvbuf' = buf /\ plbuf' = TRUE
    <3>1. PayloadAllocated'
      BY <2>2, Zenon DEF PayloadAllocated
    <3> QED  BY Zenon, <1>5, <2>2, <3>1
  <2>3. CASE ClearReceiver
    BY Zenon, <2>3, ClearedReceiver
  <2> QED  BY Zenon, <1>6, <2>1, <2>2, <2>3
<1> QED  BY Zenon, <1>1, <1>2, <1>4, <1>7 DEF IInv, BuffersOK

\* The steps that change no more than one end, by closing it.
LEMMA CloseInv ==
  ASSUME IInv, wire' \in {wire, <<>>},
         \/ CloseSender /\ UNCHANGED receiver
         \/ CloseReceiver /\ UNCHANGED sender
         \/ ClearSender /\ ClearReceiver /\ monitor' = FALSE
  PROVE  IInv'
<1>1. wire' \in Seq(Bytes)
  <2>1. <<>> \in Seq(Bytes)
    OBVIOUS
  <2> QED  BY <2>1, Zenon DEF IInv, BuffersOK
<1>2. \/ ClearSender /\ monitor' = FALSE
      \/ queue' = queue /\ sendbuf' = sendbuf /\ monitor' = monitor
  BY Zenon DEF CloseSender, sender
<1>3. \/ ClearReceiver
      \/ recvbuf' = recvbuf /\ plbuf' = plbuf
  BY Zenon DEF CloseReceiver, receiver
<1>4. /\ queue' \in Seq(Messages) /\ Len(queue') <= MaxBacklog
      /\ sendbuf' \in Seq(Bytes)
  BY Zenon, <1>2, Cleared DEF IInv, BuffersOK
<1>5. WriteWakeup'
  <2>1. CASE queue' = queue /\ sendbuf' = sendbuf /\ monitor' = monitor
    BY <2>1, Zenon DEF IInv, WriteWakeup
  <2> QED  BY Zenon, <1>2, <2>1, Cleared
<1>6. recvbuf' \in Seq(Bytes)
  BY Zenon, <1>3, ClearedReceiver DEF IInv, BuffersOK
<1>7. PayloadAllocated'
  <2>1. CASE recvbuf' = recvbuf /\ plbuf' = plbuf
    BY <2>1, Zenon DEF IInv, PayloadAllocated
  <2> QED  BY Zenon, <1>3, <2>1, ClearedReceiver
<1> QED  BY Zenon, <1>1, <1>4, <1>5, <1>6, <1>7 DEF IInv, BuffersOK

\* Every step of either end preserves the invariant.
LEMMA NextInv == IInv /\ [Next]_vars => IInv'
<1> SUFFICES ASSUME IInv, [Next]_vars PROVE IInv'
  BY Zenon
<1>1. CASE WriteError
  BY Zenon, <1>1, CloseInv DEF WriteError
<1>2. CASE ReadEOF
  BY Zenon, <1>2, CloseInv DEF ReadEOF
<1>3. CASE Hangup
  BY Zenon, <1>3, CloseInv DEF Hangup
<1>4. CASE Reconnect
  BY Zenon, <1>4, CloseInv DEF Reconnect
<1>5. CASE UNCHANGED vars
  BY <1>5, Zenon DEF vars, IInv, BuffersOK, WriteWakeup, PayloadAllocated
<1> QED
  BY Zenon, <1>1, <1>2, <1>3, <1>4, <1>5, EnqueueInv, WriteInv, ReadInv DEF Next

\* The invariant holds throughout.
LEMMA Invariance == Spec => []IInv
<1>1. Init => IInv
  <2> SUFFICES ASSUME Init PROVE IInv
    BY Zenon
  <2>1. WriteWakeup
    BY Zenon DEF Init, WriteWakeup
  <2>2. ~(Len(recvbuf) >= MSGHDR_SIZE) /\ plbuf = FALSE
    BY MsgChanAssumption DEF Init
  <2>3. PayloadAllocated
    BY <2>2, Zenon DEF PayloadAllocated
  <2> QED  BY <2>1, <2>3, MsgChanAssumption DEF Init, IInv, BuffersOK
<1> QED  BY <1>1, NextInv, PTL DEF Spec

\* A channel waits to be writable exactly when it has outbound data: no queued
\* message is stranded, and mc_write_cb is never called in vain.
THEOREM WakeupInvariant == Spec => []WriteWakeup
<1>1. IInv => WriteWakeup
  BY Zenon DEF IInv
<1> QED  BY <1>1, Invariance, PTL

\* The payload buffer is allocated exactly when the length descriptor is
\* complete: the assertion of fill_msgbuf never fails.
THEOREM PayloadInvariant == Spec => []PayloadAllocated
<1>1. IInv => PayloadAllocated
  BY Zenon DEF IInv
<1> QED  BY <1>1, Invariance, PTL

-----------------------------------------------------------------------------
\* A set of numbers up to N has a least one: the induction used below.
LEMMA Least ==
  ASSUME NEW N \in Nat, NEW T \in SUBSET (0..N), T # {}
  PROVE  \E x \in T : \A y \in T : x <= y
<1> DEFINE R == OpToRel(<, Nat)
<1>1. R = {ss \in Nat \X Nat : ss[1] < ss[2]}
  BY Zenon DEF OpToRel
<1>2. IsWellFoundedOn(R, Nat)
  BY NatLessThanWellFounded, Zenon
<1>3. T \subseteq Nat
  OBVIOUS
<1> HIDE DEF R
<1>4. PICK x \in T : \A y \in T : ~ (<<y, x>> \in R)
  BY <1>2, <1>3, WFMin, Zenon
<1>5. ASSUME NEW y \in T, y < x PROVE FALSE
  <2>1. <<y, x>> \in R
    BY Zenon, <1>1, <1>3, <1>5
  <2> QED BY <1>4, <2>1, Zenon
<1>6. \A y \in T : x \in Nat /\ y \in Nat
  BY Zenon, <1>3
<1> QED BY <1>4, <1>5, <1>6

Size(msg) == MSGHDR_SIZE + BodyLen[msg]

\* The ends of the messages are the sums of their sizes.
LEMMA EndsSums ==
  ASSUME NEW s \in Seq(Messages)
  PROVE  /\ Ends(s) \in [0..Len(s) -> Nat] /\ Ends(s)[0] = 0
         /\ \A i \in 1..Len(s) : Ends(s)[i] = Ends(s)[i - 1] + Size(s[i])
<1> DEFINE N == Len(s)
           F(h) == [i \in 0..N |-> IF i = 0 THEN 0
                                    ELSE h[i - 1] + MSGHDR_SIZE + BodyLen[s[i]]]
           Sums(k, g) == /\ g \in [0..k -> Nat] /\ g[0] = 0
                         /\ \A i \in 1..k : g[i] = g[i - 1] + Size(s[i])
<1>1. N \in Nat /\ \A i \in 1..N : s[i] \in Messages /\ Size(s[i]) \in Nat
  BY MsgChanAssumption DEF Size
<1>2. Ends(s) = CHOOSE h : h = F(h)
  BY Zenon DEF Ends
<1> HIDE DEF N
<1>3. \E g : Sums(N, g)
  <2> SUFFICES ASSUME ~\E g : Sums(N, g) PROVE FALSE
    BY Zenon
  <2> DEFINE T == {k \in 0..N : ~\E g : Sums(k, g)}
  <2>1. T \in SUBSET (0..N) /\ T # {}
    <3> HIDE DEF Sums
    <3>1. N \in T
      BY <1>1
    <3> QED BY Zenon, <3>1
  <2>2. PICK k \in T : \A y \in T : k <= y
    BY Zenon, <1>1, <2>1, Least
  <2>3. Sums(0, [i \in 0..0 |-> 0])
    OBVIOUS
  <2>4. k # 0
    BY Zenon, <2>2, <2>3
  <2>5. k - 1 \in 0..N /\ k - 1 \notin T
    <3>1. k \in 0..N
      BY Zenon
    <3> HIDE DEF T
    <3> QED BY <1>1, <2>2, <2>4, <3>1
  <2>6. PICK g : Sums(k - 1, g)
    BY Zenon, <2>5
  <2> DEFINE e == [i \in 0..k |-> IF i = k THEN g[k - 1] + Size(s[k]) ELSE g[i]]
  <2>7. Sums(k, e)
    <3>1. k \in 1..N /\ g[k - 1] \in Nat /\ Size(s[k]) \in Nat
      BY <1>1, <2>4, <2>5, <2>6
    <3>2. e \in [0..k -> Nat] /\ e[0] = 0
      BY <3>1, <2>6
    <3>3. ASSUME NEW i \in 1..k PROVE e[i] = e[i - 1] + Size(s[i])
      BY <3>1, <2>6
    <3> QED BY Zenon, <3>2, <3>3
  <2> QED BY Zenon, <2>2, <2>7
<1>4. PICK g : Sums(N, g)
  BY Zenon, <1>3
<1>5. g = F(g)
  <2>1. ASSUME NEW i \in 0..N PROVE g[i] = F(g)[i]
    <3>1. CASE i = 0
      BY Zenon, <3>1, <1>4
    <3>2. CASE i # 0
      <4>1. i \in 1..N /\ i - 1 \in 0..N
        BY <3>2, <1>1
      <4>2. g[i] = g[i - 1] + Size(s[i]) /\ g[i - 1] \in Nat
        BY Zenon, <4>1, <1>4
      <4>3. BodyLen[s[i]] \in Nat /\ MSGHDR_SIZE \in Nat
        BY Zenon, <4>1, <1>1, MsgChanAssumption
      <4> QED BY <3>2, <4>2, <4>3 DEF Size
    <3> QED BY Zenon, <3>1, <3>2
  <2> QED BY Zenon, <1>4, <2>1
<1>6. Ends(s) = F(Ends(s))
  <2> HIDE DEF F
  <2> QED BY Zenon, <1>2, <1>5
<1>7. \A i \in 0..N : Ends(s)[i] = g[i]
  <2> SUFFICES ASSUME NEW j \in 0..N, Ends(s)[j] # g[j] PROVE FALSE
    BY Zenon
  <2> DEFINE T == {i \in 0..N : Ends(s)[i] # g[i]}
  <2>1. T \in SUBSET (0..N) /\ T # {}
    BY Zenon
  <2>2. PICK i \in T : \A y \in T : i <= y
    BY Zenon, <1>1, <2>1, Least
  <2>3. F(Ends(s))[i] # F(g)[i]
    BY Zenon, <2>2, <1>5, <1>6
  <2>4. i # 0 /\ Ends(s)[i - 1] # g[i - 1] /\ i - 1 \in 0..N
    BY <2>3, <1>1
  <2> QED BY <2>2, <2>4, <1>1
<1>8. Ends(s) = g
  BY <1>4, <1>6, <1>7
<1> QED BY Zenon, <1>4, <1>8 DEF N

\* A message that is added leaves the ends of the others alone.
LEMMA EndsAppend ==
  ASSUME NEW s \in Seq(Messages), NEW msg \in Messages
  PROVE  \A i \in 0..Len(s) : Ends(Append(s, msg))[i] = Ends(s)[i]
<1> DEFINE N == Len(s)
           a == Append(s, msg)
           T == {i \in 0..N : Ends(a)[i] # Ends(s)[i]}
<1>1. N \in Nat /\ a \in Seq(Messages) /\ Len(a) = N + 1 /\ \A i \in 1..N : a[i] = s[i]
  OBVIOUS
<1>2. Ends(s)[0] = 0 /\ \A i \in 1..N : Ends(s)[i] = Ends(s)[i - 1] + Size(s[i])
  BY Zenon, EndsSums
<1>3. Ends(a)[0] = 0 /\ \A i \in 1..N + 1 : Ends(a)[i] = Ends(a)[i - 1] + Size(a[i])
  BY Zenon, <1>1, EndsSums
<1> HIDE DEF a, N
<1>4. SUFFICES ASSUME T # {} PROVE FALSE
  BY Zenon DEF N, a
<1>5. PICK i \in T : \A y \in T : i <= y
  BY Zenon, <1>1, <1>4, Least
<1>6. i # 0 /\ i \in 1..N /\ i - 1 \in 0..N
  BY <1>1, <1>2, <1>3
<1>7. i - 1 \notin T
  <2>1. i \in 0..N
    BY Zenon
  <2> HIDE DEF T
  <2> QED BY <1>5, <2>1
<1> QED BY <1>1, <1>2, <1>3, <1>6, <1>7

\* The ends grow from message to message.
LEMMA EndsGrow ==
  ASSUME NEW s \in Seq(Messages), NEW i \in 0..Len(s), NEW j \in 0..Len(s), i < j
  PROVE  Ends(s)[i] < Ends(s)[j]
<1> DEFINE N == Len(s)
           T == {k \in 0..N : i < k /\ ~(Ends(s)[i] < Ends(s)[k])}
<1>1. N \in Nat /\ \A k \in 1..N : Size(s[k]) \in Nat \ {0}
  BY MsgChanAssumption DEF Size
<1>2. Ends(s) \in [0..N -> Nat] /\ \A k \in 1..N : Ends(s)[k] = Ends(s)[k - 1] + Size(s[k])
  BY Zenon, EndsSums
<1> HIDE DEF N
<1>3. SUFFICES ASSUME T # {} PROVE FALSE
  BY Zenon DEF N
<1>4. PICK k \in T : \A y \in T : k <= y
  BY Zenon, <1>1, <1>3, Least
<1>5. k \in 1..N /\ k - 1 \in 0..N /\ i <= k - 1 /\ i \in 0..N
  BY <1>1 DEF N
<1>6. k - 1 \notin T
  <2>1. k \in 0..N
    BY Zenon
  <2> HIDE DEF T
  <2> QED BY <1>4, <2>1
<1>7. Ends(s)[k - 1] >= Ends(s)[i]
  <2>1. CASE i = k - 1
    BY <2>1, <1>2, <1>5
  <2>2. CASE i # k - 1
    BY SMTT(30), <2>2, <1>2, <1>5, <1>6
  <2> QED BY Zenon, <2>1, <2>2
<1>8. Ends(s)[k] = Ends(s)[k - 1] + Size(s[k]) /\ Size(s[k]) \in Nat \ {0}
  BY Zenon, <1>1, <1>2, <1>5
<1> QED BY SMTT(30), <1>2, <1>5, <1>7, <1>8

-----------------------------------------------------------------------------
\* The bytes B are those of the messages s from position base on.
Spelled(s, base, B) ==
  \A x \in 1..Len(B) : \A i \in 1..Len(s) :
    Ends(s)[i - 1] < base + x /\ base + x <= Ends(s)[i]
      => B[x] = Unparse(s[i])[base + x - Ends(s)[i - 1]]

\* What unparse_message writes.
LEMMA UnparseBytes ==
  ASSUME NEW msg \in Messages
  PROVE  /\ Len(Unparse(msg)) = Size(msg) /\ Size(msg) \in Nat \ {0}
         /\ \A i \in 1..MSGHDR_SIZE : Unparse(msg)[i] = HdrByte(BodyLen[msg], i)
         /\ \A i \in 1..BodyLen[msg] : Unparse(msg)[MSGHDR_SIZE + i] = BodyByte(msg, i)
<1> DEFINE h == [i \in 1..MSGHDR_SIZE |-> HdrByte(BodyLen[msg], i)]
           b == [i \in 1..BodyLen[msg] |-> BodyByte(msg, i)]
<1>1. MSGHDR_SIZE \in Nat \ {0} /\ BodyLen[msg] \in Nat \ {0}
  BY Zenon, MsgChanAssumption
<1>2. \A i \in 1..MSGHDR_SIZE : HdrByte(BodyLen[msg], i) \in Bytes
  BY DEF Bytes
<1>3. \A i \in 1..BodyLen[msg] : BodyByte(msg, i) \in Bytes
  BY DEF Bytes
<1>4. h \in Seq(Bytes) /\ Len(h) = MSGHDR_SIZE
  BY <1>1, <1>2
<1>5. b \in Seq(Bytes) /\ Len(b) = BodyLen[msg]
  BY <1>1, <1>3
<1>6. Unparse(msg) = h \o b
  BY DEF Unparse
<1>7. /\ \A i \in 1..MSGHDR_SIZE : h[i] = HdrByte(BodyLen[msg], i)
      /\ \A i \in 1..BodyLen[msg] : b[i] = BodyByte(msg, i)
  BY Zenon
<1> HIDE DEF h, b
<1>8. /\ Len(h \o b) = Len(h) + Len(b)
      /\ \A i \in 1..Len(h) + Len(b) :
           (h \o b)[i] = IF i <= Len(h) THEN h[i] ELSE b[i - Len(h)]
  BY Zenon, <1>4, <1>5, ConcatProperties
<1> DEFINE u == Unparse(msg)
<1>9. /\ Len(u) = MSGHDR_SIZE + BodyLen[msg]
      /\ \A i \in 1..MSGHDR_SIZE + BodyLen[msg] :
           u[i] = IF i <= MSGHDR_SIZE THEN h[i] ELSE b[i - MSGHDR_SIZE]
  BY Zenon, <1>4, <1>5, <1>6, <1>8
<1> HIDE DEF u
<1>10. Len(u) = Size(msg) /\ Size(msg) \in Nat \ {0}
  BY <1>1, <1>9 DEF Size
<1>11. ASSUME NEW i \in 1..MSGHDR_SIZE PROVE u[i] = HdrByte(BodyLen[msg], i)
  <2>1. i \in 1..MSGHDR_SIZE + BodyLen[msg] /\ i <= MSGHDR_SIZE
    BY <1>1
  <2>2. u[i] = h[i]
    BY Zenon, <2>1, <1>9
  <2> QED BY Zenon, <2>2, <1>7
<1>12. ASSUME NEW i \in 1..BodyLen[msg] PROVE u[MSGHDR_SIZE + i] = BodyByte(msg, i)
  <2> DEFINE j == MSGHDR_SIZE + i
  <2>1. j \in 1..MSGHDR_SIZE + BodyLen[msg] /\ ~(j <= MSGHDR_SIZE) /\ j - MSGHDR_SIZE = i
    BY <1>1
  <2> HIDE DEF j
  <2>2. u[j] = b[i]
    BY Zenon, <2>1, <1>9
  <2> QED BY Zenon, <2>2, <1>7 DEF j
<1> QED BY Zenon, <1>10, <1>11, <1>12 DEF u

\* The queue grows behind what is in the stream.
LEMMA SpelledAppend ==
  ASSUME NEW s \in Seq(Messages), NEW msg \in Messages, NEW B \in Seq(Bytes),
         NEW base \in Nat, Spelled(s, base, B), base + Len(B) <= Ends(s)[Len(s)]
  PROVE  Spelled(Append(s, msg), base, B)
<1> DEFINE a == Append(s, msg)
<1>1. /\ a \in Seq(Messages) /\ Len(a) = Len(s) + 1 /\ Len(s) \in Nat
      /\ \A i \in 1..Len(s) : a[i] = s[i]
  OBVIOUS
<1>2. \A i \in 0..Len(s) : Ends(a)[i] = Ends(s)[i]
  BY Zenon, EndsAppend
<1>3. Ends(s) \in [0..Len(s) -> Nat] /\ Len(B) \in Nat
  BY EndsSums
<1> HIDE DEF a
<1> SUFFICES ASSUME NEW x \in 1..Len(B), NEW i \in 1..Len(a),
                    Ends(a)[i - 1] < base + x, base + x <= Ends(a)[i]
             PROVE  B[x] = Unparse(a[i])[base + x - Ends(a)[i - 1]]
  BY Zenon DEF Spelled, a
<1>4. i # Len(s) + 1
  BY SMTT(30), <1>1, <1>2, <1>3
<1>5. i \in 1..Len(s) /\ i - 1 \in 0..Len(s) /\ i \in 0..Len(s)
  BY <1>1, <1>4
<1> QED BY SMTT(30), <1>1, <1>2, <1>5 DEF Spelled

\* The stream loses bytes at its end when the sender fails.
LEMMA SpelledCut ==
  ASSUME NEW s, NEW base, NEW B, Spelled(s, base, B), NEW C, Len(C) \in Nat, Len(B) \in Nat,
         Len(C) <= Len(B), \A x \in 1..Len(C) : C[x] = B[x]
  PROVE  Spelled(s, base, C)
  BY DEF Spelled

\* The next message follows what is in the stream.
LEMMA SpelledNext ==
  ASSUME NEW s \in Seq(Messages), NEW B \in Seq(Bytes), NEW base \in Nat,
         Spelled(s, base, B), NEW k \in 1..Len(s), base + Len(B) = Ends(s)[k - 1]
  PROVE  Spelled(s, base, B \o Unparse(s[k])) /\ base + Len(B \o Unparse(s[k])) = Ends(s)[k]
<1> DEFINE u == Unparse(s[k])
           C == B \o u
<1>1. s[k] \in Messages /\ u \in Seq(Bytes) /\ Len(u) = Size(s[k])
      /\ Size(s[k]) \in Nat \ {0} /\ Len(B) \in Nat /\ Len(s) \in Nat
  BY UnparseBytes, UnparseType
<1> HIDE DEF u
<1>2. /\ Len(C) = Len(B) + Size(s[k])
      /\ \A x \in 1..Len(B) + Size(s[k]) : C[x] = IF x <= Len(B) THEN B[x] ELSE u[x - Len(B)]
  <2>1. /\ Len(B \o u) = Len(B) + Len(u)
        /\ \A x \in 1..Len(B) + Len(u) :
             (B \o u)[x] = IF x <= Len(B) THEN B[x] ELSE u[x - Len(B)]
    BY Zenon, <1>1, ConcatProperties
  <2> QED BY Zenon, <1>1, <2>1
<1>3. Ends(s) \in [0..Len(s) -> Nat] /\ Ends(s)[k] = Ends(s)[k - 1] + Size(s[k])
  BY Zenon, EndsSums
<1> HIDE DEF C
<1>4. base + Len(C) = Ends(s)[k]
  BY <1>1, <1>2, <1>3
<1>5. ASSUME NEW x \in 1..Len(C), NEW i \in 1..Len(s),
             Ends(s)[i - 1] < base + x, base + x <= Ends(s)[i]
      PROVE  C[x] = Unparse(s[i])[base + x - Ends(s)[i - 1]]
  <2>1. CASE x <= Len(B)
    <3>1. x \in 1..Len(B) /\ x \in 1..Len(B) + Size(s[k])
      BY <2>1, <1>1
    <3>2. C[x] = B[x]
      BY Zenon, <2>1, <3>1, <1>2
    <3> QED BY Zenon, <3>1, <3>2, <1>5 DEF Spelled
  <2>2. CASE x > Len(B)
    <3>1. Ends(s)[k - 1] < base + x /\ base + x <= Ends(s)[k]
      BY SMTT(30), <2>2, <1>1, <1>2, <1>4
    <3>2. /\ i - 1 \in 0..Len(s) /\ i \in 0..Len(s) /\ k - 1 \in 0..Len(s) /\ k \in 0..Len(s)
          /\ Ends(s)[i] \in Nat /\ Ends(s)[k] \in Nat
          /\ Ends(s)[i - 1] \in Nat /\ Ends(s)[k - 1] \in Nat
      <4>1. i - 1 \in 0..Len(s) /\ i \in 0..Len(s) /\ k - 1 \in 0..Len(s) /\ k \in 0..Len(s)
        BY <1>1
      <4> QED BY Zenon, <4>1, <1>3
    <3>3. ~(i < k)
      <4> SUFFICES ASSUME i < k PROVE FALSE
        BY Zenon
      <4>1. i = k - 1 \/ i < k - 1
        BY <3>2
      <4>2. i < k - 1 => Ends(s)[i] < Ends(s)[k - 1]
        BY Zenon, <3>2, EndsGrow
      <4>3. Ends(s)[i] <= Ends(s)[k - 1]
        BY SMTT(30), <3>2, <4>1, <4>2
      <4> QED BY SMTT(30), <4>3, <3>1, <3>2, <1>5
    <3>4. ~(k < i)
      <4> SUFFICES ASSUME k < i PROVE FALSE
        BY Zenon
      <4>1. k = i - 1 \/ k < i - 1
        BY <3>2
      <4>2. k < i - 1 => Ends(s)[k] < Ends(s)[i - 1]
        BY Zenon, <3>2, EndsGrow
      <4>3. Ends(s)[k] <= Ends(s)[i - 1]
        BY SMTT(30), <3>2, <4>1, <4>2
      <4> QED BY SMTT(30), <4>3, <3>1, <3>2, <1>5
    <3>5. i = k
      BY <3>2, <3>3, <3>4
    <3>6. base + x - Ends(s)[k - 1] = x - Len(B) /\ C[x] = u[x - Len(B)]
      <4>1. Len(B) \in Nat /\ Size(s[k]) \in Nat /\ x \in 1..Len(B) + Size(s[k])
        BY Zenon, <1>1, <1>2
      <4>2. base + x - Ends(s)[k - 1] = x - Len(B)
        BY SMTT(30), <3>2, <4>1
      <4>3. ~(x <= Len(B))
        BY <2>2, <4>1
      <4>4. C[x] = u[x - Len(B)]
        BY Zenon, <1>2, <4>1, <4>3
      <4> QED BY Zenon, <4>2, <4>4
    <3> QED BY Zenon, <3>5, <3>6 DEF u
  <2> QED BY <2>1, <2>2, <1>1
<1> QED BY Zenon, <1>4, <1>5 DEF Spelled, C, u

\* The stream begins with the bytes of the message that is next.
LEMMA SpelledFirst ==
  ASSUME NEW s \in Seq(Messages), NEW B \in Seq(Bytes), NEW r \in 0..Len(s) - 1,
         Spelled(s, Ends(s)[r], B), NEW x \in 1..Len(B), x <= Size(s[r + 1])
  PROVE  B[x] = Unparse(s[r + 1])[x]
<1>1. r + 1 \in 1..Len(s) /\ r + 1 - 1 = r /\ r \in 0..Len(s) /\ x \in Nat \ {0}
  OBVIOUS
<1>2. Ends(s)[r] \in Nat /\ Ends(s)[r + 1] = Ends(s)[r] + Size(s[r + 1])
  <2>1. Ends(s) \in [0..Len(s) -> Nat]
        /\ \A i \in 1..Len(s) : Ends(s)[i] = Ends(s)[i - 1] + Size(s[i])
    BY Zenon, EndsSums
  <2> QED BY SMTT(30), <2>1, <1>1
<1>3. Size(s[r + 1]) \in Nat
  <2>1. s[r + 1] \in Messages
    BY <1>1
  <2> QED BY Zenon, <2>1, UnparseBytes
<1>4. Ends(s)[r] < Ends(s)[r] + x /\ Ends(s)[r] + x <= Ends(s)[r + 1]
      /\ Ends(s)[r] + x - Ends(s)[r] = x
  BY <1>1, <1>2, <1>3
<1> DEFINE b == Ends(s)[r]
<1>5. \A i \in 1..Len(s) : Ends(s)[i - 1] < b + x /\ b + x <= Ends(s)[i]
                           => B[x] = Unparse(s[i])[b + x - Ends(s)[i - 1]]
  BY Zenon DEF Spelled
<1>6. /\ Ends(s)[(r + 1) - 1] < b + x /\ b + x <= Ends(s)[r + 1]
      /\ b + x - Ends(s)[(r + 1) - 1] = x
  <2>1. (r + 1) - 1 = r
    BY <1>1
  <2> QED BY Zenon, <1>4, <2>1
<1>7. B[x] = Unparse(s[r + 1])[b + x - Ends(s)[(r + 1) - 1]]
  BY Zenon, <1>1, <1>5, <1>6
<1> QED BY Zenon, <1>6, <1>7

\* A message is taken off the front of the stream.
LEMMA SpelledDrop ==
  ASSUME NEW s \in Seq(Messages), NEW B \in Seq(Bytes), NEW base \in Nat,
         Spelled(s, base, B), NEW d \in 0..Len(B)
  PROVE  Spelled(s, base + d, SubSeq(B, d + 1, Len(B)))
<1> DEFINE C == SubSeq(B, d + 1, Len(B))
<1>1. Len(B) \in Nat /\ d + 1 \in Int /\ \A i \in d + 1..Len(B) : B[i] \in Bytes
  OBVIOUS
<1>2. /\ Len(C) = IF d + 1 <= Len(B) THEN Len(B) - (d + 1) + 1 ELSE 0
      /\ \A i \in 1..Len(B) - (d + 1) + 1 : C[i] = B[d + 1 + i - 1]
  BY <1>1, SubSeqProperties
<1>3. Len(C) = Len(B) - d
  BY <1>1, <1>2
<1>4. Ends(s) \in [0..Len(s) -> Nat] /\ Len(s) \in Nat
  BY EndsSums
<1> HIDE DEF C
<1> SUFFICES ASSUME NEW x \in 1..Len(C), NEW i \in 1..Len(s),
                    Ends(s)[i - 1] < base + d + x, base + d + x <= Ends(s)[i]
             PROVE  C[x] = Unparse(s[i])[base + d + x - Ends(s)[i - 1]]
  BY Zenon, SMTT(30) DEF Spelled, C
<1>5. d + x \in 1..Len(B) /\ C[x] = B[d + x]
  <2>1. x \in 1..Len(B) - (d + 1) + 1 /\ d + 1 + x - 1 = d + x /\ d + x \in 1..Len(B)
    BY <1>1, <1>3
  <2> QED BY Zenon, <2>1, <1>2
<1>6. base + (d + x) = base + d + x
  BY <1>3, <1>1
<1> DEFINE p == d + x
           e == Ends(s)[i - 1]
<1>7. p \in 1..Len(B) /\ base + p = base + d + x /\ C[x] = B[p] /\ p \in Int
  BY <1>5, <1>6
<1>8. e \in Int
  BY SMTT(30), <1>4
<1> HIDE DEF p
<1>9. B[p] = Unparse(s[i])[base + p - e]
  BY Zenon, <1>7 DEF Spelled
<1> HIDE DEF e
<1>10. base + p - e = base + d + x - e
  BY <1>7, <1>8
<1>11. B[p] = Unparse(s[i])[base + d + x - e]
  BY Zenon, <1>9, <1>10
<1> QED BY Zenon, <1>7, <1>11 DEF e

\* parse_message: what has the bytes of a message is that message.
LEMMA ParseFirst ==
  ASSUME NEW msg \in Messages, NEW buf \in Seq(Bytes), Len(buf) >= MSGHDR_SIZE,
         \A x \in 1..Len(buf) : x <= Size(msg) => buf[x] = Unparse(msg)[x]
  PROVE  /\ MsgSize(buf) = BodyLen[msg]
         /\ Len(buf) = Size(msg) => \A m \in Parse(buf) : m = msg
<1>1. MSGHDR_SIZE \in Nat \ {0} /\ BodyLen \in [Messages -> Nat \ {0}] /\ Len(buf) \in Nat
  BY MsgChanAssumption
<1>2. \A i \in 1..MSGHDR_SIZE : Unparse(msg)[i] = HdrByte(BodyLen[msg], i)
  BY Zenon, UnparseBytes
<1>3. \A i \in 1..BodyLen[msg] : Unparse(msg)[MSGHDR_SIZE + i] = BodyByte(msg, i)
  BY Zenon, UnparseBytes
<1>4. ASSUME NEW i \in 1..MSGHDR_SIZE PROVE buf[i] = HdrByte(BodyLen[msg], i)
  <2>1. i \in 1..Len(buf) /\ i <= Size(msg)
    BY <1>1 DEF Size
  <2> QED BY Zenon, <2>1, <1>2
<1>5. MsgSize(buf) = BodyLen[msg]
  <2>1. 1 \in 1..MSGHDR_SIZE
    BY <1>1
  <2>2. buf[1] = HdrByte(BodyLen[msg], 1)
    BY Zenon, <2>1, <1>4
  <2>3. buf[1][2] = BodyLen[msg]
    BY <2>2 DEF HdrByte
  <2> QED BY Zenon, <2>3, <1>4 DEF MsgSize
<1>6. ASSUME Len(buf) = Size(msg), NEW m \in Parse(buf) PROVE m = msg
  <2> DEFINE sub == SubSeq(buf, MSGHDR_SIZE + 1, Len(buf))
  <2>1. m \in Messages /\ sub = [i \in 1..BodyLen[m] |-> BodyByte(m, i)]
    BY Zenon DEF Parse
  <2>2. MSGHDR_SIZE + 1 \in 1..Len(buf) /\ MSGHDR_SIZE + 1 <= Size(msg) /\ 1 \in 1..BodyLen[msg]
    BY <1>1, <1>6 DEF Size
  <2>3. buf[MSGHDR_SIZE + 1] = BodyByte(msg, 1)
    BY Zenon, <2>2, <1>3
  <2>4. sub[1] = buf[MSGHDR_SIZE + 1]
    <3>1. \A i \in 1..Len(buf) - (MSGHDR_SIZE + 1) + 1 : sub[i] = buf[MSGHDR_SIZE + 1 + i - 1]
      BY <1>1, SubSeqProperties
    <3>2. 1 \in 1..Len(buf) - (MSGHDR_SIZE + 1) + 1 /\ MSGHDR_SIZE + 1 + 1 - 1 = MSGHDR_SIZE + 1
      BY <1>1, <2>2
    <3> QED BY Zenon, <3>1, <3>2
  <2>5. 1 \in 1..BodyLen[m]
    BY <1>1, <2>1
  <2>6. sub[1] = BodyByte(m, 1)
    BY Zenon, <2>1, <2>5
  <2> HIDE DEF sub
  <2>7. BodyByte(m, 1) = BodyByte(msg, 1)
    BY <2>3, <2>4, <2>6, Zenon
  <2>8. BodyByte(m, 1)[2] = m /\ BodyByte(msg, 1)[2] = msg
    BY Zenon DEF BodyByte
  <2> QED BY <2>7, <2>8, Zenon
<1> QED BY Zenon, <1>5, <1>6

\* A part of a sequence, by the positions between which it lies.
LEMMA Slice ==
  ASSUME NEW S, NEW s \in Seq(S), NEW a \in 0..Len(s), NEW b \in a..Len(s)
  PROVE  /\ SubSeq(s, a + 1, b) \in Seq(S) /\ Len(SubSeq(s, a + 1, b)) = b - a
         /\ \A i \in 1..b - a : SubSeq(s, a + 1, b)[i] = s[a + i]
<1>1. a + 1 \in Int /\ b \in Int /\ a \in Int /\ Len(s) \in Nat
      /\ \A i \in a + 1..b : s[i] \in S
  OBVIOUS
<1> DEFINE t == SubSeq(s, a + 1, b)
<1>2. /\ t \in Seq(S)
      /\ Len(t) = IF a + 1 <= b THEN b - (a + 1) + 1 ELSE 0
      /\ \A i \in 1..b - (a + 1) + 1 : t[i] = s[a + 1 + i - 1]
  BY <1>1, SubSeqProperties
<1> HIDE DEF t
<1>3. Len(t) = b - a
  BY <1>1, <1>2
<1>4. ASSUME NEW i \in 1..b - a PROVE t[i] = s[a + i]
  <2>1. i \in 1..b - (a + 1) + 1 /\ a + 1 + i - 1 = a + i
    BY <1>1
  <2> QED BY Zenon, <2>1, <1>2
<1> QED BY Zenon, <1>2, <1>3, <1>4 DEF t

\* Where the messages end grows with their number.
LEMMA EndsOrder ==
  ASSUME NEW s \in Seq(Messages), NEW i \in 0..Len(s), NEW j \in i..Len(s)
  PROVE  /\ Ends(s)[i] \in Nat /\ Ends(s)[j] \in Nat
         /\ Ends(s)[i] <= Ends(s)[j]
<1>1. Len(s) \in Nat /\ i \in 0..Len(s) /\ j \in 0..Len(s) /\ (i < j \/ i = j)
  OBVIOUS
<1>2. Ends(s)[i] \in Nat /\ Ends(s)[j] \in Nat
  <2>1. Ends(s) \in [0..Len(s) -> Nat]
    BY Zenon, EndsSums
  <2> QED BY <1>1, <2>1, Zenon
<1>3. i < j => Ends(s)[i] < Ends(s)[j]
  BY Zenon, <1>1, EndsGrow
<1> QED BY <1>1, <1>2, <1>3

\* What the stream begins with is a matter of its length.
LEMMA BeginsLength ==
  ASSUME NEW s \in Seq(Messages), NEW B \in Seq(Bytes), NEW r \in 0..Len(s),
         Spelled(s, Ends(s)[r], B), NEW i \in r..Len(s)
  PROVE  Begins(B, s, r, i) <=> Ends(s)[i] <= Ends(s)[r] + Len(B)
<1> DEFINE base == Ends(s)[r]
           last == Ends(s)[i]
<1>1. Len(s) \in Nat /\ Len(B) \in Nat /\ base \in Nat /\ last \in Nat
  BY EndsOrder
<1>2. Begins(B, s, r, i) <=>
        /\ last - base <= Len(B)
        /\ \A j \in r + 1..i :
             SubSeq(B, Ends(s)[j - 1] - base + 1, Ends(s)[j] - base) = Unparse(s[j])
  BY Zenon DEF Begins
<1>3. ASSUME last <= base + Len(B), NEW j \in r + 1..i
      PROVE  SubSeq(B, Ends(s)[j - 1] - base + 1, Ends(s)[j] - base) = Unparse(s[j])
  <2> DEFINE e == Ends(s)[j - 1]
             f == Ends(s)[j]
             z == Size(s[j])
             u == Unparse(s[j])
  <2>1. j \in 1..Len(s) /\ j - 1 \in r..Len(s) /\ j \in 0..Len(s) /\ i \in j..Len(s)
        /\ s[j] \in Messages
    BY <1>1
  <2>2. base <= e /\ e \in Nat
    BY Zenon, <2>1, EndsOrder
  <2>3. f <= last /\ f \in Nat
    BY Zenon, <2>1, EndsOrder
  <2>4. f = e + z
    BY Zenon, <2>1, EndsSums
  <2>5. u \in Seq(Bytes) /\ Len(u) = z /\ z \in Nat
    BY Zenon, <2>1, UnparseType, UnparseBytes
  <2>6. \A x \in 1..Len(B) : e < base + x /\ base + x <= f => B[x] = u[base + x - e]
    BY Zenon, <2>1 DEF Spelled
  <2> DEFINE a == e - base
             b == f - base
             C == SubSeq(B, a + 1, b)
  <2> HIDE DEF e, f, u, z, base, last
  <2>7. a \in 0..Len(B) /\ b \in a..Len(B) /\ b - a = z
    BY <1>1, <1>3, <2>2, <2>3, <2>4, <2>5
  <2>8. \A x \in 1..z : /\ a + x \in 1..Len(B) /\ e < base + (a + x) /\ base + (a + x) <= f
                        /\ base + (a + x) - e = x
    BY <1>1, <1>3, <2>2, <2>3, <2>4, <2>5
  <2> HIDE DEF a, b
  <2>9. C \in Seq(Bytes) /\ Len(C) = b - a /\ \A x \in 1..b - a : C[x] = B[a + x]
    BY Zenon, <2>7, Slice
  <2> HIDE DEF C
  <2>10. ASSUME NEW x \in 1..z PROVE C[x] = u[x]
    <3>1. C[x] = B[a + x]
      BY Zenon, <2>7, <2>9
    <3>2. B[a + x] = u[base + (a + x) - e]
      BY Zenon, <2>6, <2>8
    <3>3. base + (a + x) - e = x
      BY Zenon, <2>8
    <3> QED BY <3>1, <3>2, <3>3, Zenon
  <2>11. C = u
    BY <2>5, <2>7, <2>9, <2>10, SeqEqual
  <2> QED BY Zenon, <2>11 DEF C, u, a, b, e, f
<1> HIDE DEF base, last
<1>4. last - base <= Len(B) <=> last <= base + Len(B)
  BY <1>1
<1> QED BY Zenon, <1>2, <1>3, <1>4 DEF base, last

\* Carried: the last message that ends within the stream.
LEMMA CarriedIs ==
  ASSUME NEW s \in Seq(Messages), NEW B \in Seq(Bytes), NEW r \in 0..Len(s),
         Spelled(s, Ends(s)[r], B), NEW c \in r..Len(s),
         Ends(s)[c] <= Ends(s)[r] + Len(B),
         c < Len(s) => Ends(s)[r] + Len(B) < Ends(s)[c + 1]
  PROVE  Carried(B, s, r) = c
<1> DEFINE E == Ends(s)
           L == E[r] + Len(B)
           P(i) == Begins(B, s, r, i) /\ (i < Len(s) => ~Begins(B, s, r, i + 1))
<1>1. Len(s) \in Nat /\ L \in Nat
  <2>1. E[r] \in Nat /\ Len(B) \in Nat
    BY EndsOrder
  <2> HIDE DEF E
  <2> QED BY <2>1
<1>2. \A m \in 0..Len(s) : \A n \in m..Len(s) : E[m] \in Nat /\ E[n] \in Nat /\ E[m] <= E[n]
  BY Zenon, EndsOrder
<1>3. \A i \in r..Len(s) : Begins(B, s, r, i) <=> E[i] <= L
  BY Zenon, BeginsLength
<1>4. Carried(B, s, r) = CHOOSE i \in r..Len(s) : P(i)
  BY Zenon DEF Carried
<1>5. E[c] <= L /\ (c < Len(s) => L < E[c + 1])
  BY Zenon
<1> HIDE DEF E, L
<1>6. P(c)
  <2>1. ASSUME c < Len(s) PROVE c + 1 \in r..Len(s) /\ ~(E[c + 1] <= L)
    <3>1. c + 1 \in r..Len(s) /\ c + 1 \in 0..Len(s) /\ c + 1 \in c + 1..Len(s)
      BY <1>1, <2>1
    <3>2. E[c + 1] \in Nat
      BY Zenon, <1>2, <3>1
    <3> QED BY <1>1, <1>5, <2>1, <3>1, <3>2
  <2> QED BY <1>3, <1>5, <2>1
<1>7. ASSUME NEW d \in r..Len(s), P(d) PROVE d = c
  <2>1. d \in 0..Len(s) /\ c \in 0..Len(s) /\ r \in Nat
    BY <1>1
  <2>2. E[d] <= L
    BY Zenon, <1>3, <1>7
  <2>3. CASE d < c
    <3>1. d + 1 \in r..Len(s) /\ d < Len(s) /\ d + 1 \in 0..Len(s) /\ c \in d + 1..Len(s)
      BY <2>1, <2>3, <1>1
    <3>2. ~(E[d + 1] <= L)
      BY Zenon, <1>3, <1>7, <3>1
    <3>3. E[d + 1] <= E[c] /\ E[d + 1] \in Nat /\ E[c] \in Nat
      BY Zenon, <1>2, <3>1
    <3> QED BY <1>1, <1>5, <3>2, <3>3
  <2>4. CASE c < d
    <3>1. c < Len(s) /\ c + 1 \in 0..Len(s) /\ d \in c + 1..Len(s)
      BY <2>1, <2>4, <1>1
    <3>2. E[c + 1] <= E[d] /\ E[c + 1] \in Nat /\ E[d] \in Nat
      BY Zenon, <1>2, <3>1
    <3> QED BY <1>1, <1>5, <2>2, <3>1, <3>2
  <2> QED BY <2>1, <2>3, <2>4
<1> HIDE DEF P
<1> QED BY Zenon, <1>4, <1>6, <1>7

-----------------------------------------------------------------------------
\* Of the messages s the receiver was handed r; B are the bytes before its parser.
Flow(s, r, B) ==
  /\ r \in 0..Len(s)
  /\ Spelled(s, Ends(s)[r], B)
  /\ Ends(s)[r] + Len(B) <= Ends(s)[Len(s)]

\* The bytes end with a message, and the queue q holds those after it.
Aligned(s, r, B, q) ==
  \E n \in r..Len(s) :
    Ends(s)[r] + Len(B) = Ends(s)[n] /\ q = SubSeq(s, n + 1, Len(s))

\* UnderWay, of any messages and bytes.
Way(s, r, B, q) == SubSeq(s, r + 1, Carried(B, s, r)) \o q

\* The last message that the bytes hold whole.
LEMMA CarriedExists ==
  ASSUME NEW s \in Seq(Messages), NEW B \in Seq(Bytes), NEW r, Flow(s, r, B)
  PROVE  LET c == Carried(B, s, r)
         IN /\ c \in r..Len(s)
            /\ Ends(s)[c] <= Ends(s)[r] + Len(B)
            /\ c < Len(s) => Ends(s)[r] + Len(B) < Ends(s)[c + 1]
<1> DEFINE E == Ends(s)
           L == E[r] + Len(B)
           T == {i \in 0..Len(s) : i > r /\ L < E[i]}
<1>1. r \in 0..Len(s) /\ Spelled(s, E[r], B) /\ Len(s) \in Nat
  BY DEF Flow
<1>2. E[r] \in Nat /\ Len(B) \in Nat
  BY <1>1, EndsOrder
<1>3. \A i \in 0..Len(s) : E[i] \in Nat
  BY Zenon, EndsSums
<1>4. \A c \in r..Len(s) : E[c] <= L /\ (c < Len(s) => L < E[c + 1]) => Carried(B, s, r) = c
  BY Zenon, <1>1, CarriedIs
<1>5. E[r] <= L /\ L \in Nat
  <2> HIDE DEF E
  <2> QED BY <1>2
<1> HIDE DEF E, L
<1>6. \E c \in r..Len(s) : E[c] <= L /\ (c < Len(s) => L < E[c + 1])
  <2>1. CASE T = {}
    <3>1. Len(s) \in r..Len(s) /\ Len(s) \in 0..Len(s) /\ E[Len(s)] \in Nat
      BY <1>1, <1>3
    <3>2. E[Len(s)] <= L
      <4>1. CASE r = Len(s)
        BY Zenon, <4>1, <1>5
      <4>2. CASE r # Len(s)
        <5>1. Len(s) > r /\ Len(s) \notin T
          BY <1>1, <2>1, <4>2
        <5> QED BY <5>1, <3>1, <1>5
      <4> QED BY Zenon, <4>1, <4>2
    <3> QED BY <3>1, <3>2, <1>1
  <2>2. CASE T # {}
    <3>1. T \in SUBSET (0..Len(s))
      BY Zenon
    <3>2. PICK x \in T : \A y \in T : x <= y
      <4> HIDE DEF T
      <4> QED BY Zenon, <1>1, <2>2, <3>1, Least
    <3>3. x \in 0..Len(s) /\ x > r /\ L < E[x]
      BY Zenon
    <3>4. x - 1 \in r..Len(s) /\ x - 1 \in 0..Len(s) /\ x - 1 + 1 = x
      BY <1>1, <3>3
    <3>5. x - 1 \notin T
      <4> HIDE DEF T
      <4> QED BY <3>2, <3>3
    <3>6. E[x - 1] <= L
      <4>1. CASE x - 1 = r
        BY Zenon, <4>1, <1>5
      <4>2. CASE x - 1 > r
        <5>1. ~(L < E[x - 1]) /\ E[x - 1] \in Nat
          BY Zenon, <4>2, <3>4, <3>5, <1>3
        <5> QED BY <5>1, <1>5
      <4> QED BY <4>1, <4>2, <3>4, <1>1
    <3> QED BY Zenon, <3>3, <3>4, <3>6
  <2> QED BY Zenon, <2>1, <2>2
<1>7. PICK c \in r..Len(s) : E[c] <= L /\ (c < Len(s) => L < E[c + 1])
  BY Zenon, <1>6
<1>8. Carried(B, s, r) = c
  BY Zenon, <1>4, <1>7
<1> QED BY Zenon, <1>7, <1>8 DEF E, L

\* While the sender is open, all that was queued and not received is under way.
LEMMA WayOpen ==
  ASSUME NEW s \in Seq(Messages), NEW B \in Seq(Bytes), NEW r, NEW q,
         Flow(s, r, B), Aligned(s, r, B, q)
  PROVE  Way(s, r, B, q) = SubSeq(s, r + 1, Len(s))
<1>1. r \in 0..Len(s) /\ Spelled(s, Ends(s)[r], B) /\ Len(s) \in Nat
  BY DEF Flow
<1>2. PICK n \in r..Len(s) : Ends(s)[r] + Len(B) = Ends(s)[n] /\ q = SubSeq(s, n + 1, Len(s))
  BY Zenon DEF Aligned
<1>3. n \in 0..Len(s) /\ Ends(s)[n] \in Nat
  BY <1>1, EndsOrder
<1>4. n < Len(s) => Ends(s)[n] < Ends(s)[n + 1]
  BY <1>1, <1>3, EndsGrow
<1>5. Carried(B, s, r) = n
  BY <1>1, <1>2, <1>3, <1>4, CarriedIs
<1>6. r + 1 \in 1..Len(s) + 1 /\ n \in (r + 1) - 1..Len(s) /\ Len(s) \in n..Len(s)
  BY <1>1
<1>7. SubSeq(s, r + 1, n) \o SubSeq(s, n + 1, Len(s)) = SubSeq(s, r + 1, Len(s))
  BY Zenon, <1>6, ConcatAdjacentSubSeq
<1> QED BY <1>2, <1>5, <1>7, Zenon DEF Way

\* A message is queued.
LEMMA FlowAppend ==
  ASSUME NEW s \in Seq(Messages), NEW msg \in Messages, NEW B \in Seq(Bytes), NEW r,
         Flow(s, r, B)
  PROVE  Flow(Append(s, msg), r, B)
<1> DEFINE a == Append(s, msg)
<1>1. r \in 0..Len(s) /\ Spelled(s, Ends(s)[r], B) /\ Len(s) \in Nat /\ Len(B) \in Nat
      /\ Ends(s)[r] + Len(B) <= Ends(s)[Len(s)]
  BY DEF Flow
<1>2. a \in Seq(Messages) /\ Len(a) = Len(s) + 1
  OBVIOUS
<1>3. r \in 0..Len(a) /\ Len(s) \in 0..Len(s) /\ Len(a) \in Len(s)..Len(a) /\ Len(s) \in 0..Len(a)
  BY <1>1, <1>2
<1>4. Ends(a)[r] = Ends(s)[r] /\ Ends(a)[Len(s)] = Ends(s)[Len(s)]
  BY Zenon, <1>1, <1>3, EndsAppend
<1>5. Ends(s)[r] \in Nat
  BY <1>1, EndsOrder
<1>6. Spelled(a, Ends(s)[r], B)
  BY Zenon, <1>1, <1>5, SpelledAppend
<1>7. Ends(a)[Len(s)] <= Ends(a)[Len(a)] /\ Ends(a)[Len(s)] \in Nat /\ Ends(a)[Len(a)] \in Nat
  <2> HIDE DEF a
  <2> QED BY Zenon, <1>2, <1>3, EndsOrder
<1> HIDE DEF a
<1>8. Ends(a)[r] + Len(B) <= Ends(a)[Len(a)]
  BY <1>1, <1>4, <1>5, <1>7
<1>9. Spelled(a, Ends(a)[r], B)
  BY <1>4, <1>6, Zenon
<1>10. Flow(a, r, B)
  BY Zenon, <1>3, <1>8, <1>9 DEF Flow
<1> QED BY Zenon, <1>10 DEF a

LEMMA SliceAppend ==
  ASSUME NEW s \in Seq(Messages), NEW msg \in Messages, NEW n \in 0..Len(s)
  PROVE  SubSeq(Append(s, msg), n + 1, Len(Append(s, msg))) = Append(SubSeq(s, n + 1, Len(s)), msg)
<1> DEFINE a == Append(s, msg)
           t == SubSeq(a, n + 1, Len(a))
           q == SubSeq(s, n + 1, Len(s))
           p == Append(q, msg)
<1>1. /\ a \in Seq(Messages) /\ Len(a) = Len(s) + 1 /\ Len(s) \in Nat
      /\ a[Len(s) + 1] = msg /\ \A i \in 1..Len(s) : a[i] = s[i]
  OBVIOUS
<1>2. n \in 0..Len(a) /\ Len(a) \in n..Len(a) /\ Len(s) \in n..Len(s)
  BY <1>1
<1> HIDE DEF a
<1>3. t \in Seq(Messages) /\ Len(t) = Len(a) - n /\ \A i \in 1..Len(a) - n : t[i] = a[n + i]
  BY <1>1, <1>2, Slice
<1>4. q \in Seq(Messages) /\ Len(q) = Len(s) - n /\ \A i \in 1..Len(s) - n : q[i] = s[n + i]
  BY Zenon, <1>1, <1>2, Slice
<1> HIDE DEF t, q
<1>5. /\ p \in Seq(Messages) /\ Len(p) = Len(q) + 1
      /\ \A i \in 1..Len(q) : p[i] = q[i]
      /\ p[Len(q) + 1] = msg
  BY <1>4, AppendProperties
<1> HIDE DEF p
<1>6. Len(p) = Len(t)
  BY <1>1, <1>2, <1>3, <1>4, <1>5
<1>7. ASSUME NEW i \in 1..Len(p) PROVE p[i] = t[i]
  <2>1. i \in 1..Len(a) - n
    BY Zenon, <1>3, <1>6, <1>1, <1>2
  <2>2. CASE i = Len(q) + 1
    <3>1. n + i = Len(s) + 1
      BY <2>2, <1>1, <1>2, <1>4
    <3> QED BY Zenon, <3>1, <2>1, <2>2, <1>1, <1>3, <1>5
  <2>3. CASE i # Len(q) + 1
    <3>0. Len(p) = Len(q) + 1 /\ Len(q) = Len(s) - n /\ n \in Nat /\ n <= Len(s)
      BY <1>1, <1>4, <1>5
    <3>1. i \in 1..Len(q) /\ i \in 1..Len(s) - n /\ n + i \in 1..Len(s)
      BY SMTT(30), <2>3, <3>0, <1>1
    <3>2. p[i] = q[i] /\ q[i] = s[n + i]
      BY Zenon, <3>1, <1>4, <1>5
    <3>3. t[i] = a[n + i] /\ a[n + i] = s[n + i]
      BY Zenon, <3>1, <2>1, <1>1, <1>3
    <3> QED BY <3>2, <3>3, Zenon
  <2> QED BY Zenon, <2>2, <2>3
<1>8. p = t
  <2>1. Len(p) = Len(t) /\ \A i \in 1..Len(p) : p[i] = t[i]
    BY Zenon, <1>6, <1>7
  <2> QED BY Zenon, <1>3, <1>5, <2>1, SeqEqual
<1> QED BY Zenon, <1>8 DEF t, p, q, a

LEMMA AlignedAppend ==
  ASSUME NEW s \in Seq(Messages), NEW msg \in Messages, NEW B \in Seq(Bytes), NEW r, NEW q,
         r \in 0..Len(s), Aligned(s, r, B, q)
  PROVE  Aligned(Append(s, msg), r, B, Append(q, msg))
<1> DEFINE a == Append(s, msg)
<1>1. PICK n \in r..Len(s) : Ends(s)[r] + Len(B) = Ends(s)[n] /\ q = SubSeq(s, n + 1, Len(s))
  BY Zenon DEF Aligned
<1>2. n \in 0..Len(s) /\ n \in r..Len(a)
  OBVIOUS
<1>3. Ends(a)[r] = Ends(s)[r] /\ Ends(a)[n] = Ends(s)[n]
  BY Zenon, <1>2, EndsAppend
<1>4. SubSeq(a, n + 1, Len(a)) = Append(q, msg)
  BY Zenon, <1>1, <1>2, SliceAppend
<1> HIDE DEF a
<1>5. Aligned(a, r, B, Append(q, msg))
  BY Zenon, <1>1, <1>2, <1>3, <1>4 DEF Aligned
<1> QED BY Zenon, <1>5 DEF a

\* send_message takes the next message off the queue.
LEMMA FlowTake ==
  ASSUME NEW s \in Seq(Messages), NEW B \in Seq(Bytes), NEW r, NEW q \in Seq(Messages),
         Flow(s, r, B), Aligned(s, r, B, q), q # <<>>
  PROVE  LET C == B \o Unparse(Head(q))
         IN Flow(s, r, C) /\ Aligned(s, r, C, Tail(q))
<1>1. r \in 0..Len(s) /\ Spelled(s, Ends(s)[r], B) /\ Len(s) \in Nat
  BY DEF Flow
<1>2. PICK n \in r..Len(s) : Ends(s)[r] + Len(B) = Ends(s)[n] /\ q = SubSeq(s, n + 1, Len(s))
  BY Zenon DEF Aligned
<1>3. n < Len(s)
  <2>1. n \in 0..Len(s) /\ Len(s) \in n..Len(s)
    BY <1>1
  <2>2. Len(q) = Len(s) - n
    BY <1>2, <2>1, Slice
  <2>3. Len(q) > 0
    OBVIOUS
  <2> QED BY <2>1, <2>2, <2>3, <1>1
<1>4. n + 1 \in 1..Len(s) /\ n + 1 - 1 = n /\ Len(s) \in n + 1..Len(s) /\ n + 1 \in r..Len(s)
      /\ n + 1 \in 0..Len(s)
  BY <1>1, <1>3
<1>5. Head(q) = s[n + 1] /\ Tail(q) = SubSeq(s, n + 1 + 1, Len(s))
  BY Zenon, <1>2, <1>4, HeadTailOfSubSeq
<1>6. Ends(s)[r] \in Nat
  BY Zenon, <1>1, EndsOrder
<1> DEFINE C == B \o Unparse(s[n + 1])
<1>7. Spelled(s, Ends(s)[r], C) /\ Ends(s)[r] + Len(C) = Ends(s)[n + 1]
  BY <1>1, <1>2, <1>4, <1>6, SpelledNext
<1>8. Ends(s)[n + 1] <= Ends(s)[Len(s)]
  BY Zenon, <1>4, EndsOrder
<1> HIDE DEF C
<1>9. Flow(s, r, C)
  BY Zenon, <1>1, <1>7, <1>8 DEF Flow
<1>10. Aligned(s, r, C, Tail(q))
  BY Zenon, <1>4, <1>5, <1>7 DEF Aligned
<1> QED BY Zenon, <1>5, <1>9, <1>10 DEF C

\* The end of the stream is lost.
LEMMA FlowCut ==
  ASSUME NEW s \in Seq(Messages), NEW B \in Seq(Bytes), NEW r, Flow(s, r, B),
         NEW C \in Seq(Bytes), Len(C) <= Len(B), \A x \in 1..Len(C) : C[x] = B[x]
  PROVE  Flow(s, r, C)
<1>1. r \in 0..Len(s) /\ Spelled(s, Ends(s)[r], B) /\ Ends(s)[r] + Len(B) <= Ends(s)[Len(s)]
  BY Zenon DEF Flow
<1>2. Len(B) \in Nat /\ Len(C) \in Nat /\ Len(s) \in r..Len(s)
  BY <1>1
<1>3. Ends(s)[r] \in Nat /\ Ends(s)[Len(s)] \in Nat
  BY Zenon, <1>1, <1>2, EndsOrder
<1>4. Spelled(s, Ends(s)[r], C)
  BY Zenon, <1>1, <1>2, SpelledCut
<1>5. Ends(s)[r] + Len(C) <= Ends(s)[Len(s)]
  BY <1>1, <1>2, <1>3
<1> QED BY Zenon, <1>1, <1>4, <1>5 DEF Flow

\* Where the next message ends.
LEMMA EndsNext ==
  ASSUME NEW s \in Seq(Messages), NEW r \in Nat, r + 1 \in 1..Len(s)
  PROVE  Ends(s)[r + 1] = Ends(s)[r] + Size(s[r + 1])
<1> DEFINE j == r + 1
<1>1. j \in 1..Len(s) /\ j - 1 = r
  OBVIOUS
<1> HIDE DEF j
<1>2. Ends(s)[j] = Ends(s)[j - 1] + Size(s[j])
  BY Zenon, <1>1, EndsSums
<1>3. Ends(s)[j] = Ends(s)[r] + Size(s[j])
  BY <1>1, <1>2, Zenon
<1> QED BY Zenon, <1>3 DEF j

\* The first message is parsed: what follows it is unchanged.
LEMMA FlowDrop ==
  ASSUME NEW s \in Seq(Messages), NEW B \in Seq(Bytes), NEW r, Flow(s, r, B),
         r < Len(s), Size(s[r + 1]) <= Len(B)
  PROVE  LET D == SubSeq(B, Size(s[r + 1]) + 1, Len(B))
         IN /\ D \in Seq(Bytes) /\ Flow(s, r + 1, D)
            /\ \A q : Aligned(s, r, B, q) => Aligned(s, r + 1, D, q)
            /\ Carried(B, s, r) \in r + 1..Len(s)
            /\ Carried(D, s, r + 1) = Carried(B, s, r)
<1> DEFINE z == Size(s[r + 1])
           D == SubSeq(B, z + 1, Len(B))
           e == Ends(s)[r]
           f == Ends(s)[r + 1]
           c == Carried(B, s, r)
<1>1. r \in 0..Len(s) /\ Spelled(s, e, B) /\ Len(s) \in Nat /\ e + Len(B) <= Ends(s)[Len(s)]
      /\ Len(B) \in Nat
  BY DEF Flow
<1>2. r + 1 \in 1..Len(s) /\ r + 1 - 1 = r /\ s[r + 1] \in Messages /\ r + 1 \in 0..Len(s)
      /\ r + 1 \in r..Len(s)
  BY <1>1
<1>3. z \in Nat \ {0} /\ z \in 0..Len(B)
  <2>1. z \in Nat \ {0}
    BY Zenon, <1>2, UnparseBytes
  <2> HIDE DEF z
  <2> QED BY <2>1, <1>1 DEF z
<1>4. f = e + z /\ e \in Nat /\ f \in Nat
  <2>1. f = e + z
    BY <1>1, <1>2, EndsNext
  <2>2. e \in Nat /\ f \in Nat
    BY Zenon, <1>1, <1>2, EndsOrder
  <2> QED BY <2>1, <2>2
<1>5. Spelled(s, e + z, D)
  BY Zenon, <1>1, <1>3, <1>4, SpelledDrop
<1>6. D \in Seq(Bytes) /\ Len(D) = Len(B) - z
  <2> HIDE DEF z
  <2>1. Len(B) \in z..Len(B)
    BY <1>1, <1>3
  <2> QED BY <1>3, <2>1, Slice
<1> HIDE DEF D
<1>7. f + Len(D) = e + Len(B)
  <2> HIDE DEF e, f, z
  <2> QED BY <1>1, <1>3, <1>4, <1>6
<1>8. Spelled(s, f, D)
  BY Zenon, <1>4, <1>5
<1>9. Flow(s, r + 1, D)
  BY Zenon, <1>1, <1>2, <1>7, <1>8 DEF Flow
<1>10. c \in r..Len(s) /\ Ends(s)[c] <= e + Len(B)
       /\ (c < Len(s) => e + Len(B) < Ends(s)[c + 1])
  BY Zenon, CarriedExists
<1>11. \A n \in r..Len(s) : Ends(s)[n] >= f => n \in r + 1..Len(s)
  <2> SUFFICES ASSUME NEW n \in r..Len(s), Ends(s)[n] >= f PROVE n # r
    BY <1>1
  <2> QED BY <1>3, <1>4
<1>12. c \in r + 1..Len(s)
  <2> SUFFICES ASSUME c = r PROVE FALSE
    BY <1>1, <1>10
  <2>1. e + Len(B) < f
    BY <1>10
  <2> HIDE DEF e, f, z
  <2> QED BY <2>1, <1>1, <1>3, <1>4
<1>13. Carried(D, s, r + 1) = c
  <2> HIDE DEF c
  <2>1. Ends(s)[c] <= f + Len(D) /\ (c < Len(s) => f + Len(D) < Ends(s)[c + 1])
    BY Zenon, <1>7, <1>10
  <2> QED BY Zenon, <1>2, <1>6, <1>8, <1>12, <2>1, CarriedIs
<1>14. ASSUME NEW q, Aligned(s, r, B, q) PROVE Aligned(s, r + 1, D, q)
  <2>1. PICK n \in r..Len(s) : e + Len(B) = Ends(s)[n] /\ q = SubSeq(s, n + 1, Len(s))
    BY Zenon, <1>14 DEF Aligned
  <2>2. f <= e + Len(B)
    <3> HIDE DEF e, f, z
    <3> QED BY <1>1, <1>3, <1>4
  <2>3. n \in r + 1..Len(s)
    BY <1>11, <2>1, <2>2
  <2> QED BY <2>1, <2>3, <1>7 DEF Aligned
<1> QED BY Zenon, <1>6, <1>9, <1>12, <1>13, <1>14 DEF D

\* It was the first one under way.
LEMMA WayDrop ==
  ASSUME NEW s \in Seq(Messages), NEW B \in Seq(Bytes), NEW r, Flow(s, r, B),
         r < Len(s), Size(s[r + 1]) <= Len(B), NEW q \in Seq(Messages)
  PROVE  LET W == Way(s, r, B, q)
         IN /\ W # <<>> /\ Head(W) = s[r + 1]
            /\ Tail(W) = Way(s, r + 1, SubSeq(B, Size(s[r + 1]) + 1, Len(B)), q)
<1> DEFINE c == Carried(B, s, r)
           m == s[r + 1]
           y == SubSeq(s, r + 1 + 1, c)
           w == y \o q
<1>1. c \in r + 1..Len(s) /\ Carried(SubSeq(B, Size(s[r + 1]) + 1, Len(B)), s, r + 1) = c
  BY Zenon, FlowDrop
<1>2. r \in Nat /\ r + 1 \in 1..Len(s) /\ r + 1 \in 0..Len(s) /\ m \in Messages
  BY DEF Flow
<1> HIDE DEF c
<1>3. SubSeq(s, r + 1, c) = <<m>> \o y
  BY Zenon, <1>1, <1>2, SubSeqRecursiveFirst
<1>4. y \in Seq(Messages)
  BY Zenon, <1>1, <1>2, Slice
<1>5. Way(s, r, B, q) = (<<m>> \o y) \o q
  BY Zenon, <1>3 DEF Way, c
<1>6. Way(s, r + 1, SubSeq(B, Size(s[r + 1]) + 1, Len(B)), q) = w
  BY Zenon, <1>1 DEF Way
<1> HIDE DEF y, m
<1>7. <<m>> \in Seq(Messages)
  BY <1>2
<1>8. (<<m>> \o y) \o q = <<m>> \o w
  BY <1>4, <1>7, ConcatAssociative
<1>9. w \in Seq(Messages)
  BY Zenon, <1>4, ConcatProperties
<1> HIDE DEF w
<1>10. <<m>> \o w # <<>> /\ Head(<<m>> \o w) = m /\ Tail(<<m>> \o w) = w
  BY SMTT(30), <1>2, <1>9
<1> QED BY Zenon, <1>5, <1>6, <1>8, <1>10 DEF m

\* What is left of the stream keeps the oldest of the messages under way.
LEMMA WayCut ==
  ASSUME NEW s \in Seq(Messages), NEW B \in Seq(Bytes), NEW r, NEW q,
         Flow(s, r, B), Aligned(s, r, B, q), NEW C \in Seq(Bytes), Flow(s, r, C)
  PROVE  \E n \in 0..Len(Way(s, r, B, q)) :
           Way(s, r, C, <<>>) = SubSeq(Way(s, r, B, q), 1, n)
<1> DEFINE c == Carried(C, s, r)
           W == SubSeq(s, r + 1, Len(s))
           v == SubSeq(s, r + 1, c)
           n == c - r
           u == SubSeq(W, 1, n)
<1>1. c \in r..Len(s)
  BY Zenon, CarriedExists
<1>2. r \in 0..Len(s) /\ Len(s) \in r..Len(s) /\ Len(s) \in Nat
  BY DEF Flow
<1>3. Way(s, r, B, q) = W
  BY Zenon, WayOpen
<1> HIDE DEF c
<1>4. W \in Seq(Messages) /\ Len(W) = Len(s) - r /\ \A i \in 1..Len(s) - r : W[i] = s[r + i]
  BY <1>2, Slice
<1>5. v \in Seq(Messages) /\ Len(v) = c - r /\ \A i \in 1..c - r : v[i] = s[r + i]
  BY Zenon, <1>1, <1>2, Slice
<1>6. Way(s, r, C, <<>>) = v
  <2>1. v \o <<>> = v
    BY <1>5, ConcatEmptySeq
  <2> QED BY Zenon, <2>1 DEF Way, c
<1> HIDE DEF W, v
<1>7. n \in 0..Len(W) /\ n \in Nat /\ 0 \in 0..Len(W) /\ 0 + 1 = 1
  BY <1>1, <1>2, <1>4
<1> HIDE DEF n
<1>8. u \in Seq(Messages) /\ Len(u) = n - 0 /\ \A i \in 1..n - 0 : u[i] = W[0 + i]
  <2>1. u = SubSeq(W, 0 + 1, n)
    BY Zenon, <1>7
  <2> QED BY <2>1, <1>4, <1>7, Slice
<1> HIDE DEF u
<1>9. Len(u) = Len(v)
  BY SMTT(30), <1>5, <1>7, <1>8 DEF n
<1>10. ASSUME NEW i \in 1..Len(u) PROVE u[i] = v[i]
  <2>1. i \in 1..n /\ i \in 1..n - 0 /\ 0 + i = i /\ i \in 1..c - r /\ i \in 1..Len(s) - r
    BY SMTT(30), <1>1, <1>2, <1>7, <1>8 DEF n
  <2> QED BY Zenon, <2>1, <1>4, <1>5, <1>8
<1>11. u = v
  BY Zenon, <1>5, <1>8, <1>9, <1>10, SeqEqual
<1> QED BY Zenon, <1>3, <1>6, <1>7, <1>11 DEF u

\* A message that the closing sender drops is not under way.
LEMMA WayAppend ==
  ASSUME NEW s \in Seq(Messages), NEW msg \in Messages, NEW B \in Seq(Bytes), NEW r,
         Flow(s, r, B)
  PROVE  Way(Append(s, msg), r, B, <<>>) = Way(s, r, B, <<>>)
<1> DEFINE a == Append(s, msg)
           c == Carried(B, s, r)
           L == Ends(s)[r] + Len(B)
<1>1. r \in 0..Len(s) /\ L <= Ends(s)[Len(s)] /\ Len(s) \in Nat
  BY DEF Flow
<1>2. c \in r..Len(s) /\ Ends(s)[c] <= L /\ (c < Len(s) => L < Ends(s)[c + 1])
  BY Zenon, CarriedExists
<1>3. /\ a \in Seq(Messages) /\ Len(a) = Len(s) + 1 /\ \A i \in 1..Len(s) : a[i] = s[i]
  OBVIOUS
<1>4. Spelled(a, Ends(a)[r], B)
  BY Zenon, FlowAppend DEF Flow
<1>5. \A i \in 0..Len(s) : Ends(a)[i] = Ends(s)[i]
  BY Zenon, EndsAppend
<1> HIDE DEF c, a
<1>6. c \in 0..Len(s) /\ c \in r..Len(a) /\ c \in 0..Len(a) /\ r \in 0..Len(a)
  BY <1>1, <1>2, <1>3
<1>7. Ends(a)[r] + Len(B) = L
  BY Zenon, <1>1, <1>5
<1>8. c < Len(a) => L < Ends(a)[c + 1]
  <2>1. CASE c < Len(s)
    <3>1. c + 1 \in 0..Len(s)
      BY <1>1, <1>6, <2>1
    <3> QED BY Zenon, <1>2, <1>5, <2>1, <3>1
  <2>2. CASE c = Len(s)
    <3>1. Len(s) \in 0..Len(a) /\ Len(s) + 1 \in 0..Len(a) /\ Len(s) < Len(s) + 1
          /\ Len(s) \in 0..Len(s)
      BY <1>1, <1>3
    <3>2. Ends(a)[Len(s)] < Ends(a)[Len(s) + 1]
      BY <1>3, <3>1, EndsGrow
    <3>3. Ends(a)[Len(s)] \in Nat /\ Ends(a)[Len(s) + 1] \in Nat
      <4>1. Ends(a) \in [0..Len(a) -> Nat]
        BY Zenon, <1>3, EndsSums
      <4> QED BY <4>1, <3>1, Zenon
    <3>4. Ends(a)[Len(s)] = Ends(s)[Len(s)]
      BY Zenon, <1>5, <3>1
    <3>5. L \in Nat
      <4>1. Ends(s)[r] \in Nat /\ Len(B) \in Nat
        BY <1>1, EndsOrder
      <4> QED BY <4>1
    <3> HIDE DEF L
    <3> QED BY SMTT(30), <1>1, <2>2, <3>2, <3>3, <3>4, <3>5
  <2> QED BY <1>1, <1>6, <2>1, <2>2
<1>9. Carried(B, a, r) = c
  BY Zenon, <1>2, <1>3, <1>4, <1>5, <1>6, <1>7, <1>8, CarriedIs
<1> DEFINE u == SubSeq(a, r + 1, c)
           v == SubSeq(s, r + 1, c)
<1>10. u \in Seq(Messages) /\ Len(u) = c - r /\ \A i \in 1..c - r : u[i] = a[r + i]
  BY SMTT(30), <1>3, <1>6, Slice
<1>11. v \in Seq(Messages) /\ Len(v) = c - r /\ \A i \in 1..c - r : v[i] = s[r + i]
  BY Zenon, <1>1, <1>2, Slice
<1>12. \A i \in 1..c - r : r + i \in 1..Len(s)
  BY <1>1, <1>6
<1> HIDE DEF u, v
<1>13. ASSUME NEW i \in 1..Len(u) PROVE u[i] = v[i]
  BY Zenon, <1>3, <1>10, <1>11, <1>12
<1>14. u = v
  BY Zenon, <1>10, <1>11, <1>13, SeqEqual
<1> QED BY <1>9, <1>14, Zenon DEF Way, u, v, c, a

-----------------------------------------------------------------------------
\* What links the buffers and the stream to the messages queued and received.
FlowInv ==
  /\ sent \in Seq(Messages) /\ rcvd \in Seq(Messages)
  /\ ~sopen => queue = <<>> /\ sendbuf = <<>>
  /\ ropen => Flow(sent, Len(rcvd), Stream)
  /\ ropen /\ sopen => Aligned(sent, Len(rcvd), Stream, queue)

\* The variables of the abstract channel.
Transit == IF ropen THEN UnderWay ELSE <<>>
Newest == IF rcvd = <<>> THEN <<>> ELSE <<rcvd[Len(rcvd)]>>

FifoStep == [Fifo!Next]_Fifo!vars

\* The steps of the abstract channel, one by one.
LEMMA FifoStutter ==
  ASSUME Transit' = Transit, Newest' = Newest
  PROVE  FifoStep
  BY Zenon DEF FifoStep, Fifo!vars, Transit, Newest

LEMMA FifoSend ==
  ASSUME NEW msg \in Messages, Transit' = Append(Transit, msg), Newest' = Newest
  PROVE  FifoStep
  BY Zenon DEF FifoStep, Fifo!Next, Fifo!Send, Transit, Newest

LEMMA FifoDeliver ==
  ASSUME Transit # <<>>, Newest' = <<Head(Transit)>>, Transit' = Tail(Transit)
  PROVE  FifoStep
  BY Zenon DEF FifoStep, Fifo!Next, Fifo!Deliver, Transit, Newest

LEMMA FifoLose ==
  ASSUME NEW n \in 0..Len(Transit), Transit' = SubSeq(Transit, 1, n), Newest' = Newest
  PROVE  FifoStep
  BY Zenon DEF FifoStep, Fifo!Next, Fifo!Lose, Transit, Newest

LEMMA FifoRenew ==
  ASSUME Transit' = <<>>, Newest' = <<>>
  PROVE  FifoStep
  BY Zenon DEF FifoStep, Fifo!Next, Fifo!Renew, Transit, Newest

\* The bytes of the stream.
LEMMA StreamType ==
  ASSUME IInv
  PROVE  Stream \in Seq(Bytes)
<1>1. recvbuf \in Seq(Bytes) /\ wire \in Seq(Bytes) /\ sendbuf \in Seq(Bytes)
  BY Zenon DEF IInv, BuffersOK
<1>2. recvbuf \o wire \in Seq(Bytes)
  BY Zenon, <1>1, ConcatProperties
<1> QED BY Zenon, <1>1, <1>2, ConcatProperties DEF Stream

\* The messages under way.
LEMMA TransitType ==
  ASSUME IInv, FlowInv
  PROVE  Transit \in Seq(Messages)
<1>1. CASE ~ropen
  BY <1>1 DEF Transit
<1>2. CASE ropen
  <2> DEFINE c == Carried(Stream, sent, Len(rcvd))
  <2>1. Flow(sent, Len(rcvd), Stream) /\ sent \in Seq(Messages) /\ Stream \in Seq(Bytes)
        /\ queue \in Seq(Messages)
    BY Zenon, <1>2, StreamType DEF FlowInv, IInv, BuffersOK
  <2>2. c \in Len(rcvd)..Len(sent) /\ Len(rcvd) \in 0..Len(sent)
    BY Zenon, <2>1, CarriedExists DEF Flow
  <2> HIDE DEF c
  <2>3. SubSeq(sent, Len(rcvd) + 1, c) \in Seq(Messages)
    BY Zenon, <2>1, <2>2, Slice
  <2>4. SubSeq(sent, Len(rcvd) + 1, c) \o queue \in Seq(Messages)
    BY <2>1, <2>3, ConcatProperties
  <2> QED BY Zenon, <1>2, <2>4 DEF Transit, UnderWay, c
<1> QED BY Zenon, <1>1, <1>2

\* The first elements of a sequence.
Front(t, s) == Len(t) <= Len(s) /\ \A x \in 1..Len(t) : t[x] = s[x]

\* A sender that closes leaves the front of the stream behind.
LEMMA Truncated ==
  ASSUME NEW a \in Seq(Bytes), NEW b \in Seq(Bytes), NEW c \in Seq(Bytes), NEW d \in {b, <<>>}
  PROVE  LET T == a \o d \o <<>>
             S == a \o b \o c
         IN T \in Seq(Bytes) /\ Front(T, S)
<1> DEFINE e == a \o b
           S == e \o c
           f == a \o d
<1>1. /\ e \in Seq(Bytes) /\ Len(e) = Len(a) + Len(b)
      /\ \A x \in 1..Len(a) + Len(b) : e[x] = IF x <= Len(a) THEN a[x] ELSE b[x - Len(a)]
  BY Zenon, ConcatProperties
<1>2. d \in Seq(Bytes) /\ Len(a) \in Nat /\ Len(b) \in Nat /\ Len(c) \in Nat
  <2>1. <<>> \in Seq(Bytes) /\ Len(a) \in Nat /\ Len(b) \in Nat /\ Len(c) \in Nat
    OBVIOUS
  <2> QED BY <2>1, Zenon
<1>3. /\ f \in Seq(Bytes) /\ Len(f) = Len(a) + Len(d)
      /\ \A x \in 1..Len(a) + Len(d) : f[x] = IF x <= Len(a) THEN a[x] ELSE d[x - Len(a)]
  BY <1>2, ConcatProperties
<1>4. f \o <<>> = f
  BY Zenon, <1>3, ConcatEmptySeq
<1>5. Len(f) <= Len(e) /\ \A x \in 1..Len(f) : f[x] = e[x]
  <2>1. CASE d = b
    BY <2>1, <1>1
  <2>2. CASE d = <<>>
    <3>1. Len(d) = 0
      BY Zenon, <2>2
    <3> HIDE DEF f, e
    <3>2. Len(f) = Len(a) /\ Len(f) <= Len(e)
      BY SMTT(30), <3>1, <1>1, <1>2, <1>3
    <3>3. ASSUME NEW x \in 1..Len(f) PROVE f[x] = e[x]
      <4>1. x \in 1..Len(a) + Len(d) /\ x \in 1..Len(a) + Len(b) /\ x <= Len(a)
        BY <3>1, <3>2, <1>2
      <4>2. f[x] = a[x]
        BY Zenon, <4>1, <1>3
      <4> QED BY Zenon, <4>1, <4>2, <1>1
    <3> QED BY Zenon, <3>2, <3>3
  <2> QED BY Zenon, <2>1, <2>2
<1> HIDE DEF e, f
<1>6. /\ S \in Seq(Bytes) /\ Len(S) = Len(e) + Len(c)
      /\ \A x \in 1..Len(e) + Len(c) : S[x] = IF x <= Len(e) THEN e[x] ELSE c[x - Len(e)]
  <2>1. e \in Seq(Bytes)
    BY Zenon, <1>1
  <2> QED BY Zenon, <2>1, ConcatProperties
<1> HIDE DEF S
<1>7. Len(f) \in Nat /\ Len(e) \in Nat
  BY <1>1, <1>2, <1>3
<1>8. Len(f) <= Len(S)
  BY <1>2, <1>5, <1>6, <1>7
<1>9. ASSUME NEW x \in 1..Len(f) PROVE f[x] = S[x]
  <2>1. x \in 1..Len(e) + Len(c) /\ x <= Len(e)
    BY <1>2, <1>5, <1>7
  <2> QED BY Zenon, <2>1, <1>5, <1>6
<1>10. f \in Seq(Bytes) /\ Front(f, S)
  BY Zenon, <1>3, <1>8, <1>9 DEF Front
<1> QED BY <1>4, <1>10, Zenon DEF S, e, f

\* The sender closes, with a message more or not: the newest are lost.
LEMMA CloseFlow ==
  ASSUME IInv, FlowInv, sopen, ~sopen', ropen' = ropen, recvbuf' = recvbuf, rcvd' = rcvd,
         queue' = <<>>, sendbuf' = <<>>, wire' \in {wire, <<>>},
         sent' = sent \/ \E msg \in Messages : sent' = Append(sent, msg)
  PROVE  FlowInv' /\ FifoStep
<1> DEFINE r == Len(rcvd)
           C == recvbuf \o wire' \o <<>>
<1>1. /\ recvbuf \in Seq(Bytes) /\ wire \in Seq(Bytes) /\ sendbuf \in Seq(Bytes)
      /\ sent \in Seq(Messages) /\ rcvd \in Seq(Messages)
  BY Zenon DEF IInv, BuffersOK, FlowInv
<1>2. Stream \in Seq(Bytes)
  BY Zenon, StreamType
<1>3. C \in Seq(Bytes) /\ Front(C, Stream)
  BY Zenon, <1>1, Truncated DEF Stream
<1>4. Stream' = C
  BY Zenon DEF Stream
<1>5. sent' \in Seq(Messages)
  <2>1. \A msg \in Messages : Append(sent, msg) \in Seq(Messages)
    BY <1>1
  <2> QED BY <1>1, <2>1, Zenon
<1> HIDE DEF C
<1>6. Newest' = Newest
  BY Zenon DEF Newest
<1>7. CASE ~ropen
  <2>1. FlowInv'
    BY Zenon, <1>1, <1>5, <1>7 DEF FlowInv
  <2>2. Transit' = Transit
    BY <1>7 DEF Transit
  <2> QED BY Zenon, <1>6, <2>1, <2>2, FifoStutter
<1>8. CASE ropen
  <2>1. Flow(sent, r, Stream) /\ Aligned(sent, r, Stream, queue)
    BY Zenon, <1>8 DEF FlowInv
  <2>2. Flow(sent, r, C)
    BY SMTT(30), <1>1, <1>2, <1>3, <2>1, FlowCut DEF Front
  <2>3. Flow(sent', r, C) /\ Way(sent', r, C, <<>>) = Way(sent, r, C, <<>>)
    <3>1. \A msg \in Messages : /\ Flow(Append(sent, msg), r, C)
                                /\ Way(Append(sent, msg), r, C, <<>>) = Way(sent, r, C, <<>>)
      BY <1>1, <1>3, <2>2, FlowAppend, WayAppend
    <3>2. CASE sent' = sent
      BY Zenon, <2>2, <3>2
    <3>3. CASE \E msg \in Messages : sent' = Append(sent, msg)
      BY <3>1, <3>3
    <3> QED BY <3>2, <3>3
  <2>4. FlowInv'
    BY Zenon, <1>1, <1>4, <1>5, <2>3 DEF FlowInv
  <2>5. Transit = Way(sent, r, Stream, queue)
    BY Zenon, <1>8 DEF Transit, UnderWay, Way
  <2>6. Transit' = Way(sent, r, C, <<>>)
    BY Zenon, <1>4, <1>8, <2>3 DEF Transit, UnderWay, Way
  <2>7. PICK n \in 0..Len(Transit) : Transit' = SubSeq(Transit, 1, n)
    BY SMTT(30), <1>1, <1>2, <1>3, <2>1, <2>2, <2>5, <2>6, WayCut
  <2> QED BY Zenon, <1>6, <2>4, <2>7, FifoLose
<1> QED BY Zenon, <1>7, <1>8

\* mc_enqueue_message sends; at the limit of the backlog it closes.
LEMMA EnqueueFlow ==
  ASSUME NEW msg \in Messages, IInv, FlowInv, Enqueue(msg)
  PROVE  FlowInv' /\ FifoStep
<1> DEFINE r == Len(rcvd)
<1>1. /\ sent \in Seq(Messages) /\ rcvd \in Seq(Messages) /\ Stream \in Seq(Bytes)
      /\ sent' = Append(sent, msg) /\ sopen
      /\ recvbuf' = recvbuf /\ ropen' = ropen /\ wire' = wire /\ rcvd' = rcvd
  BY Zenon, StreamType DEF FlowInv, Enqueue, receiver
<1>2. CASE Len(queue) + 1 > MaxBacklog
  <2>1. queue' = <<>> /\ sendbuf' = <<>> /\ ~sopen'
    BY Zenon, <1>2 DEF Enqueue, CloseSender, ClearSender
  <2> QED BY Zenon, <1>1, <2>1, CloseFlow
<1>3. CASE ~(Len(queue) + 1 > MaxBacklog)
  <2>1. queue' = Append(queue, msg) /\ sendbuf' = sendbuf /\ sopen' = sopen
    BY Zenon, <1>3 DEF Enqueue
  <2>2. Stream' = Stream /\ Newest' = Newest
    BY Zenon, <1>1, <2>1 DEF Stream, Newest
  <2>3. sent' \in Seq(Messages)
    BY <1>1
  <2>4. CASE ~ropen
    <3>1. FlowInv'
      BY Zenon, <1>1, <2>1, <2>3, <2>4 DEF FlowInv
    <3>2. Transit' = Transit
      BY Zenon, <1>1, <2>4 DEF Transit
    <3> QED BY SMTT(30), <2>2, <3>1, <3>2, FifoStutter
  <2>5. CASE ropen
    <3>1. Flow(sent, r, Stream) /\ Aligned(sent, r, Stream, queue) /\ r \in 0..Len(sent)
      BY <1>1, <2>5 DEF FlowInv, Flow
    <3>2. Flow(sent', r, Stream) /\ Aligned(sent', r, Stream, queue')
      BY SMTT(30), <1>1, <2>1, <3>1, FlowAppend, AlignedAppend
    <3>3. FlowInv'
      BY Zenon, <1>1, <2>1, <2>2, <2>3, <3>2 DEF FlowInv
    <3>4. Transit = SubSeq(sent, r + 1, Len(sent))
      BY Zenon, <1>1, <2>5, <3>1, WayOpen DEF Transit, UnderWay, Way
    <3>5. Way(sent', r, Stream, queue') = SubSeq(sent', r + 1, Len(sent'))
      BY Zenon, <1>1, <2>3, <3>2, WayOpen
    <3>6. Transit' = SubSeq(sent', r + 1, Len(sent'))
      BY Zenon, <1>1, <2>2, <2>5, <3>5 DEF Transit, UnderWay, Way
    <3>7. Transit' = Append(Transit, msg)
      BY Zenon, <1>1, <3>1, <3>4, <3>6, SliceAppend
    <3> QED BY Zenon, <2>2, <3>3, <3>7, FifoSend
  <2> QED BY <2>4, <2>5
<1> QED BY Zenon, <1>2, <1>3

LEMMA Joined ==
  ASSUME NEW a \in Seq(Bytes), NEW b \in Seq(Bytes), NEW c \in Seq(Bytes)
  PROVE  (a \o b) \o c = a \o (b \o c)
  BY SMTT(30), ConcatAssociative

\* What mc_write_cb moves to the wire stays in the stream.
LEMMA StreamWritten ==
  ASSUME NEW a \in Seq(Bytes), NEW b \in Seq(Bytes), NEW c \in Seq(Bytes), NEW k \in 0..Len(c)
  PROVE  a \o (b \o SubSeq(c, 1, k)) \o SubSeq(c, k + 1, Len(c)) = (a \o b) \o c
<1> DEFINE u == SubSeq(c, 1, k)
           v == SubSeq(c, k + 1, Len(c))
<1>1. u \in Seq(Bytes) /\ v \in Seq(Bytes) /\ u \o v = c
  <2>1. Len(c) \in Nat /\ 1 \in 1..Len(c) + 1 /\ k \in 1 - 1..Len(c) /\ Len(c) \in k..Len(c)
    OBVIOUS
  <2>2. u \o v = SubSeq(c, 1, Len(c))
    BY Zenon, <2>1, ConcatAdjacentSubSeq
  <2>3. SubSeq(c, 1, Len(c)) = c
    BY Zenon, SubSeqFull
  <2>4. u \in Seq(Bytes) /\ v \in Seq(Bytes)
    BY <2>1, Part
  <2> QED BY Zenon, <2>2, <2>3, <2>4
<1> HIDE DEF u, v
<1>2. u \in Seq(Bytes) /\ v \in Seq(Bytes)
  BY <1>1
<1>3. (a \o b) \o u = a \o (b \o u)
  BY SMTT(30), <1>2, Joined
<1> DEFINE d == a \o b
<1>4. d \in Seq(Bytes)
  BY Zenon, ConcatProperties
<1> HIDE DEF d
<1>5. (d \o u) \o v = d \o (u \o v)
  BY <1>2, <1>4, Joined, Zenon
<1>6. (d \o u) \o v = d \o c
  BY Zenon, <1>1, <1>5
<1>7. a \o (b \o u) = d \o u
  BY Zenon, <1>3 DEF d
<1>8. a \o (b \o u) \o v = d \o c
  BY Zenon, <1>6, <1>7
<1> QED BY Zenon, <1>8 DEF u, v, d

\* mc_write_cb changes nothing for the users of the channel.
LEMMA WriteFlow ==
  ASSUME NEW k \in 0..PipeSize, IInv, FlowInv, Write(k)
  PROVE  FlowInv' /\ FifoStep
<1> DEFINE r == Len(rcvd)
           buf == OutBuf
<1>1. /\ sent \in Seq(Messages) /\ rcvd \in Seq(Messages) /\ Stream \in Seq(Bytes)
      /\ queue \in Seq(Messages)
      /\ recvbuf \in Seq(Bytes) /\ wire \in Seq(Bytes) /\ sendbuf \in Seq(Bytes)
  BY StreamType DEF FlowInv, IInv, BuffersOK
<1>2. /\ sopen /\ sopen' = sopen /\ monitor /\ sent' = sent /\ rcvd' = rcvd
      /\ recvbuf' = recvbuf /\ ropen' = ropen
  BY Zenon DEF Write, receiver
<1>3. HaveOutboundData(queue, sendbuf)
  BY <1>2, Zenon DEF IInv, WriteWakeup, HaveOutboundData
<1>4. /\ k <= Len(buf)
      /\ queue' = IF sendbuf = <<>> THEN Tail(queue) ELSE queue
      /\ sendbuf' = SubSeq(buf, k + 1, Len(buf))
      /\ wire' = wire \o SubSeq(buf, 1, k)
  BY <1>3 DEF Write, Dequeue, Drain
<1>5. sendbuf = <<>> => queue # <<>>
  BY <1>3, Zenon DEF HaveOutboundData
<1>6. buf \in Seq(Bytes)
  <2>1. CASE sendbuf = <<>>
    <3>1. Head(queue) \in Messages
      BY <1>1, <1>5, <2>1
    <3> QED BY <2>1, <3>1, UnparseType DEF OutBuf
  <2>2. CASE sendbuf # <<>>
    BY Zenon, <1>1, <2>2 DEF OutBuf
  <2> QED BY Zenon, <2>1, <2>2
<1> HIDE DEF buf
<1>7. k \in 0..Len(buf)
  BY <1>4, MsgChanAssumption
<1>8. Stream' = (recvbuf \o wire) \o buf
  <2>1. Stream' = recvbuf \o (wire \o SubSeq(buf, 1, k)) \o SubSeq(buf, k + 1, Len(buf))
    BY <1>2, <1>4, Zenon DEF Stream
  <2>2. recvbuf \o (wire \o SubSeq(buf, 1, k)) \o SubSeq(buf, k + 1, Len(buf))
          = (recvbuf \o wire) \o buf
    <3>1. recvbuf \in Seq(Bytes) /\ wire \in Seq(Bytes)
      BY Zenon, <1>1
    <3>2. buf \in Seq(Bytes)
      BY Zenon, <1>6
    <3>3. \A a, b, c \in Seq(Bytes) : \A j \in 0..Len(c) :
            a \o (b \o SubSeq(c, 1, j)) \o SubSeq(c, j + 1, Len(c)) = (a \o b) \o c
      BY Zenon, StreamWritten
    <3>4. \A c \in Seq(Bytes) : \A j \in 0..Len(c) :
            recvbuf \o (wire \o SubSeq(c, 1, j)) \o SubSeq(c, j + 1, Len(c))
              = (recvbuf \o wire) \o c
      BY Zenon, <3>1, <3>3
    <3>5. \A j \in 0..Len(buf) :
            recvbuf \o (wire \o SubSeq(buf, 1, j)) \o SubSeq(buf, j + 1, Len(buf))
              = (recvbuf \o wire) \o buf
      BY Zenon, <3>2, <3>4
    <3> QED BY Zenon, <1>7, <3>5
  <2> QED BY <2>1, <2>2, Zenon
<1>9. Newest' = Newest
  BY Zenon, <1>2 DEF Newest
<1>10. CASE ~ropen
  <2>1. FlowInv'
    BY Zenon, <1>1, <1>2, <1>10 DEF FlowInv
  <2>2. Transit' = Transit
    BY Zenon, <1>2, <1>10 DEF Transit
  <2> QED BY <1>9, <2>1, <2>2, FifoStutter
<1>11. CASE ropen
  <2>1. Flow(sent, r, Stream) /\ Aligned(sent, r, Stream, queue)
    BY Zenon, <1>2, <1>11 DEF FlowInv
  <2>2. Flow(sent, r, Stream') /\ Aligned(sent, r, Stream', queue') /\ Stream' \in Seq(Bytes)
    <3>1. CASE sendbuf # <<>>
      <4>1. queue' = queue /\ Stream' = Stream
        BY Zenon, <1>4, <1>8, <3>1 DEF buf, OutBuf, Stream
      <4> QED BY <1>1, <2>1, <4>1
    <3>2. CASE sendbuf = <<>>
      <4>1. queue' = Tail(queue) /\ queue # <<>> /\ buf = Unparse(Head(queue))
        BY <1>4, <1>5, <3>2 DEF buf, OutBuf
      <4>2. recvbuf \o wire \in Seq(Bytes)
        BY Zenon, <1>1, ConcatProperties
      <4>3. Stream = recvbuf \o wire
        BY Zenon, <3>2, <4>2, ConcatEmptySeq DEF Stream
      <4>4. Stream' = Stream \o Unparse(Head(queue))
        BY <1>8, <4>1, <4>3
      <4>5. Stream' \in Seq(Bytes)
        BY Zenon, <1>1, <1>6, <4>1, <4>4, ConcatProperties
      <4> QED BY Zenon, <1>1, <2>1, <4>1, <4>4, <4>5, FlowTake
    <3> QED BY Zenon, <3>1, <3>2
  <2>3. FlowInv'
    BY Zenon, <1>1, <1>2, <2>2 DEF FlowInv
  <2>4. Way(sent, r, Stream', queue') = Way(sent, r, Stream, queue)
    <3>1. Way(sent, r, Stream, queue) = SubSeq(sent, r + 1, Len(sent))
      BY Zenon, <1>1, <2>1, WayOpen
    <3>2. Way(sent, r, Stream', queue') = SubSeq(sent, r + 1, Len(sent))
      <4> DEFINE B == Stream'
                 q == queue'
      <4>1. B \in Seq(Bytes) /\ Flow(sent, r, B) /\ Aligned(sent, r, B, q)
        BY <2>2
      <4> HIDE DEF B, q
      <4>2. Way(sent, r, B, q) = SubSeq(sent, r + 1, Len(sent))
        BY Zenon, <1>1, <4>1, WayOpen
      <4> QED BY Zenon, <4>2 DEF B, q
    <3> QED BY Zenon, <3>1, <3>2
  <2>5. Transit' = Transit
    BY Zenon, <1>2, <1>11, <2>4 DEF Transit, UnderWay, Way
  <2> QED BY <1>9, <2>3, <2>5, FifoStutter
<1> QED BY Zenon, <1>10, <1>11

\* What fill_msgbuf takes from the wire stays in the stream.
LEMMA StreamRead ==
  ASSUME NEW a \in Seq(Bytes), NEW b \in Seq(Bytes), NEW c \in Seq(Bytes), NEW k \in 0..Len(b)
  PROVE  LET u == SubSeq(b, 1, k)
             v == SubSeq(b, k + 1, Len(b))
         IN /\ (a \o u) \o v \o c = a \o b \o c
            /\ a \o b \o c = (a \o u) \o (v \o c)
            /\ a \o u \in Seq(Bytes) /\ v \o c \in Seq(Bytes)
<1> DEFINE u == SubSeq(b, 1, k)
           v == SubSeq(b, k + 1, Len(b))
           d == a \o u
<1>1. u \in Seq(Bytes) /\ v \in Seq(Bytes) /\ u \o v = b
  <2>1. Len(b) \in Nat /\ 1 \in 1..Len(b) + 1 /\ k \in 1 - 1..Len(b) /\ Len(b) \in k..Len(b)
    OBVIOUS
  <2>2. u \o v = SubSeq(b, 1, Len(b))
    BY Zenon, <2>1, ConcatAdjacentSubSeq
  <2>3. SubSeq(b, 1, Len(b)) = b
    BY Zenon, SubSeqFull
  <2>4. u \in Seq(Bytes) /\ v \in Seq(Bytes)
    BY <2>1, Part
  <2> QED BY Zenon, <2>2, <2>3, <2>4
<1> HIDE DEF u, v
<1>2. u \in Seq(Bytes) /\ v \in Seq(Bytes)
  BY Zenon, <1>1
<1>3. d \in Seq(Bytes) /\ v \o c \in Seq(Bytes)
  BY Zenon, <1>2, ConcatProperties
<1>4. (a \o u) \o v = a \o (u \o v)
  BY SMTT(30), <1>2, Joined
<1>5. d \o v = a \o b
  BY Zenon, <1>1, <1>4
<1> HIDE DEF d
<1>6. (d \o v) \o c = d \o (v \o c)
  BY SMTT(30), <1>2, <1>3, Joined
<1>7. (d \o v) \o c = a \o b \o c
  BY Zenon, <1>5
<1> QED BY Zenon, <1>3, <1>6, <1>7 DEF d, u, v

\* The receiver closes: all that is under way is lost.
LEMMA CloseReceiverFlow ==
  ASSUME IInv, FlowInv, CloseReceiver, UNCHANGED <<sender, sent, rcvd>>
  PROVE  FlowInv' /\ FifoStep
<1>1. ~ropen' /\ sent' = sent /\ rcvd' = rcvd /\ queue' = queue /\ sendbuf' = sendbuf
      /\ sopen' = sopen
  BY Zenon DEF CloseReceiver, sender
<1>2. FlowInv'
  BY Zenon, <1>1 DEF FlowInv
<1>3. Newest' = Newest
  BY Zenon, <1>1 DEF Newest
<1>4. Transit \in Seq(Messages)
  BY Zenon, TransitType
<1>5. Transit' = <<>>
  BY Zenon, <1>1 DEF Transit
<1> DEFINE T == Transit
<1> HIDE DEF T
<1>6. 0 \in 0..Len(T) /\ SubSeq(T, 1, 0) = <<>>
  BY <1>4, SubSeqEmpty DEF T
<1> QED BY Zenon, <1>2, <1>3, <1>5, <1>6, FifoLose DEF T

\* A complete message is the next that was queued, and is delivered.
LEMMA DeliverFlow ==
  ASSUME IInv, FlowInv, ropen, ropen' = ropen, UNCHANGED <<sender, sent>>,
         NEW buf \in Seq(Bytes), NEW rest \in Seq(Bytes), Stream = buf \o rest,
         Len(buf) >= MSGHDR_SIZE, Len(buf) > MSGHDR_SIZE => Len(buf) <= MSGHDR_SIZE + MsgSize(buf),
         Len(buf) >= MSGHDR_SIZE + MsgSize(buf), NEW msg \in Parse(buf), rcvd' = Append(rcvd, msg),
         Stream' = rest
  PROVE  FlowInv' /\ FifoStep
<1> DEFINE r == Len(rcvd)
           B == Stream
           z == Size(sent[r + 1])
<1>1. /\ sent \in Seq(Messages) /\ rcvd \in Seq(Messages) /\ B \in Seq(Bytes) /\ Flow(sent, r, B)
      /\ queue \in Seq(Messages) /\ queue' = queue /\ sopen' = sopen /\ sendbuf' = sendbuf
      /\ sent' = sent /\ (sopen => Aligned(sent, r, B, queue))
  BY Zenon, StreamType DEF FlowInv, IInv, BuffersOK, sender
<1>2. /\ Len(B) = Len(buf) + Len(rest)
      /\ \A x \in 1..Len(buf) + Len(rest) : B[x] = IF x <= Len(buf) THEN buf[x]
                                                    ELSE rest[x - Len(buf)]
  BY Zenon, ConcatProperties
<1>3. MSGHDR_SIZE \in Nat \ {0} /\ Len(buf) \in Nat \ {0} /\ Len(rest) \in Nat
  BY MsgChanAssumption
<1> HIDE DEF B
<1>4. r < Len(sent) /\ r \in Nat
  <2>1. r \in 0..Len(sent) /\ Ends(sent)[r] + Len(B) <= Ends(sent)[Len(sent)]
    BY Zenon, <1>1 DEF Flow
  <2>2. Ends(sent)[r] \in Nat
    BY SMTT(30), <1>1, <2>1, EndsOrder
  <2>3. Len(B) > 0 /\ Len(B) \in Nat
    BY <1>2, <1>3
  <2>4. r # Len(sent)
    BY <2>1, <2>2, <2>3
  <2> QED BY <1>1, <2>1, <2>4
<1>5. r \in 0..Len(sent) - 1 /\ sent[r + 1] \in Messages /\ Spelled(sent, Ends(sent)[r], B)
  BY SMTT(30), <1>1, <1>4 DEF Flow
<1>6. ASSUME NEW x \in 1..Len(buf), x <= z PROVE buf[x] = Unparse(sent[r + 1])[x]
  <2>1. x \in 1..Len(buf) + Len(rest) /\ x <= Len(buf) /\ x \in 1..Len(B)
    BY <1>2, <1>3
  <2>2. B[x] = buf[x]
    BY Zenon, <1>2, <2>1
  <2>3. B[x] = Unparse(sent[r + 1])[x]
    BY ZenonT(30), <1>1, <1>5, <1>6, <2>1, SpelledFirst
  <2> QED BY Zenon, <2>2, <2>3
<1>7. MsgSize(buf) = BodyLen[sent[r + 1]] /\ (Len(buf) = z => msg = sent[r + 1])
  BY Zenon, <1>5, <1>6, ParseFirst
<1>8. Len(buf) = z
  <2>1. BodyLen[sent[r + 1]] \in Nat \ {0}
    BY Zenon, <1>5, MsgChanAssumption
  <2> DEFINE y == BodyLen[sent[r + 1]]
  <2>2. z = MSGHDR_SIZE + y /\ MsgSize(buf) = y
    BY Zenon, <1>7 DEF Size
  <2> HIDE DEF y, z
  <2> QED BY SMTT(30), <1>3, <2>1, <2>2 DEF y
<1>9. rest = SubSeq(B, z + 1, Len(B))
  <2> DEFINE t == SubSeq(B, Len(buf) + 1, Len(B))
  <2>1. Len(buf) \in 0..Len(B) /\ Len(B) \in Len(buf)..Len(B) /\ Len(B) \in Nat
    BY SMTT(30), <1>2, <1>3
  <2>2. t \in Seq(Bytes) /\ Len(t) = Len(B) - Len(buf)
        /\ \A i \in 1..Len(B) - Len(buf) : t[i] = B[Len(buf) + i]
    BY SMTT(30), <1>1, <2>1, Slice
  <2> HIDE DEF t
  <2>3. Len(t) = Len(rest)
    BY SMTT(30), <1>2, <1>3, <2>2
  <2>4. ASSUME NEW i \in 1..Len(rest) PROVE rest[i] = t[i]
    <3>1. i \in 1..Len(B) - Len(buf) /\ Len(buf) + i \in 1..Len(buf) + Len(rest)
          /\ ~(Len(buf) + i <= Len(buf)) /\ Len(buf) + i - Len(buf) = i
      BY <1>2, <1>3
    <3> QED BY SMTT(30), <1>2, <2>2, <3>1
  <2>5. rest = t
    BY Zenon, <2>2, <2>3, <2>4, SeqEqual
  <2> QED BY <1>8, <2>5 DEF t
<1>10. z <= Len(B)
  BY SMTT(30), <1>2, <1>3, <1>8
<1>11. Flow(sent, r + 1, rest) /\ (sopen => Aligned(sent, r + 1, rest, queue))
  BY SMTT(30), <1>1, <1>4, <1>9, <1>10, FlowDrop
<1>12. Len(rcvd') = r + 1 /\ rcvd' \in Seq(Messages) /\ msg = sent[r + 1]
       /\ rcvd' # <<>> /\ rcvd'[Len(rcvd')] = sent[r + 1]
  <2>1. msg = sent[r + 1] /\ msg \in Messages
    BY Zenon, <1>5, <1>7, <1>8
  <2>2. rcvd \in Seq(Messages)
    BY SMTT(30), <1>1
  <2> DEFINE p == Append(rcvd, msg)
  <2>3. p \in Seq(Messages) /\ p # <<>> /\ Len(p) = r + 1 /\ p[r + 1] = msg
    BY SMTT(30), <2>1, <2>2, AppendProperties
  <2>4. rcvd' = p
    BY Zenon, SMTT(30)
  <2> HIDE DEF p
  <2> QED BY Zenon, <2>1, <2>3, <2>4
<1>13. FlowInv'
  BY SMTT(30), <1>1, <1>11, <1>12 DEF FlowInv
<1>14. Transit = Way(sent, r, B, queue) /\ Transit' = Way(sent, r + 1, rest, queue)
  BY Zenon, <1>1, <1>12 DEF Transit, UnderWay, Way, B
<1>15. Transit # <<>> /\ Head(Transit) = sent[r + 1] /\ Transit' = Tail(Transit)
  <2> DEFINE W == Way(sent, r, B, queue)
  <2>1. W # <<>> /\ Head(W) = sent[r + 1] /\ Tail(W) = Way(sent, r + 1, SubSeq(B, z + 1, Len(B)), queue)
    <3>1. /\ sent \in Seq(Messages) /\ B \in Seq(Bytes) /\ Flow(sent, r, B)
          /\ r < Len(sent) /\ Size(sent[r + 1]) <= Len(B) /\ queue \in Seq(Messages)
      BY <1>1, <1>4, <1>10
    <3> HIDE DEF r
    <3> QED BY <3>1, WayDrop
  <2> HIDE DEF W, z
  <2>2. Tail(W) = Way(sent, r + 1, rest, queue)
    BY Zenon, <1>9, <2>1
  <2>3. Transit = W
    BY Zenon, <1>14 DEF W
  <2> QED BY <1>14, <2>1, <2>2, <2>3, Zenon
<1>16. Newest' = <<sent[r + 1]>>
  BY Zenon, <1>12 DEF Newest
<1> QED BY Zenon, <1>13, <1>15, <1>16, FifoDeliver

\* mc_read_cb delivers a complete message; it keeps an incomplete one.
LEMMA ReadFlow ==
  ASSUME NEW k \in 1..PipeSize, IInv, FlowInv, Read(k)
  PROVE  FlowInv' /\ FifoStep
<1> DEFINE buf  == recvbuf \o SubSeq(wire, 1, k)
           rest == SubSeq(wire, k + 1, Len(wire)) \o sendbuf
           size == MSGHDR_SIZE + MsgSize(buf)
<1>1. /\ ropen /\ k <= Len(wire) /\ wire' = SubSeq(wire, k + 1, Len(wire))
      /\ Len(buf) > MSGHDR_SIZE => Len(buf) <= size
      /\ sent' = sent /\ queue' = queue /\ sendbuf' = sendbuf /\ sopen' = sopen
      /\ UNCHANGED sender
  BY Zenon DEF Read, sender
<1>2. \/ recvbuf' = buf /\ ropen' = ropen /\ rcvd' = rcvd
      \/ /\ Len(buf) >= MSGHDR_SIZE /\ Len(buf) >= size /\ recvbuf' = <<>> /\ ropen' = ropen
         /\ \E msg \in Parse(buf) : rcvd' = Append(rcvd, msg)
      \/ CloseReceiver /\ rcvd' = rcvd
  BY Zenon DEF Read
<1>3. recvbuf \in Seq(Bytes) /\ wire \in Seq(Bytes) /\ sendbuf \in Seq(Bytes)
  BY DEF IInv, BuffersOK
<1>4. k \in 0..Len(wire)
  BY <1>1, <1>3, MsgChanAssumption
<1>5. /\ buf \o SubSeq(wire, k + 1, Len(wire)) \o sendbuf = recvbuf \o wire \o sendbuf
      /\ recvbuf \o wire \o sendbuf = buf \o rest
      /\ buf \in Seq(Bytes) /\ rest \in Seq(Bytes)
  BY Zenon, <1>3, <1>4, StreamRead
<1>6. Stream = buf \o rest
  BY Zenon, <1>5 DEF Stream
<1> HIDE DEF buf
<1>7. CASE recvbuf' = buf /\ ropen' = ropen /\ rcvd' = rcvd
  <2>1. Stream' = Stream
    BY <1>1, <1>5, <1>7, Zenon DEF Stream
  <2>2. FlowInv'
    BY Zenon, <1>1, <1>7, <2>1 DEF FlowInv
  <2>3. Transit' = Transit
    BY Zenon, <1>1, <1>7, <2>1 DEF Transit, UnderWay
  <2>4. Newest' = Newest
    BY <1>7 DEF Newest
  <2> QED BY Zenon, <2>2, <2>3, <2>4, FifoStutter
<1>8. CASE /\ Len(buf) >= MSGHDR_SIZE /\ Len(buf) >= size /\ recvbuf' = <<>> /\ ropen' = ropen
           /\ \E msg \in Parse(buf) : rcvd' = Append(rcvd, msg)
  <2>1. PICK msg \in Parse(buf) : rcvd' = Append(rcvd, msg)
    BY Zenon, <1>8
  <2>2. Stream' = rest
    <3> DEFINE v == SubSeq(wire, k + 1, Len(wire))
    <3>1. v \in Seq(Bytes)
      BY <1>3, <1>4, Part
    <3> HIDE DEF v
    <3>2. <<>> \o v = v
      BY Zenon, <3>1, ConcatEmptySeq
    <3>3. Stream' = <<>> \o v \o sendbuf
      BY Zenon, <1>1, <1>8 DEF Stream, v
    <3> QED BY <3>2, <3>3, Zenon DEF v
  <2> HIDE DEF rest
  <2> QED BY Zenon, <1>1, <1>5, <1>6, <1>8, <2>1, <2>2, DeliverFlow
<1>9. CASE CloseReceiver /\ rcvd' = rcvd
  BY Zenon, <1>1, <1>9, CloseReceiverFlow
<1> QED BY SMTT(30), <1>2, <1>7, <1>8, <1>9

\* The channel before its first message.
LEMMA EmptyFlow ==
  /\ <<>> \in Seq(Messages)
  /\ Flow(<<>>, Len(<<>>), <<>>) /\ Aligned(<<>>, Len(<<>>), <<>>, <<>>)
  /\ Way(<<>>, Len(<<>>), <<>>, <<>>) = <<>>
<1> DEFINE e == <<>>
<1>1. e \in Seq(Messages) /\ e \in Seq(Bytes) /\ Len(e) = 0 /\ SubSeq(e, 1, 0) = e
  BY SubSeqEmpty
<1> HIDE DEF e
<1>2. Ends(e)[0] = 0
  BY Zenon, <1>1, EndsSums
<1>3. Flow(e, Len(e), e)
  BY <1>1, <1>2 DEF Flow, Spelled
<1>4. Aligned(e, Len(e), e, e)
  BY <1>1, <1>2 DEF Aligned
<1>5. Way(e, Len(e), e, e) = e
  <2>1. Way(e, Len(e), e, e) = SubSeq(e, 0 + 1, 0)
    BY Zenon, <1>1, <1>3, <1>4, WayOpen
  <2> QED BY <1>1, <2>1
<1> QED BY <1>1, <1>3, <1>4, <1>5 DEF e

\* setup_remote starts an empty channel.
LEMMA ReconnectFlow ==
  ASSUME Reconnect
  PROVE  FlowInv' /\ FifoStep
<1>1. /\ queue' = <<>> /\ sendbuf' = <<>> /\ recvbuf' = <<>> /\ wire' = <<>>
      /\ sent' = <<>> /\ rcvd' = <<>> /\ ropen' /\ sopen'
  BY Zenon DEF Reconnect, ClearSender, ClearReceiver
<1>2. Stream' = <<>>
  BY <1>1 DEF Stream
<1>3. FlowInv'
  BY Zenon, <1>1, <1>2, EmptyFlow DEF FlowInv
<1>4. Transit' = <<>>
  BY Zenon, <1>1, <1>2, EmptyFlow DEF Transit, UnderWay, Way
<1>5. Newest' = <<>>
  BY <1>1 DEF Newest
<1> QED BY Zenon, <1>3, <1>4, <1>5, FifoRenew

\* Every step keeps the invariant, and is one of the abstract channel or none.
LEMMA NextFlow ==
  ASSUME IInv, FlowInv, [Next]_vars
  PROVE  FlowInv' /\ FifoStep
<1>1. CASE WriteError
  <2>1. /\ sopen /\ ~sopen' /\ ropen' = ropen /\ recvbuf' = recvbuf /\ rcvd' = rcvd
        /\ queue' = <<>> /\ sendbuf' = <<>> /\ wire' = wire /\ sent' = sent
    BY <1>1 DEF WriteError, CloseSender, ClearSender, receiver
  <2> QED BY Zenon, <2>1, CloseFlow
<1>2. CASE ReadEOF
  BY Zenon, <1>2, CloseReceiverFlow DEF ReadEOF
<1>3. CASE Hangup
  <2>1. CASE CloseReceiver /\ UNCHANGED <<sender, sent, rcvd>>
    BY Zenon, <2>1, CloseReceiverFlow
  <2>2. CASE sopen /\ CloseSender /\ wire' \in {wire, <<>>} /\ UNCHANGED <<receiver, sent, rcvd>>
    <3>1. /\ ~sopen' /\ ropen' = ropen /\ recvbuf' = recvbuf /\ rcvd' = rcvd
          /\ queue' = <<>> /\ sendbuf' = <<>> /\ sent' = sent
      BY Zenon, <2>2 DEF CloseSender, ClearSender, receiver
    <3> QED BY Zenon, <2>2, <3>1, CloseFlow
  <2> QED BY Zenon, <1>3, <2>1, <2>2 DEF Hangup
<1>4. CASE Reconnect
  BY Zenon, <1>4, ReconnectFlow
<1>5. CASE UNCHANGED vars
  <2>1. Stream' = Stream
    BY Zenon, <1>5 DEF vars, Stream
  <2>2. FlowInv'
    BY <1>5, <2>1 DEF vars, FlowInv
  <2>3. Transit' = Transit /\ Newest' = Newest
    BY Zenon, <1>5, <2>1 DEF vars, Transit, UnderWay, Newest
  <2> QED BY Zenon, <2>2, <2>3, FifoStutter
<1> QED
  BY SMTT(30), <1>1, <1>2, <1>3, <1>4, <1>5, EnqueueFlow, WriteFlow, ReadFlow DEF Next

LEMMA InitFlow == Init => FlowInv /\ Fifo!Init
<1> SUFFICES ASSUME Init PROVE FlowInv /\ Fifo!Init
  BY Zenon
<1>1. /\ queue = <<>> /\ sendbuf = <<>> /\ recvbuf = <<>> /\ wire = <<>>
      /\ sent = <<>> /\ rcvd = <<>> /\ ropen /\ sopen
  BY Zenon DEF Init
<1>2. Stream = <<>>
  BY <1>1 DEF Stream
<1>3. FlowInv
  BY Zenon, <1>1, <1>2, EmptyFlow DEF FlowInv
<1>4. UnderWay = <<>>
  BY Zenon, <1>1, <1>2, EmptyFlow DEF UnderWay, Way
<1> QED BY Zenon, <1>1, <1>3, <1>4 DEF Fifo!Init

\* Whatever the sizes of the messages, the stream and the backlog, queueing,
\* partial writes and reads, failures and reconnections implement the FIFO
\* channel: messages reach the recv callback whole, in the order in which
\* mc_enqueue_message took them, none twice, and none missing between two.
THEOREM Refinement == Spec => ImplementsFifo
<1>1. Spec => [](IInv /\ FlowInv)
  <2>1. Init => FlowInv
    BY Zenon, InitFlow
  <2>2. IInv /\ FlowInv /\ [Next]_vars => FlowInv'
    BY Zenon, NextFlow
  <2> QED BY Invariance, <2>1, <2>2, PTL DEF Spec
<1>2. Init => Fifo!Init
  BY Zenon, InitFlow
<1>3. IInv /\ FlowInv /\ [Next]_vars => [Fifo!Next]_Fifo!vars
  BY Zenon, NextFlow DEF FifoStep
<1> QED BY <1>1, <1>2, <1>3, PTL DEF Spec, ImplementsFifo, Fifo!Spec
=============================================================================
