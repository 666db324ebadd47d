--------------------------- MODULE UsbdSend_proofs ---------------------------
(***************************************************************************)
(* Proofs about the send half of the protocol layer, for packets and       *)
(* transfers of any size, an lbuf of any capacity and any number of        *)
(* transfers.                                                              *)
(***************************************************************************)
EXTENDS UsbdSend, SequenceTheorems, FiniteSetTheorems, TLAPS

\* Only a call of usbd_pipe_send_packet cuts packets and sets data_len.
Begun == call = "fill" \/ data_len # 0 => xfer >= 1

\* send_ok, and the event it leads to, are for a transfer that is in completed
\* and was not yet reported; and a transfer in progress is not in completed.
EventsAreOwed ==
  /\ completed \subseteq 1..xfer
  /\ data_len # 0 => xfer \notin completed
  /\ OneEventPerTransfer
  /\ send_ok \/ post = "event" => events < Cardinality(completed)

\* With one transfer at a time, nothing is on the way when the next one begins...
NothingOnTheWay ==
  xfer = 0 \/ xfer \in completed =>
    lbuf = << >> /\ dma = << >> /\ pkt = << >> /\ ~irq /\ call \in {"none", "wait"}

\* ... and the interrupt does not strike before the caller has started it.
CallerIsAlone ==
  /\ call \in {"fill", "send"} => dma = << >> /\ ~irq
  /\ irq => dma = << >>
  /\ call = "send" => pkt # << >>
  /\ call # "send" => pkt = << >>

\* data_len tells how much of the transfer was left at the packet that is on its
\* way, or is the next to go: what is queued behind it follows in steps of MaxPkt.
DataLenIsRight ==
  /\ pkt # << >> => pkt[1].left = data_len /\ pkt[1].xfer = xfer
  /\ dma # << >> => dma[1].left = data_len /\ dma[1].xfer = xfer
  /\ irq => /\ wire # << >>
            /\ wire[Len(wire)].left = data_len /\ wire[Len(wire)].xfer = xfer
  /\ lbuf # << >> =>
       lbuf[1].left = IF irq \/ dma # << >> \/ pkt # << >>
                        THEN data_len - MaxPkt ELSE data_len
LbufIsInSteps ==
  /\ \A i \in 1..Len(lbuf) : lbuf[i].xfer = xfer
  /\ \A i \in 1..(Len(lbuf) - 1) : lbuf[i + 1].left = lbuf[i].left - MaxPkt
  /\ call = "fill" /\ lbuf = << >> => left = data_len
  /\ call = "fill" /\ lbuf # << >> =>
       left = 0 \/ left = lbuf[Len(lbuf)].left - MaxPkt

-----------------------------------------------------------------------------
\* What the proofs use of the constants; that U16 is 65536 does not matter.
LEMMA PacketSizes ==
  /\ U16 \in Nat /\ MaxPkt \in Nat /\ MaxPkt >= 1 /\ MaxPkt < U16
  /\ Sizes \subseteq 0..(U16 - 1)
  /\ LbufCap \in Nat /\ LbufCap >= 1 /\ MaxTransfers \in Nat
<1>1. /\ MaxPkt \in 1..(U16 - 1) /\ Sizes \subseteq 0..(U16 - 1)
      /\ LbufCap \in Nat \ {0} /\ MaxTransfers \in Nat
  BY SendAssumption, Zenon
<1>2. U16 \in Nat
  BY DEF U16
<1> QED
  BY <1>1, <1>2

\* data_len is 0 after a packet exactly if the packet was of MaxPkt bytes and the
\* last; otherwise it goes on, or wraps.
LEMMA RemainingIs ==
  ASSUME data_len \in 0..(U16 - 1)
  PROVE  /\ Remaining \in 0..(U16 - 1)
         /\ Remaining = 0 => data_len = MaxPkt
         /\ data_len = MaxPkt => Remaining = 0
         /\ data_len > MaxPkt => Remaining = data_len - MaxPkt
<1>1. /\ Remaining = (data_len - MaxPkt + U16) % U16
      /\ U16 \in Nat /\ MaxPkt \in Nat /\ MaxPkt >= 1 /\ MaxPkt < U16
      /\ data_len \in Nat /\ data_len < U16
  BY PacketSizes DEF Remaining
<1>2. CASE data_len < MaxPkt
  <2>1. Remaining = data_len - MaxPkt + U16
    BY <1>1, <1>2
  <2> QED
    BY <1>1, <1>2, <2>1
<1>3. CASE data_len >= MaxPkt
  <2>1. Remaining = data_len - MaxPkt
    BY <1>1, <1>3
  <2> QED
    BY <1>1, <1>3, <2>1
<1> QED
  BY <1>1, <1>2, <1>3

\* The type invariant: the lbuf is never overfull, a packet is cut off at 1 byte
\* or more, and the controller has one packet at a time.
THEOREM TypeCorrect == Spec => [](TypeOK /\ Begun)
<1> USE DEF AtMostOne, Begun
<1>1. Init => TypeOK /\ Begun
  <2> SUFFICES ASSUME Init PROVE TypeOK /\ Begun
    OBVIOUS
  <2>1. << >> \in Seq(Packet) /\ Len(<< >>) = 0
    BY EmptySeq
  <2>2. 0 \in 0..(U16 - 1) /\ xfer \in 0..MaxTransfers /\ LbufCap >= 0
    BY PacketSizes DEF Init
  <2>3. /\ lbuf = << >> /\ pkt = << >> /\ dma = << >> /\ queued = << >> /\ wire = << >>
        /\ data_len = 0 /\ left = 0 /\ events = 0 /\ failed = {} /\ completed = {}
        /\ post = "idle" /\ call = "none"
    BY DEF Init
  <2>4. send_ok \in BOOLEAN /\ wake \in BOOLEAN /\ irq \in BOOLEAN /\ waits \in BOOLEAN
    BY DEF Init
  <2> QED
    BY <2>1, <2>2, <2>3, <2>4, PacketSizes DEF TypeOK
<1>2. TypeOK /\ Begun /\ [Next]_vars => (TypeOK /\ Begun)'
  <2> SUFFICES ASSUME TypeOK, Begun, [Next]_vars PROVE (TypeOK /\ Begun)'
    OBVIOUS
  <2> USE DEF TypeOK, pipeVars, callVars, histVars
  <2>1. ASSUME NEW size \in Sizes, NEW wait \in BOOLEAN, Send(size, wait)
        PROVE  (TypeOK /\ Begun)'
    <3>1. size \in 0..(U16 - 1) /\ xfer + 1 \in 0..MaxTransfers /\ xfer + 1 >= 1
      BY <2>1, PacketSizes DEF Send
    <3> QED
      BY <2>1, <3>1 DEF Send
  <2>2. CASE QueuePacket
    <3> DEFINE new == [xfer |-> xfer, left |-> left]
    <3>1. xfer \in 1..MaxTransfers /\ left \in 1..(U16 - 1)
      BY <2>2, PacketSizes DEF QueuePacket
    <3>2. new \in Packet
      BY <3>1 DEF Packet
    <3>3. left' \in 0..(U16 - 1)
      BY <2>2, PacketSizes DEF QueuePacket, LenOf
    <3>4. /\ lbuf' = Append(lbuf, new) /\ queued' = Append(queued, new)
          /\ Len(lbuf) < LbufCap
      BY <2>2 DEF QueuePacket
    <3> HIDE DEF new
    <3>5. /\ lbuf' \in Seq(Packet) /\ queued' \in Seq(Packet)
          /\ Len(lbuf') <= LbufCap
      BY <3>2, <3>4, PacketSizes, AppendProperties, LenProperties
    <3> QED
      BY <2>2, <3>3, <3>5 DEF QueuePacket
  <2>3. CASE AllocFails
    <3>1. /\ call' \in {"none", "wait"} /\ left' = 0
          /\ failed' = failed \cup {xfer}
          /\ UNCHANGED <<pipeVars, waits, wake, post, pkt, dma, irq, wire, events,
                         xfer, queued, completed>>
      BY <2>3 DEF AllocFails, Returned
    <3>2. xfer \in 1..MaxTransfers /\ 0 \in 0..(U16 - 1)
      BY <2>3, PacketSizes DEF AllocFails
    <3> QED
      BY <3>1, <3>2
  <2>4. CASE PopFirst
    <3>1. /\ UNCHANGED <<data_len, send_ok, wake, post, waits, left, dma, irq,
                         wire, events, histVars>>
          /\ call' \in {"none", "wait", "send"}
      BY <2>4 DEF PopFirst, Returned
    <3>2. CASE lbuf = << >>
      BY <2>4, <3>1, <3>2 DEF PopFirst
    <3>3. CASE lbuf # << >>
      <4>1. /\ Head(lbuf) \in Packet /\ Tail(lbuf) \in Seq(Packet)
            /\ Len(Tail(lbuf)) <= LbufCap
        BY <3>3, PacketSizes, HeadTailProperties, LenProperties
      <4>2. lbuf' = Tail(lbuf) /\ pkt' = <<Head(lbuf)>>
        BY <2>4, <3>3 DEF PopFirst
      <4>3. pkt' \in Seq(Packet) /\ Len(pkt') <= 1
        BY <4>1, <4>2
      <4> QED
        BY <3>1, <4>1, <4>2, <4>3
    <3> QED
      BY <3>2, <3>3
  <2>5. CASE StartSend
    <3>1. /\ dma' = pkt /\ pkt' = << >> /\ call' \in {"none", "wait"}
          /\ UNCHANGED <<pipeVars, waits, wake, post, left, irq, wire, events,
                         histVars>>
      BY <2>5 DEF StartSend, Returned
    <3> QED
      BY <3>1
  <2>6. CASE Wait
    BY <2>6 DEF Wait
  <2>7. CASE Transmit
    <3>1. wire' \in Seq(Packet)
      BY <2>7, ConcatProperties DEF Transmit
    <3> QED
      BY <2>7, <3>1 DEF Transmit
  <2>8. CASE TxProbe
    <3>1. /\ data_len' \in 0..(U16 - 1)
          /\ send_ok' \in BOOLEAN /\ wake' \in BOOLEAN
          /\ completed' \subseteq 1..MaxTransfers
          /\ data_len' # 0 => xfer >= 1
      <4>1. CASE data_len = 0
        BY <2>8, <4>1 DEF TxProbe, Account, AccountAs
      <4>2. CASE data_len # 0
        <5>1. xfer \in 1..MaxTransfers /\ xfer >= 1
          BY <4>2, PacketSizes
        <5>2. /\ data_len' = Remaining
              /\ \/ send_ok' = TRUE /\ wake' = TRUE /\ completed' = completed \cup {xfer}
                 \/ UNCHANGED <<send_ok, wake, completed>>
          BY <2>8, <4>2 DEF TxProbe, Account, AccountAs
        <5> QED
          BY <5>1, <5>2, RemainingIs
      <4> QED
        BY <4>1, <4>2
    <3>2. /\ lbuf' \in Seq(Packet) /\ Len(lbuf') <= LbufCap
          /\ dma' \in Seq(Packet) /\ Len(dma') <= 1
      <4>1. CASE lbuf = << >>
        BY <2>8, <4>1 DEF TxProbe, SendRemaining
      <4>2. CASE lbuf # << >>
        <5>1. /\ Head(lbuf) \in Packet /\ Tail(lbuf) \in Seq(Packet)
              /\ Len(Tail(lbuf)) <= LbufCap
          BY <4>2, PacketSizes, HeadTailProperties, LenProperties
        <5>2. lbuf' = Tail(lbuf) /\ dma' = <<Head(lbuf)>>
          BY <2>8, <4>2 DEF TxProbe, SendRemaining
        <5> QED
          BY <5>1, <5>2
      <4> QED
        BY <4>1, <4>2
    <3>3. /\ irq' = FALSE
          /\ UNCHANGED <<post, callVars, wire, events, xfer, failed, queued>>
      BY <2>8 DEF TxProbe
    <3> QED
      BY <3>1, <3>2, <3>3
  <2>9. CASE ResumedForAnother
    BY <2>9 DEF ResumedForAnother
  <2>10. CASE TxPost
    BY <2>10 DEF TxPost, WalkOn
  <2>11. CASE Event
    <3>1. events' = events + 1 /\ post' \in {"idle", "lost"}
      BY <2>11 DEF Event, WalkOn
    <3>2. send_ok' \in BOOLEAN
      BY <2>11, Zenon DEF Event
    <3>3. UNCHANGED <<lbuf, data_len, wake, callVars, dma, irq, wire, histVars>>
      BY <2>11 DEF Event
    <3> QED
      BY <3>1, <3>2, <3>3
  <2>12. CASE UNCHANGED vars
    BY <2>12 DEF vars
  <2> QED
    BY <2>1, <2>2, <2>3, <2>4, <2>5, <2>6, <2>7, <2>8, <2>9, <2>10, <2>11, <2>12
       DEF Next
<1> QED
  BY <1>1, <1>2, PTL DEF Spec

-----------------------------------------------------------------------------
\* However many transfers are under way, and although the thread is resumed for
\* other pipes, the upper layer gets no more events than there were completions.
THEOREM EventsFollowCompletions == Spec => []EventsAreOwed
<1>1. Init => EventsAreOwed
  BY FS_EmptySet DEF Init, EventsAreOwed, OneEventPerTransfer
<1>2. TypeOK /\ Begun /\ EventsAreOwed /\ [Next]_vars => EventsAreOwed'
  <2> SUFFICES ASSUME TypeOK, Begun, EventsAreOwed, [Next]_vars PROVE EventsAreOwed'
    OBVIOUS
  <2>0. /\ xfer \in Nat /\ events \in Nat
        /\ IsFiniteSet(completed) /\ Cardinality(completed) \in Nat
    <3>1. xfer \in Nat /\ events \in Nat
      BY PacketSizes DEF TypeOK
    <3>2. IsFiniteSet(1..xfer) /\ completed \in SUBSET (1..xfer)
      BY <3>1, FS_Interval DEF EventsAreOwed
    <3>3. IsFiniteSet(completed)
      BY <3>2, FS_Subset, Zenon
    <3>4. Cardinality(completed) \in Nat
      BY <3>3, FS_CardinalityType, Zenon
    <3> QED
      BY <3>1, <3>3, <3>4
  <2> USE DEF EventsAreOwed, OneEventPerTransfer
  <2>1. CASE UNCHANGED <<completed, xfer, events, send_ok, post, data_len>>
    BY <2>1
  <2>2. ASSUME NEW size \in Sizes, NEW wait \in BOOLEAN, Send(size, wait)
        PROVE  EventsAreOwed'
    <3>1. xfer' = xfer + 1 /\ UNCHANGED <<completed, events, send_ok, post>>
      BY <2>2 DEF Send, histVars
    <3>2. completed' \subseteq 1..xfer' /\ xfer' \notin completed'
      BY <2>0, <3>1
    <3> QED
      BY <3>1, <3>2
  <2>3. CASE TxProbe
    <3>1. UNCHANGED <<xfer, events, post>>
      BY <2>3 DEF TxProbe
    <3>2. CASE UNCHANGED <<data_len, send_ok, completed>>
      BY <3>1, <3>2
    <3>3. CASE data_len # 0 /\ data_len' # 0 /\ UNCHANGED <<send_ok, completed>>
      BY <3>1, <3>3
    <3>4. CASE data_len # 0 /\ data_len' = 0 /\ completed' = completed \cup {xfer}
      <4>1. Cardinality(completed') = Cardinality(completed) + 1
        BY <2>0, <3>4, FS_AddElement, Zenon
      <4>2. completed' \subseteq 1..xfer
        <5>1. xfer \in 1..xfer
          BY <2>0, <3>4, PacketSizes DEF Begun, TypeOK
        <5> QED
          BY <3>4, <5>1
      <4> QED
        BY <2>0, <3>1, <3>4, <4>1, <4>2
    <3> QED
      BY <2>3, <3>2, <3>3, <3>4 DEF TxProbe, Account, AccountAs
  <2>4. CASE TxPost
    BY <2>4 DEF TxPost, WalkOn, pipeVars, histVars
  <2>5. CASE Event
    <3>1. events' = events + 1 /\ post' \in {"idle", "lost"} /\ ~send_ok'
          /\ UNCHANGED <<completed, xfer, data_len>>
      BY <2>5 DEF Event, WalkOn, histVars
    <3>2. events < Cardinality(completed)
      BY <2>5 DEF Event
    <3> QED
      BY <2>0, <3>1, <3>2
  <2> QED
    BY <2>1, <2>2, <2>3, <2>4, <2>5
       DEF Next, QueuePacket, AllocFails, PopFirst, StartSend, Wait, Transmit,
           ResumedForAnother, pipeVars, histVars, vars
<1> QED
  BY <1>1, <1>2, TypeCorrect, PTL DEF Spec

\* No completion is told twice, however transfers overlap.
THEOREM OneEventEach == Spec => []OneEventPerTransfer
<1>1. EventsAreOwed => OneEventPerTransfer
  BY DEF EventsAreOwed
<1> QED
  BY <1>1, EventsFollowCompletions, PTL

-----------------------------------------------------------------------------
\* An upper layer that waits for its events waits for all of them.
LEMMA ToldOfAll ==
  ASSUME TypeOK, EventsAreOwed, ~Retries, Told
  PROVE  xfer = 0 \/ xfer \in completed
<1>1. xfer \in Nat /\ events \in Nat
  BY PacketSizes DEF TypeOK
<1>2. IsFiniteSet(1..xfer) /\ Cardinality(1..xfer) = xfer
  BY <1>1, FS_Interval
<1>3. completed \in SUBSET (1..xfer)
  BY DEF EventsAreOwed
<1>4. /\ Cardinality(completed) \in Nat
      /\ Cardinality(completed) <= Cardinality(1..xfer)
      /\ Cardinality(1..xfer) = Cardinality(completed) => completed = 1..xfer
  <2>1. IsFiniteSet(completed)
    BY <1>2, <1>3, FS_Subset, Zenon
  <2> QED
    BY <1>2, <1>3, <2>1, FS_Subset, FS_CardinalityType, Zenon
<1>5. events >= Cardinality(1..xfer)
  <2>1. (1..xfer) \ {} = 1..xfer
    OBVIOUS
  <2> QED
    BY <2>1 DEF Told
<1>6. events <= Cardinality(completed)
  BY DEF EventsAreOwed, OneEventPerTransfer
<1>7. completed = 1..xfer
  BY <1>1, <1>2, <1>4, <1>5, <1>6
<1> QED
  BY <1>1, <1>7

\* The first packet of an lbuf, and the lbuf when it is popped.
LEMMA Popped ==
  ASSUME TypeOK, lbuf # << >>
  PROVE  /\ Len(lbuf) \in Nat /\ Len(lbuf) >= 1
         /\ Head(lbuf) = lbuf[1] /\ Head(lbuf) \in Packet
         /\ Tail(lbuf) \in Seq(Packet) /\ Len(Tail(lbuf)) = Len(lbuf) - 1
         /\ \A i \in 1..(Len(lbuf) - 1) : Tail(lbuf)[i] = lbuf[i + 1]
         /\ lbuf[1].left \in Nat /\ lbuf[1].left >= 1
<1>1. lbuf \in Seq(Packet)
  BY DEF TypeOK
<1>2. /\ Len(lbuf) \in Nat /\ Len(lbuf) >= 1
      /\ Head(lbuf) = lbuf[1] /\ Head(lbuf) \in Packet
      /\ Tail(lbuf) \in Seq(Packet) /\ Len(Tail(lbuf)) = Len(lbuf) - 1
      /\ \A i \in 1..(Len(lbuf) - 1) : Tail(lbuf)[i] = lbuf[i + 1]
  BY <1>1, HeadTailProperties, LenProperties, EmptySeq
<1>3. lbuf[1].left \in 1..(U16 - 1)
  BY <1>2 DEF Packet
<1> QED
  BY <1>2, <1>3, PacketSizes

\* Popping splits the lbuf, and what precedes it does not matter.
LEMMA PoppedSplits ==
  ASSUME TypeOK, lbuf # << >>
  PROVE  /\ <<Head(lbuf)>> \in Seq(Packet)
         /\ \A s \in Seq(Packet) : s \o lbuf = (s \o <<Head(lbuf)>>) \o Tail(lbuf)
<1>1. lbuf \in Seq(Packet)
  BY DEF TypeOK
<1>2. lbuf = <<Head(lbuf)>> \o Tail(lbuf)
  BY <1>1, EmptySeq, LenProperties, SubSeqFull, SubSeqRecursiveFirst, TailIsSubSeq
<1>3. Head(lbuf) \in Packet /\ Tail(lbuf) \in Seq(Packet)
  BY Popped
<1>4. <<Head(lbuf)>> \in Seq(Packet)
  BY <1>3
<1>5. \A s, t, u \in Seq(Packet) : s \o (t \o u) = (s \o t) \o u
  BY ConcatAssociative
<1>6. \A s \in Seq(Packet) : s \o (<<Head(lbuf)>> \o Tail(lbuf))
                              = (s \o <<Head(lbuf)>>) \o Tail(lbuf)
  BY <1>3, <1>4, <1>5, Zenon
<1> QED
  BY <1>2, <1>4, <1>6, Zenon

\* What is cut off is a packet.
LEMMA NewIsPacket ==
  ASSUME TypeOK, Begun, QueuePacket
  PROVE  [xfer |-> xfer, left |-> left] \in Packet
<1>1. xfer \in 1..MaxTransfers /\ left \in 1..(U16 - 1)
  BY PacketSizes DEF QueuePacket, TypeOK, Begun
<1> QED
  BY <1>1 DEF Packet

\* A sequence of one packet.
LEMMA OnePacket ==
  ASSUME NEW s \in Seq(Packet), Len(s) <= 1, s # << >>
  PROVE  Len(s) = 1 /\ s[1] \in Packet /\ s = <<s[1]>>
<1>1. Len(s) \in Nat \ {0}
  BY EmptySeq, LenProperties, Zenon
<1>2. Len(s) = 1
  <2>1. \A n \in Nat \ {0} : n <= 1 => n = 1
    OBVIOUS
  <2> QED
    BY <1>1, <2>1, Zenon
<1>3. s[1] \in Packet
  BY <1>2, ElementOfSeq
<1>4. s = <<s[1]>>
  BY <1>2, <1>3
<1> QED
  BY <1>2, <1>3, <1>4

\* The controller has one packet at a time.
LEMMA OneInDma ==
  ASSUME TypeOK, dma # << >>
  PROVE  Len(dma) = 1 /\ dma[1] \in Packet /\ dma = <<dma[1]>>
<1>1. dma \in Seq(Packet) /\ Len(dma) <= 1
  BY DEF TypeOK, AtMostOne
<1> QED
  BY <1>1, OnePacket

\* What the host takes ends what it has.
LEMMA LastOfWire ==
  ASSUME TypeOK, dma # << >>
  PROVE  wire \o dma # << >> /\ (wire \o dma)[Len(wire \o dma)] = dma[1]
<1>1. wire \in Seq(Packet) /\ dma \in Seq(Packet) /\ Len(dma) = 1
  BY OneInDma DEF TypeOK
<1>4. /\ Len(wire \o dma) = Len(wire) + 1 /\ Len(wire) \in Nat
      /\ (wire \o dma)[Len(wire) + 1] = dma[1]
  BY <1>1, ConcatProperties, LenProperties
<1>5. wire \o dma # << >>
  BY <1>4, EmptySeq
<1> QED
  BY <1>4, <1>5

\* Popping the lbuf leaves it in steps, one step on.
LEMMA PoppedInSteps ==
  ASSUME TypeOK, LbufIsInSteps, lbuf # << >>
  PROVE  LET rest == Tail(lbuf)
         IN  /\ \A i \in 1..Len(rest) : rest[i].xfer = xfer
             /\ \A i \in 1..(Len(rest) - 1) : rest[i + 1].left = rest[i].left - MaxPkt
             /\ rest # << >> => rest[1].left = lbuf[1].left - MaxPkt
             /\ lbuf[1].xfer = xfer
<1> DEFINE rest == Tail(lbuf)
<1>1. /\ Len(lbuf) \in Nat /\ Len(lbuf) >= 1
      /\ rest \in Seq(Packet) /\ Len(rest) = Len(lbuf) - 1
      /\ \A i \in 1..(Len(lbuf) - 1) : rest[i] = lbuf[i + 1]
  BY Popped
<1>2. rest # << >> => Len(rest) >= 1
  BY <1>1, LenProperties, EmptySeq
<1> HIDE DEF rest
<1>3. /\ \A i \in 1..Len(lbuf) : lbuf[i].xfer = xfer
      /\ \A i \in 1..(Len(lbuf) - 1) : lbuf[i + 1].left = lbuf[i].left - MaxPkt
  BY DEF LbufIsInSteps
<1>4. ASSUME NEW i \in 1..Len(rest) PROVE rest[i].xfer = xfer
  <2>1. rest[i] = lbuf[i + 1] /\ i + 1 \in 1..Len(lbuf)
    BY <1>1
  <2> QED
    BY <1>3, <2>1
<1>5. ASSUME NEW i \in 1..(Len(rest) - 1)
      PROVE  rest[i + 1].left = rest[i].left - MaxPkt
  <2>1. i \in 1..(Len(lbuf) - 1) /\ i + 1 \in 1..(Len(lbuf) - 1)
    BY <1>1
  <2>2. rest[i] = lbuf[i + 1] /\ rest[i + 1] = lbuf[(i + 1) + 1]
    BY <1>1, <2>1
  <2> QED
    BY <1>3, <2>1, <2>2
<1>6. rest # << >> => rest[1].left = lbuf[1].left - MaxPkt
  BY <1>1, <1>2, <1>3
<1> QED
  BY <1>1, <1>3, <1>4, <1>5, <1>6 DEF rest

\* What the interrupt finds when it accounts for a packet: the packet was in the
\* transfer that data_len is about, which is over exactly if it was the last and whole.
LEMMA Accounted ==
  ASSUME TypeOK, CallerIsAlone, DataLenIsRight, TxProbe
  PROVE  /\ dma = << >> /\ pkt = << >> /\ irq /\ ~irq'
         /\ wire # << >> /\ wire[Len(wire)].xfer = xfer
         /\ wire[Len(wire)].left = data_len /\ data_len \in Nat
         /\ lbuf # << >> => /\ data_len' = data_len - MaxPkt /\ data_len' = lbuf[1].left
                            /\ dma' = <<lbuf[1]>> /\ lbuf' = Tail(lbuf)
                            /\ UNCHANGED completed
         /\ lbuf = << >> => dma' = << >> /\ lbuf' = << >>
         /\ \/ UNCHANGED completed
            \/ /\ completed' = completed \cup {xfer} /\ data_len = MaxPkt
               /\ lbuf = << >>
<1>1. /\ irq /\ ~irq' /\ dma = << >> /\ pkt = << >>
      /\ wire # << >> /\ wire[Len(wire)].xfer = xfer
      /\ wire[Len(wire)].left = data_len
      /\ lbuf # << >> => lbuf[1].left = data_len - MaxPkt
  BY DEF TxProbe, CallerIsAlone, DataLenIsRight
<1>2. data_len \in Nat /\ data_len # 0
  <2>0. wire \in Seq(Packet) /\ wire # << >>
    BY <1>1 DEF TypeOK
  <2>1. wire[Len(wire)] \in Packet
    <3>1. Len(wire) \in Nat /\ Len(wire) # 0
      BY <2>0, LenProperties, EmptySeq
    <3>2. Len(wire) \in 1..Len(wire)
      BY <3>1
    <3> QED
      BY <2>0, <3>2, ElementOfSeq
  <2>2. data_len \in 1..(U16 - 1)
    BY <1>1, <2>1 DEF Packet
  <2> QED
    BY <2>2, PacketSizes
<1>3. /\ data_len' = Remaining
      /\ IF Remaining = 0 THEN completed' = completed \cup {xfer}
                          ELSE UNCHANGED completed
  BY <1>2 DEF TxProbe, Account, AccountAs
<1>4. /\ Remaining = 0 => data_len = MaxPkt
      /\ data_len > MaxPkt => Remaining = data_len - MaxPkt
      /\ MaxPkt \in Nat
  BY RemainingIs, PacketSizes DEF TypeOK
<1>5. CASE lbuf = << >>
  BY <1>1, <1>2, <1>3, <1>4, <1>5 DEF TxProbe, SendRemaining
<1>6. CASE lbuf # << >>
  <2>1. /\ lbuf[1].left \in Nat /\ lbuf[1].left >= 1 /\ Head(lbuf) = lbuf[1]
    BY <1>6, Popped
  <2>2. Remaining = data_len - MaxPkt /\ Remaining # 0
    BY <1>1, <1>2, <1>4, <1>6, <2>1
  <2>3. dma' = <<lbuf[1]>> /\ lbuf' = Tail(lbuf)
    BY <1>6, <2>1 DEF TxProbe, SendRemaining
  <2> QED
    BY <1>1, <1>2, <1>3, <1>6, <2>2, <2>3
<1> QED
  BY <1>5, <1>6

\* With one transfer at a time, what is on the way is the rest of the transfer
\* that data_len is about.
THEOREM OneTransferOnTheWay ==
  ASSUME Serial, ~Retries
  PROVE  Spec => [](NothingOnTheWay /\ CallerIsAlone /\ DataLenIsRight /\ LbufIsInSteps)
<1> DEFINE IInv == NothingOnTheWay /\ CallerIsAlone /\ DataLenIsRight /\ LbufIsInSteps
<1>1. Init => IInv
  BY DEF Init, NothingOnTheWay, CallerIsAlone, DataLenIsRight, LbufIsInSteps
<1>2. TypeOK /\ EventsAreOwed /\ IInv /\ [Next]_vars => IInv'
  <2> SUFFICES ASSUME TypeOK, EventsAreOwed, IInv, [Next]_vars PROVE IInv'
    OBVIOUS
  <2> USE DEF NothingOnTheWay, CallerIsAlone, DataLenIsRight, LbufIsInSteps,
          pipeVars, callVars, histVars
  <2>0. /\ xfer \in Nat /\ xfer + 1 \notin completed /\ xfer + 1 # 0
        /\ call \in {"none", "fill", "send", "wait"}
        /\ Len(lbuf) \in Nat /\ (lbuf # << >> => Len(lbuf) >= 1)
    <3>1. lbuf # << >> => Len(lbuf) >= 1
      BY Popped
    <3>2. xfer \in Nat /\ lbuf \in Seq(Packet) /\ call \in {"none", "fill", "send", "wait"}
      BY PacketSizes DEF TypeOK
    <3>3. xfer + 1 \notin completed
      BY <3>2 DEF EventsAreOwed
    <3> QED
      BY <3>1, <3>2, <3>3, LenProperties
  <2>1. ASSUME NEW size \in Sizes, NEW wait \in BOOLEAN, Send(size, wait) PROVE IInv'
    <3>1. xfer = 0 \/ xfer \in completed
      BY <2>1, ToldOfAll DEF Send
    <3>2. lbuf = << >> /\ dma = << >> /\ pkt = << >> /\ ~irq
      BY <3>1
    <3>3. /\ xfer' = xfer + 1 /\ data_len' = size /\ left' = size /\ call' = "fill"
          /\ UNCHANGED <<lbuf, dma, pkt, irq, completed>>
      BY <2>1 DEF Send
    <3>4. Len(lbuf) = 0
      BY <3>2, EmptySeq
    <3> QED
      BY <2>0, <3>2, <3>3, <3>4
  <2>2. CASE QueuePacket
    <3> DEFINE new == [xfer |-> xfer, left |-> left]
    <3>1. /\ call = "fill" /\ left # 0
          /\ lbuf' = Append(lbuf, new)
          /\ left' = left - LenOf(left)
          /\ UNCHANGED <<data_len, call, pkt, dma, irq, wire, xfer, completed>>
      BY <2>2 DEF QueuePacket, TypeOK
    <3>2. left' = 0 \/ left' = left - MaxPkt
      BY <3>1, PacketSizes DEF LenOf, TypeOK
    <3>3. lbuf # << >> => left = lbuf[Len(lbuf)].left - MaxPkt
      BY <3>1
    <3>4. lbuf = << >> => left = data_len
      BY <3>1
    <3>5. new.xfer = xfer /\ new.left = left
      OBVIOUS
    <3>6. new \in Packet
      <4>1. xfer \in 1..MaxTransfers /\ left \in 1..(U16 - 1)
        BY <2>0, <3>1, PacketSizes DEF TypeOK
      <4> QED
        BY <4>1 DEF Packet
    <3> HIDE DEF new
    <3>7. /\ Len(lbuf') = Len(lbuf) + 1
          /\ lbuf'[Len(lbuf) + 1] = new
          /\ \A i \in 1..Len(lbuf) : lbuf'[i] = lbuf[i]
          /\ lbuf' # << >>
      <4>1. lbuf \in Seq(Packet)
        BY DEF TypeOK
      <4> QED
        BY <3>1, <3>6, <4>1, AppendProperties
    <3>8. \A i \in 1..Len(lbuf') : lbuf'[i].xfer = xfer
      BY <2>0, <3>5, <3>7
    <3>9. \A i \in 1..(Len(lbuf') - 1) : lbuf'[i + 1].left = lbuf'[i].left - MaxPkt
      <4> TAKE i \in 1..(Len(lbuf') - 1)
      <4>1. CASE i = Len(lbuf)
        <5>1. lbuf # << >> /\ lbuf'[i] = lbuf[Len(lbuf)] /\ lbuf'[i + 1] = new
          BY <2>0, <3>7, <4>1, EmptySeq
        <5> QED
          BY <3>3, <3>5, <5>1
      <4>2. CASE i # Len(lbuf)
        <5>1. i \in 1..(Len(lbuf) - 1) /\ i + 1 \in 1..Len(lbuf) /\ i \in 1..Len(lbuf)
          BY <2>0, <3>7, <4>2
        <5> QED
          BY <3>7, <5>1
      <4> QED
        BY <4>1, <4>2
    <3>10. lbuf'[1].left = data_len /\ lbuf'[Len(lbuf')].left = left
      <4>1. CASE lbuf = << >>
        <5>1. Len(lbuf) = 0
          BY <4>1, EmptySeq
        <5> QED
          BY <3>4, <3>5, <3>7, <4>1, <5>1
      <4>2. CASE lbuf # << >>
        <5>1. lbuf'[1] = lbuf[1] /\ lbuf[1].left = data_len
          BY <2>0, <3>1, <3>7, <4>2
        <5> QED
          BY <3>5, <3>7, <5>1
      <4> QED
        BY <4>1, <4>2
    <3>11. dma = << >> /\ ~irq /\ pkt = << >> /\ xfer # 0 /\ xfer \notin completed
      BY <3>1
    <3> QED
      BY <3>1, <3>2, <3>7, <3>8, <3>9, <3>10, <3>11
  <2>3. CASE AllocFails
    <3>1. /\ call = "fill" /\ call' \in {"none", "wait"}
          /\ UNCHANGED <<lbuf, data_len, pkt, dma, irq, wire, xfer, completed>>
      BY <2>3 DEF AllocFails, Returned
    <3> QED
      BY <3>1
  <2>4. CASE PopFirst
    <3>1. /\ call = "fill" /\ left = 0
          /\ UNCHANGED <<data_len, dma, irq, wire, xfer, completed>>
      BY <2>4 DEF PopFirst
    <3>2. CASE lbuf = << >>
      <4>1. UNCHANGED <<lbuf, pkt>> /\ call' \in {"none", "wait"}
        BY <2>4, <3>2 DEF PopFirst, Returned
      <4> QED
        BY <3>1, <3>2, <4>1
    <3>3. CASE lbuf # << >>
      <4>1. call' = "send" /\ pkt' = <<lbuf[1]>> /\ lbuf' = Tail(lbuf)
        BY <2>4, <3>3, Popped DEF PopFirst
      <4>2. lbuf[1].left = data_len /\ lbuf[1].xfer = xfer
        BY <3>1, <3>3, PoppedInSteps
      <4>3. /\ lbuf' # << >> => lbuf'[1].left = data_len - MaxPkt
            /\ \A i \in 1..Len(lbuf') : lbuf'[i].xfer = xfer
            /\ \A i \in 1..(Len(lbuf') - 1) : lbuf'[i + 1].left = lbuf'[i].left - MaxPkt
        BY <3>3, <4>1, <4>2, PoppedInSteps
      <4>4. pkt' # << >> /\ pkt'[1] = lbuf[1]
        BY <4>1
      <4> QED
        BY <3>1, <4>1, <4>2, <4>3, <4>4
    <3> QED
      BY <3>2, <3>3
  <2>5. CASE StartSend
    <3>1. /\ call = "send" /\ dma' = pkt /\ pkt' = << >> /\ call' \in {"none", "wait"}
          /\ UNCHANGED <<lbuf, data_len, irq, wire, xfer, completed>>
      BY <2>5 DEF StartSend, Returned
    <3> QED
      BY <3>1
  <2>6. CASE UNCHANGED <<lbuf, data_len, call, left, pkt, dma, irq, wire, xfer,
                         completed>>
    BY <2>6
  <2>7. CASE Transmit
    <3>1. /\ dma # << >> /\ ~irq /\ wire' = wire \o dma /\ dma' = << >> /\ irq'
          /\ UNCHANGED <<lbuf, data_len, call, left, pkt, xfer, completed>>
      BY <2>7 DEF Transmit
    <3>2. wire' # << >> /\ wire'[Len(wire')] = dma[1]
      BY <3>1, LastOfWire
    <3> QED
      BY <3>1, <3>2
  <2>8. CASE TxProbe
    <3>1. /\ dma = << >> /\ pkt = << >> /\ irq /\ ~irq' /\ data_len \in Nat
          /\ call \in {"none", "wait"}
          /\ UNCHANGED <<call, left, pkt, wire, xfer>>
      BY <2>0, <2>8, Accounted DEF TxProbe
    <3>2. CASE lbuf = << >>
      <4>1. dma' = << >> /\ lbuf' = << >>
        BY <2>8, <3>2, Accounted
      <4>2. Len(lbuf') = 0
        BY <4>1, EmptySeq
      <4> QED
        BY <3>1, <4>1, <4>2
    <3>3. CASE lbuf # << >>
      <4>1. /\ data_len' = data_len - MaxPkt /\ data_len' = lbuf[1].left
            /\ dma' = <<lbuf[1]>> /\ lbuf' = Tail(lbuf)
            /\ UNCHANGED completed
        BY <2>8, <3>3, Accounted
      <4>2. dma' # << >> /\ dma'[1] = lbuf[1] /\ lbuf[1].xfer = xfer
        BY <3>3, <4>1, PoppedInSteps
      <4>3. /\ lbuf' # << >> => lbuf'[1].left = data_len' - MaxPkt
            /\ \A i \in 1..Len(lbuf') : lbuf'[i].xfer = xfer
            /\ \A i \in 1..(Len(lbuf') - 1) : lbuf'[i + 1].left = lbuf'[i].left - MaxPkt
        BY <3>3, <4>1, PoppedInSteps
      <4>4. xfer # 0 /\ xfer \notin completed
        BY <3>1
      <4> QED
        BY <3>1, <4>1, <4>2, <4>3, <4>4
    <3> QED
      BY <3>2, <3>3
  <2> QED
    BY <2>1, <2>2, <2>3, <2>4, <2>5, <2>6, <2>7, <2>8
       DEF Next, Wait, ResumedForAnother, TxPost, Event, vars
<1> QED
  BY <1>1, <1>2, TypeCorrect, EventsFollowCompletions, PTL DEF Spec

-----------------------------------------------------------------------------
\* Between the caller, who starts a transfer, and the interrupt, which carries it
\* on, no packet is lost, doubled or overtaken, if the upper layer sends one
\* transfer at a time.
THEOREM PacketsAreConserved ==
  ASSUME Serial, ~Retries
  PROVE  Spec => []PacketsConserved
<1>0. /\ \A s, t, u \in Seq(Packet) : (s \o t) \o u = s \o (t \o u)
      /\ \A s \in Seq(Packet) : s \o << >> = s /\ << >> \o s = s
      /\ \A s, t \in Seq(Packet) : s \o t \in Seq(Packet)
  BY ConcatAssociative, ConcatEmptySeq, ConcatProperties
<1>1. Init => PacketsConserved
  <2> SUFFICES ASSUME Init PROVE queued = wire \o dma \o pkt \o lbuf
    BY DEF PacketsConserved
  <2>1. << >> \in Seq(Packet)
    BY EmptySeq
  <2>2. << >> \o << >> = << >>
    BY <1>0, <2>1
  <2>3. queued = << >> /\ wire = << >> /\ dma = << >> /\ pkt = << >> /\ lbuf = << >>
    BY DEF Init
  <2> QED
    BY <2>2, <2>3
<1>2. TypeOK /\ Begun /\ CallerIsAlone /\ DataLenIsRight /\ PacketsConserved
        /\ [Next]_vars
      => PacketsConserved'
  <2> SUFFICES ASSUME TypeOK, Begun, CallerIsAlone, DataLenIsRight,
                      PacketsConserved, [Next]_vars
               PROVE  PacketsConserved'
    OBVIOUS
  <2> SUFFICES queued' = wire' \o dma' \o pkt' \o lbuf'
    BY DEF PacketsConserved
  <2>0. /\ queued = wire \o dma \o pkt \o lbuf
        /\ wire \in Seq(Packet) /\ dma \in Seq(Packet) /\ pkt \in Seq(Packet)
        /\ lbuf \in Seq(Packet) /\ queued \in Seq(Packet)
    BY DEF PacketsConserved, TypeOK
  <2>1. CASE UNCHANGED <<queued, wire, dma, pkt, lbuf>>
    BY <2>0, <2>1
  <2>2. CASE QueuePacket
    <3> DEFINE new == [xfer |-> xfer, left |-> left]
    <3>1. /\ queued' = Append(queued, new) /\ lbuf' = Append(lbuf, new)
          /\ UNCHANGED <<wire, dma, pkt>>
      BY <2>2 DEF QueuePacket
    <3>2. \A s \in Seq(Packet) : Append(s, new) = s \o <<new>>
      BY AppendIsConcat
    <3>3. <<new>> \in Seq(Packet)
      <4>1. new \in Packet
        BY <2>2, <3>1, NewIsPacket
      <4> HIDE DEF new
      <4> QED
        BY <4>1
    <3> HIDE DEF new
    <3>4. (wire \o dma \o pkt) \o (lbuf \o <<new>>) = (wire \o dma \o pkt \o lbuf) \o <<new>>
      BY <1>0, <2>0, <3>3
    <3> QED
      BY <2>0, <3>1, <3>2, <3>4
  <2>3. CASE PopFirst
    <3>1. UNCHANGED <<queued, wire, dma>> /\ pkt = << >>
      BY <2>3 DEF PopFirst, CallerIsAlone, histVars
    <3>2. CASE lbuf = << >>
      BY <2>0, <2>3, <3>1, <3>2 DEF PopFirst
    <3>3. CASE lbuf # << >>
      <4>1. pkt' = <<Head(lbuf)>> /\ lbuf' = Tail(lbuf)
        BY <2>3, <3>3 DEF PopFirst
      <4>2. wire \o dma \in Seq(Packet) /\ wire \o dma \o << >> = wire \o dma
        BY <1>0, <2>0
      <4>3. (wire \o dma) \o lbuf = (wire \o dma \o <<Head(lbuf)>>) \o Tail(lbuf)
        BY <3>3, <4>2, PoppedSplits, Zenon
      <4> QED
        BY <2>0, <3>1, <4>1, <4>2, <4>3
    <3> QED
      BY <3>2, <3>3
  <2>4. CASE StartSend
    <3>1. /\ dma' = pkt /\ pkt' = << >> /\ dma = << >>
          /\ UNCHANGED <<queued, wire, lbuf>>
      BY <2>4 DEF StartSend, CallerIsAlone, histVars, pipeVars
    <3>2. wire \o << >> \o pkt = wire \o pkt \o << >>
      BY <1>0, <2>0
    <3> QED
      BY <2>0, <3>1, <3>2
  <2>5. CASE Transmit
    <3>1. /\ wire' = wire \o dma /\ dma' = << >>
          /\ UNCHANGED <<queued, pkt, lbuf>>
      BY <2>5 DEF Transmit, callVars, histVars, pipeVars
    <3>2. (wire \o dma) \o << >> = wire \o dma
      BY <1>0, <2>0
    <3> QED
      BY <2>0, <3>1, <3>2
  <2>6. CASE TxProbe
    <3>1. UNCHANGED <<queued, wire, pkt>> /\ dma = << >> /\ pkt = << >>
      BY <2>6, Accounted DEF TxProbe, callVars
    <3>2. CASE lbuf = << >>
      BY <2>0, <2>6, <3>1, <3>2, Accounted
    <3>3. CASE lbuf # << >>
      <4>1. dma' = <<Head(lbuf)>> /\ lbuf' = Tail(lbuf)
        BY <2>6, <3>3, Accounted, Popped
      <4>2. wire \o <<Head(lbuf)>> \in Seq(Packet)
        BY <1>0, <2>0, <3>3, PoppedSplits, Zenon
      <4>3. /\ wire \o << >> \o << >> = wire
            /\ wire \o <<Head(lbuf)>> \o << >> = wire \o <<Head(lbuf)>>
        <5>1. \A s \in Seq(Packet) : s \o << >> = s
          BY <1>0
        <5> QED
          BY <2>0, <4>2, <5>1, Zenon
      <4>4. wire \o lbuf = (wire \o <<Head(lbuf)>>) \o Tail(lbuf)
        BY <2>0, <3>3, PoppedSplits, Zenon
      <4> QED
        BY <2>0, <3>1, <4>1, <4>3, <4>4, Zenon
    <3> QED
      BY <3>2, <3>3
  <2> QED
    BY <2>1, <2>2, <2>3, <2>4, <2>5, <2>6
       DEF Next, Send, AllocFails, Wait, ResumedForAnother, TxPost, Event, pipeVars,
           callVars, histVars, vars
<1>3. Spec => [](CallerIsAlone /\ DataLenIsRight)
  BY OneTransferOnTheWay, PTL
<1> QED
  BY <1>1, <1>2, <1>3, TypeCorrect, PTL DEF Spec

\* send_ok is set for a transfer only when the host has all of it: data_len can
\* reach 0 at no other packet than the last.
THEOREM CompletionsAreSound ==
  ASSUME Serial, ~Retries
  PROVE  Spec => []CompletionIsSound
<1>1. Init => CompletionIsSound
  BY DEF Init, CompletionIsSound
<1>2. TypeOK /\ CallerIsAlone /\ DataLenIsRight /\ CompletionIsSound /\ [Next]_vars
      => CompletionIsSound'
  <2> SUFFICES ASSUME TypeOK, CallerIsAlone, DataLenIsRight, CompletionIsSound,
                      [Next]_vars
               PROVE  CompletionIsSound'
    OBVIOUS
  <2>0. wire \in Seq(Packet) /\ dma \in Seq(Packet) /\ Len(wire) \in Nat
    <3>1. wire \in Seq(Packet) /\ dma \in Seq(Packet)
      BY DEF TypeOK
    <3> QED
      BY <3>1, LenProperties
  <2>1. CASE UNCHANGED <<wire, completed>>
    BY <2>1 DEF CompletionIsSound
  <2>2. CASE Transmit
    <3>1. wire' = wire \o dma /\ completed' = completed
      BY <2>2 DEF Transmit, histVars
    <3>2. /\ Len(wire') \in Nat /\ Len(wire') >= Len(wire)
          /\ \A i \in 1..Len(wire) : wire'[i] = wire[i]
      BY <2>0, <3>1, ConcatProperties, LenProperties
    <3> SUFFICES ASSUME NEW t \in completed
                 PROVE  \E i \in 1..Len(wire') : wire'[i].xfer = t /\ IsLast(wire'[i])
      BY <3>1 DEF CompletionIsSound
    <3>3. PICK i \in 1..Len(wire) : wire[i].xfer = t /\ IsLast(wire[i])
      BY DEF CompletionIsSound
    <3>4. i \in 1..Len(wire') /\ wire'[i] = wire[i]
      BY <2>0, <3>2
    <3> QED
      BY <3>3, <3>4 DEF IsLast
  <2>3. CASE TxProbe
    <3>1. /\ wire' = wire /\ wire # << >> /\ wire[Len(wire)].xfer = xfer
          /\ wire[Len(wire)].left = data_len
          /\ \/ UNCHANGED completed
             \/ completed' = completed \cup {xfer} /\ data_len = MaxPkt
      BY <2>3, Accounted DEF TxProbe
    <3>2. CASE UNCHANGED completed
      BY <3>1, <3>2 DEF CompletionIsSound
    <3>3. CASE completed' = completed \cup {xfer} /\ data_len = MaxPkt
      <4>1. Len(wire) \in 1..Len(wire)
        BY <2>0, <3>1, EmptySeq
      <4>2. IsLast(wire[Len(wire)])
        BY <3>1, <3>3, PacketSizes DEF IsLast
      <4> QED
        BY <3>1, <3>3, <4>1, <4>2 DEF CompletionIsSound
    <3> QED
      BY <3>1, <3>2, <3>3
  <2> QED
    BY <2>1, <2>2, <2>3
       DEF Next, Send, QueuePacket, AllocFails, PopFirst, StartSend, Wait,
           ResumedForAnother, TxPost, Event, pipeVars, callVars, histVars, vars
<1>3. Spec => [](CallerIsAlone /\ DataLenIsRight)
  BY OneTransferOnTheWay, PTL
<1> QED
  BY <1>1, <1>2, <1>3, TypeCorrect, PTL DEF Spec

-----------------------------------------------------------------------------
\* What the abstract specification says after the substitution.
LEMMA OverIs ==
  ASSUME TypeOK, CompletionIsSound
  PROVE  /\ completed \subseteq Abstract!Over
         /\ IsFiniteSet(Abstract!Over)
<1>1. /\ wire \in Seq(Packet)
      /\ \A i \in 1..Len(wire) : wire[i] \in Packet
  <2>1. wire \in Seq(Packet)
    BY DEF TypeOK
  <2> QED
    BY <2>1, ElementOfSeq
<1>2. ASSUME NEW t \in completed PROVE t \in Abstract!Over
  <2>1. PICK i \in 1..Len(wire) : wire[i].xfer = t /\ IsLast(wire[i])
    BY DEF CompletionIsSound
  <2>2. wire[i] \in {p \in Packet : IsLast(p)}
    BY <1>1, <2>1
  <2> QED
    BY <2>1, <2>2 DEF Abstract!Over
<1>3. Abstract!Over \subseteq 1..MaxTransfers
  <2>1. \A i \in 1..Len(wire) : wire[i].xfer \in 1..MaxTransfers
    BY <1>1 DEF Packet
  <2> QED
    BY <2>1 DEF Abstract!Over
<1>4. IsFiniteSet(1..MaxTransfers) /\ Abstract!Over \in SUBSET (1..MaxTransfers)
  BY <1>3, FS_Interval, PacketSizes
<1>5. IsFiniteSet(Abstract!Over)
  BY <1>4, FS_Subset, Zenon
<1> QED
  BY <1>2, <1>5

\* The send half implements the abstract specification: a turn of the loop cuts,
\* the controller takes, the handler is told, and all else is a stutter.
THEOREM SendImplementsTransfers ==
  ASSUME Serial, ~Retries
  PROVE  Spec => RefinesTransfers
<1>1. Init => Abstract!Init
  BY DEF Init, Abstract!Init
<1>2. TypeOK /\ Begun /\ EventsAreOwed /\ PacketsConserved /\ CompletionIsSound
        /\ [Next]_vars
      => [Abstract!Next]_(Abstract!transferVars)
  <2> SUFFICES ASSUME TypeOK, Begun, EventsAreOwed, PacketsConserved,
                      CompletionIsSound, [Next]_vars
               PROVE  [Abstract!Next]_(Abstract!transferVars)
    OBVIOUS
  <2>0. /\ wire \in Seq(Packet) /\ dma \in Seq(Packet) /\ Len(dma) <= 1
        /\ pkt \in Seq(Packet) /\ lbuf \in Seq(Packet) /\ queued \in Seq(Packet)
        /\ queued = wire \o dma \o pkt \o lbuf
    BY DEF PacketsConserved, TypeOK, AtMostOne
  <2>1. CASE UNCHANGED <<queued, wire, events>>
    BY <2>1 DEF Abstract!transferVars
  <2>2. CASE QueuePacket
    <3> DEFINE new == [xfer |-> xfer, left |-> left]
    <3>1. queued' = Append(queued, new) /\ UNCHANGED <<wire, events>>
      BY <2>2 DEF QueuePacket
    <3>2. new \in Packet
      BY <2>2, NewIsPacket
    <3> HIDE DEF new
    <3>3. Len(queued') = Len(queued) + 1 /\ queued'[Len(queued')] = new
      BY <2>0, <3>1, <3>2, AppendProperties
    <3>4. Abstract!Cut
      BY <3>1, <3>2, <3>3 DEF Abstract!Cut
    <3> QED
      BY <3>4 DEF Abstract!Next
  <2>3. CASE Transmit
    <3>1. dma # << >> /\ wire' = wire \o dma /\ UNCHANGED <<queued, events>>
      BY <2>3 DEF Transmit, histVars
    <3>2. Len(dma) = 1 /\ dma = <<dma[1]>> /\ dma[1] \in Packet
      BY <3>1, OneInDma
    <3>3. wire' = Append(wire, dma[1])
      BY <2>0, <3>1, <3>2, AppendIsConcat
    <3>4. Len(wire) < Len(queued) /\ queued[Len(wire) + 1] = dma[1]
      <4>1. wire' \in Seq(Packet) /\ Len(wire') = Len(wire) + 1 /\ Len(wire) \in Nat
            /\ wire'[Len(wire) + 1] = dma[1]
        BY <2>0, <3>2, <3>3, AppendProperties, LenProperties
      <4>2. wire' \o pkt \in Seq(Packet) /\ Len(wire' \o pkt) >= Len(wire')
            /\ (wire' \o pkt)[Len(wire')] = wire'[Len(wire')]
        BY <2>0, <4>1, ConcatProperties, LenProperties
      <4> DEFINE sent == wire' \o pkt
      <4>3. queued = sent \o lbuf
        BY <2>0, <3>1
      <4>4. sent \in Seq(Packet) /\ Len(sent) \in Nat /\ Len(sent) >= Len(wire) + 1
            /\ sent[Len(wire) + 1] = dma[1]
        BY <4>1, <4>2, LenProperties
      <4> HIDE DEF sent
      <4>5. Len(queued) >= Len(sent) /\ queued[Len(wire) + 1] = sent[Len(wire) + 1]
            /\ Len(queued) \in Nat
        BY <2>0, <4>1, <4>3, <4>4, ConcatProperties, LenProperties
      <4> QED
        BY <4>1, <4>4, <4>5
    <3>5. Abstract!Take
      BY <3>1, <3>3, <3>4 DEF Abstract!Take
    <3> QED
      BY <3>5 DEF Abstract!Next
  <2>4. CASE Event
    <3>1. post = "event" /\ events' = events + 1 /\ UNCHANGED <<queued, wire>>
      BY <2>4 DEF Event, histVars
    <3>2. events < Cardinality(completed)
      BY <3>1 DEF EventsAreOwed
    <3>3. /\ Cardinality(completed) <= Cardinality(Abstract!Over)
          /\ Cardinality(completed) \in Nat /\ Cardinality(Abstract!Over) \in Nat
      <4>1. IsFiniteSet(Abstract!Over) /\ completed \in SUBSET Abstract!Over
        BY OverIs
      <4> QED
        BY <4>1, FS_Subset, FS_CardinalityType, Zenon
    <3>4. events < Abstract!Cardinality(Abstract!Over)
      <4>1. events \in Nat
        BY DEF TypeOK
      <4>2. events < Cardinality(Abstract!Over)
        BY <3>2, <3>3, <4>1
      <4> QED
        BY <4>2 DEF Cardinality, Abstract!Cardinality
    <3>5. Abstract!Tell
      BY <3>1, <3>4 DEF Abstract!Tell
    <3> QED
      BY <3>5 DEF Abstract!Next
  <2> QED
    BY <2>1, <2>2, <2>3, <2>4
       DEF Next, Send, AllocFails, PopFirst, StartSend, Wait, TxProbe,
           ResumedForAnother, TxPost, pipeVars, callVars, histVars, vars
<1> QED
  BY <1>1, <1>2, TypeCorrect, EventsFollowCompletions, PacketsAreConserved,
     CompletionsAreSound, PTL DEF Spec, RefinesTransfers, Abstract!Spec

\* With one transfer at a time neither the caller nor the interrupt calls
\* musb_send_packet while the endpoint holds a packet: they use the driver as
\* EndpointBuffers asks, so that what it promises is promised to them.
THEOREM SendKeepsToTheEndpoint ==
  ASSUME Serial, ~Retries
  PROVE  Spec => KeepsToTheEndpoint
<1> DEFINE Held == [e \in {1} |-> dma]
<1>1. Init => Endpoints!Init
  BY DEF Init, Endpoints!Init
<1>2. TypeOK /\ CallerIsAlone /\ [Next]_vars
      => [Endpoints!Next]_(Endpoints!bufferVars)
  <2> SUFFICES ASSUME TypeOK, CallerIsAlone, [Next]_vars
               PROVE  [Endpoints!Next]_(Endpoints!bufferVars)
    OBVIOUS
  <2>0. /\ dma \in Seq(Packet) /\ Len(dma) <= 1 /\ pkt \in Seq(Packet) /\ Len(pkt) <= 1
        /\ lbuf \in Seq(Packet) /\ wire \in Seq(Packet)
    BY DEF TypeOK, AtMostOne
  <2>1. CASE UNCHANGED <<dma, wire>>
    BY <2>1 DEF Endpoints!bufferVars
\* A packet is put where there was none.
  <2>2. ASSUME NEW p \in Packet, dma = << >>, dma' = <<p>>, wire' = wire
        PROVE  Endpoints!Next
    <3>1. Held[1] = << >> /\ Held'[1] = <<p>>
      BY <2>2
    <3>2. Len(<<p>>) = 1 /\ <<p>>[1] = p /\ [q \in Packet |-> 1][p] = 1
      OBVIOUS
    <3>3. Held' = [Held EXCEPT ![1] = Held'[1]]
      OBVIOUS
    <3>4. Endpoints!Put(1)
      BY <2>2, <3>1, <3>2, <3>3 DEF Endpoints!Put
    <3> QED  BY <3>4 DEF Endpoints!Next
  <2>3. CASE StartSend
    <3>1. call = "send" /\ dma' = pkt /\ wire' = wire
      BY <2>3 DEF StartSend
    <3>2. dma = << >> /\ pkt # << >>
      BY <3>1 DEF CallerIsAlone
    <3>3. pkt = <<pkt[1]>> /\ pkt[1] \in Packet
      BY <2>0, <3>2, OnePacket
    <3> QED  BY <2>2, <3>1, <3>2, <3>3
  <2>4. CASE TxProbe
    <3>1. irq /\ wire' = wire /\ SendRemaining
      BY <2>4 DEF TxProbe
    <3>2. dma = << >>
      BY <3>1 DEF CallerIsAlone
    <3>3. CASE lbuf = << >>
      BY <2>1, <3>1, <3>3 DEF SendRemaining
    <3>4. CASE lbuf # << >>
      <4>1. Head(lbuf) \in Packet /\ dma' = <<Head(lbuf)>>
        BY <2>0, <3>1, <3>4, HeadTailProperties DEF SendRemaining
      <4> QED  BY <2>2, <3>1, <3>2, <4>1
    <3> QED  BY <3>3, <3>4
  <2>5. CASE Transmit
    <3>1. dma # << >> /\ dma' = << >> /\ wire' = wire \o dma
      BY <2>5 DEF Transmit
    <3>2. dma = <<dma[1]>> /\ dma[1] \in Packet
      BY <2>0, <3>1, OneInDma
    <3>3. wire' = Append(wire, dma[1])
      BY <2>0, <3>1, <3>2, AppendIsConcat
    <3>4. Held[1] = dma /\ [q \in Packet |-> q][dma[1]] = dma[1]
      BY <3>2
    <3>5. Held' = [Held EXCEPT ![1] = << >>]
      BY <3>1
    <3>6. Endpoints!Take(1)
      BY <3>1, <3>3, <3>4, <3>5 DEF Endpoints!Take
    <3> QED  BY <3>6 DEF Endpoints!Next
  <2> QED
    BY <2>1, <2>3, <2>4, <2>5
       DEF Next, Send, QueuePacket, AllocFails, PopFirst, Wait,
           ResumedForAnother, TxPost, Event, pipeVars, callVars, histVars, vars
<1> QED
  BY <1>1, <1>2, TypeCorrect, OneTransferOnTheWay, PTL
     DEF Spec, KeepsToTheEndpoint, Endpoints!Spec
=============================================================================
