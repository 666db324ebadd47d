------------------------- MODULE UsbdControl_proofs -------------------------
(***************************************************************************)
(* Proofs about the control pipe, for an lbuf of any capacity and any      *)
(* number of packets in either direction; and about the requests and       *)
(* descriptors it is there for, as ch9.h defines them.                     *)
(***************************************************************************)
EXTENDS UsbdControl, SequenceTheorems, TLAPS

C9 == INSTANCE UsbChapter9

\* The history of pushes is as long as the packets received and the replies.
Counted ==
  /\ received <= Len(pushed)
  /\ Len(pushed) - received <= MaxReplies

\* As long as replies are begun in EP0_DATA_IN_ST and the state is changed in
\* between transfers, whoever may send from the lbuf finds replies in it: while one
\* is being sent, nothing of the host is uploaded, be it for the state or because
\* the transfer was aborted.
RepliesAreAlone ==
  ~careless =>
    /\ state = "EP0_DATA_IN_ST" \/ replying =>
         \A i \in 1..Len(lbuf) : lbuf[i].kind = "reply"
    /\ replying => state = "EP0_DATA_IN_ST" \/ transfer_state # NoAbort

-----------------------------------------------------------------------------
\* What is assumed of the constants.
LEMMA Bounds ==
  /\ LbufCap \in Nat /\ LbufCap >= 1
  /\ HostSends \subseteq FromHost
  /\ MaxReceived \in Nat /\ MaxReplies \in Nat
BY ControlAssumption

\* What a push does.
LEMMA Pushed ==
  ASSUME TypeOK, NEW kind \in Kind, Push(kind),
         Len(pushed) < MaxReceived + MaxReplies
  PROVE  /\ lbuf' \in Seq(Packet) /\ Len(lbuf') <= LbufCap
         /\ Len(lbuf') = Len(lbuf) + 1 /\ lbuf'[Len(lbuf) + 1].kind = kind
         /\ \A i \in 1..Len(lbuf) : lbuf'[i] = lbuf[i]
         /\ pushed' \in Seq(Packet) /\ Len(pushed') = Len(pushed) + 1
         /\ pushed = taken \o lbuf => pushed' = taken \o lbuf'
<1> DEFINE new == [id |-> Len(pushed) + 1, kind |-> kind]
<1>1. lbuf \in Seq(Packet) /\ pushed \in Seq(Packet) /\ taken \in Seq(Packet)
  BY DEF TypeOK
<1>2. Len(pushed) \in Nat /\ Len(lbuf) \in Nat
  BY <1>1, LenProperties
<1>3. new \in Packet
  <2>1. Len(pushed) + 1 \in 1..(MaxReceived + MaxReplies)
    BY <1>2, Bounds
  <2> QED
    BY <2>1 DEF Packet
<1>4. lbuf' = Append(lbuf, new) /\ pushed' = Append(pushed, new) /\ Len(lbuf) < LbufCap
  BY DEF Push, Enqueue
<1>5. new.kind = kind
  OBVIOUS
<1> HIDE DEF new
<1>6. /\ lbuf' \in Seq(Packet) /\ Len(lbuf') = Len(lbuf) + 1
      /\ lbuf'[Len(lbuf) + 1] = new
      /\ \A i \in 1..Len(lbuf) : lbuf'[i] = lbuf[i]
      /\ pushed' \in Seq(Packet) /\ Len(pushed') = Len(pushed) + 1
  BY <1>1, <1>3, <1>4, AppendProperties
<1>7. pushed = taken \o lbuf => pushed' = taken \o lbuf'
  <2>1. <<new>> \in Seq(Packet)
    BY <1>3
  <2>2. lbuf' = lbuf \o <<new>> /\ pushed' = pushed \o <<new>>
    BY <1>1, <1>3, <1>4, AppendIsConcat
  <2>3. \A s, t, u \in Seq(Packet) : (s \o t) \o u = s \o (t \o u)
    BY ConcatAssociative
  <2>4. (taken \o lbuf) \o <<new>> = taken \o (lbuf \o <<new>>)
    BY <1>1, <2>1, <2>3, Zenon
  <2> QED
    BY <2>2, <2>4, Zenon
<1>8. Len(lbuf) + 1 <= LbufCap
  <2>1. Len(lbuf) < LbufCap
    BY <1>4
  <2> QED
    BY <1>2, <2>1, Bounds
<1> QED
  BY <1>5, <1>6, <1>7, <1>8, Zenon

\* What a pop does, whoever does it.
LEMMA Popped ==
  ASSUME TypeOK, lbuf # << >>, Pop
  PROVE  /\ Head(lbuf) \in Packet /\ Head(lbuf) = lbuf[1] /\ Len(lbuf) >= 1
         /\ lbuf' \in Seq(Packet) /\ Len(lbuf') = Len(lbuf) - 1
         /\ Len(lbuf') <= LbufCap
         /\ \A i \in 1..Len(lbuf') : lbuf'[i] = lbuf[i + 1]
         /\ taken' \in Seq(Packet) /\ Len(taken') = Len(taken) + 1
         /\ taken' \o lbuf' = taken \o lbuf
<1>1. lbuf \in Seq(Packet) /\ taken \in Seq(Packet) /\ Len(lbuf) <= LbufCap
  BY DEF TypeOK
<1>2. lbuf' = Tail(lbuf) /\ taken' = Append(taken, Head(lbuf))
  BY DEF Pop
<1>3. /\ Len(lbuf) \in Nat /\ Len(lbuf) >= 1
      /\ Head(lbuf) \in Packet /\ Head(lbuf) = lbuf[1]
      /\ Tail(lbuf) \in Seq(Packet) /\ Len(Tail(lbuf)) = Len(lbuf) - 1
      /\ \A i \in 1..Len(Tail(lbuf)) : Tail(lbuf)[i] = lbuf[i + 1]
  BY <1>1, HeadTailProperties, LenProperties, EmptySeq
<1>4. taken' \in Seq(Packet) /\ Len(taken') = Len(taken) + 1
  BY <1>1, <1>2, <1>3, AppendProperties
<1>5. taken' \o lbuf' = taken \o lbuf
  <2>1. lbuf = <<Head(lbuf)>> \o Tail(lbuf)
    BY <1>1, EmptySeq, LenProperties, SubSeqFull, SubSeqRecursiveFirst, TailIsSubSeq
  <2>2. <<Head(lbuf)>> \in Seq(Packet) /\ taken' = taken \o <<Head(lbuf)>>
    BY <1>1, <1>2, <1>3, AppendIsConcat
  <2>3. \A s, t, u \in Seq(Packet) : (s \o t) \o u = s \o (t \o u)
    BY ConcatAssociative
  <2>4. (taken \o <<Head(lbuf)>>) \o Tail(lbuf) = taken \o (<<Head(lbuf)>> \o Tail(lbuf))
    BY <1>1, <1>3, <2>2, <2>3, Zenon
  <2> QED
    BY <1>2, <2>1, <2>2, <2>4, Zenon
<1> QED
  BY <1>1, <1>2, <1>3, <1>4, <1>5, Bounds

\* What an interrupt on endpoint 0 does: it aborts, uploads, sends what is left
\* in the lbuf, or does nothing.
LEMMA Ep0Cases ==
  ASSUME TypeOK, NEW kind \in HostSends \cup {"garbage"}, NEW abort \in Abort \cup {NoAbort},
         NEW txdone \in BOOLEAN, Ep0Interrupt(kind, abort, txdone)
  PROVE  /\ kind \in Kind
         /\ transfer_state' \in Abort \cup {NoAbort}
         /\ transfer_state # NoAbort => transfer_state' # NoAbort
         /\ busy' \in BOOLEAN
         /\ wake' \in BOOLEAN
         /\ UNCHANGED <<pc, pkt, replying, handled, careless>>
         /\ \/ /\ state' = "EP0_SETUP_ST" /\ transfer_state' # NoAbort
               /\ UNCHANGED <<lbuf, received, pushed, taken, sent>>
            \/ /\ transfer_state' = NoAbort /\ state \in Uploading /\ state' = state
               /\ received < MaxReceived /\ received' = received + 1
               /\ Push(kind)
               /\ UNCHANGED <<taken, sent>>
            \/ /\ state = "EP0_DATA_IN_ST" /\ state' = state
               /\ lbuf # << >> /\ Pop /\ sent' = Append(sent, Head(lbuf))
               /\ UNCHANGED <<pushed, received>>
            \/ UNCHANGED <<state, lbuf, received, pushed, taken, sent>>
<1>1. kind \in Kind
  BY Bounds DEF Kind
<1>2. /\ transfer_state' \in Abort \cup {NoAbort}
      /\ transfer_state # NoAbort => transfer_state' # NoAbort
  BY DEF Ep0Interrupt, TypeOK, Abort, NoAbort
<1>3. busy' \in BOOLEAN
  <2>1. busy' = ((busy /\ ~txdone) \/ sent' # sent)
    BY DEF Ep0Interrupt
  <2> QED
    BY <2>1, Zenon
<1>4. UNCHANGED <<pc, pkt, replying, handled, careless>>
  BY DEF Ep0Interrupt, threadVars
<1>5. ProbeWith(kind, Abort, Uploading)
  BY DEF Ep0Interrupt, Ep0Probe
<1>6. CASE transfer_state' \in Abort
  <2>1. /\ state' = "EP0_SETUP_ST"
        /\ UNCHANGED <<lbuf, wake, received, pushed, taken, sent>>
    BY <1>5, <1>6 DEF ProbeWith
  <2>2. transfer_state' # NoAbort
    BY <1>6 DEF Abort, NoAbort
  <2> QED
    BY <1>1, <1>2, <1>3, <1>4, <2>1, <2>2 DEF TypeOK
<1>7. CASE transfer_state' \notin Abort
  <2>1. transfer_state' = NoAbort
    BY <1>2, <1>7
  <2>2. /\ state' = state
        /\ \/ state \in Uploading /\ RxProbe(kind)
           \/ state = "EP0_DATA_IN_ST" /\ TxProbe
           \/ UNCHANGED <<lbuf, wake, received, pushed, taken, sent>>
    BY <1>5, <1>7 DEF ProbeWith
  <2>3. CASE state \in Uploading /\ RxProbe(kind)
    <3>1. CASE received < MaxReceived /\ Push(kind) /\ received' = received + 1 /\ wake'
      BY <1>1, <1>2, <1>3, <1>4, <2>1, <2>2, <2>3, <3>1
         DEF RxProbe, RxProbeWith
    <3>2. CASE UNCHANGED <<lbuf, pushed, received, wake>>
      BY <1>1, <1>2, <1>3, <1>4, <2>1, <2>2, <2>3, <3>2
         DEF RxProbe, RxProbeWith, TypeOK
    <3> QED
      BY <2>3, <3>1, <3>2 DEF RxProbe, RxProbeWith
  <2>4. CASE state = "EP0_DATA_IN_ST" /\ TxProbe
    <3>1. wake' \in BOOLEAN
      BY <2>4 DEF TxProbe, TypeOK
    <3> QED
      BY <1>1, <1>2, <1>3, <1>4, <2>1, <2>2, <2>4, <3>1 DEF TxProbe
  <2>5. CASE UNCHANGED <<lbuf, wake, received, pushed, taken, sent>>
    BY <1>1, <1>2, <1>3, <1>4, <2>1, <2>2, <2>5 DEF TypeOK
  <2> QED
    BY <2>2, <2>3, <2>4, <2>5
<1> QED
  BY <1>6, <1>7

-----------------------------------------------------------------------------
\* The type invariant: the lbuf is never overfull, and the thread never handles
\* what lbuf_pop() did not give it.
THEOREM TypeCorrect == Spec => [](TypeOK /\ Counted)
<1>1. Init => TypeOK /\ Counted
  <2> SUFFICES ASSUME Init PROVE TypeOK /\ Counted
    OBVIOUS
  <2>1. \A S : << >> \in Seq(S) /\ Len(<< >>) = 0
    OBVIOUS
  <2>2. /\ state \in State /\ transfer_state \in Abort \cup {NoAbort}
        /\ wake \in BOOLEAN /\ replying \in BOOLEAN /\ busy \in BOOLEAN
        /\ pc = "idle" /\ pkt = NoPkt /\ careless \in BOOLEAN
    BY DEF Init, State
  <2>3. /\ lbuf = << >> /\ pushed = << >> /\ taken = << >> /\ sent = << >>
        /\ handled = << >> /\ received = 0
    BY DEF Init
  <2>4. 0 <= LbufCap /\ 0 \in 0..MaxReceived /\ 0 - 0 <= MaxReplies
    BY Bounds
  <2> QED
    BY <2>1, <2>2, <2>3, <2>4 DEF TypeOK, Counted
<1>2. TypeOK /\ Counted /\ [Next]_vars => (TypeOK /\ Counted)'
  <2> SUFFICES ASSUME TypeOK, Counted, [Next]_vars PROVE (TypeOK /\ Counted)'
    OBVIOUS
  <2>0. /\ sent \in Seq(Packet) /\ lbuf \in Seq(Packet) /\ Len(pushed) \in Nat
        /\ received \in 0..MaxReceived /\ received \in Nat
    <3>1. /\ sent \in Seq(Packet) /\ lbuf \in Seq(Packet) /\ pushed \in Seq(Packet)
          /\ received \in 0..MaxReceived
      BY DEF TypeOK
    <3> QED
      BY <3>1, LenProperties, Bounds
  <2> USE DEF TypeOK, Counted, threadVars
  <2>1. ASSUME NEW kind \in HostSends \cup {"garbage"}, NEW abort \in Abort \cup {NoAbort},
               NEW txdone \in BOOLEAN, Ep0Interrupt(kind, abort, txdone)
        PROVE  (TypeOK /\ Counted)'
    <3>1. /\ transfer_state' \in Abort \cup {NoAbort}
          /\ busy' \in BOOLEAN /\ wake' \in BOOLEAN /\ kind \in Kind
          /\ UNCHANGED <<pc, pkt, replying, handled, careless>>
      BY <2>1, Ep0Cases
    <3>2. CASE /\ state' \in State
               /\ UNCHANGED <<lbuf, received, pushed, taken, sent>>
      BY <3>1, <3>2
    <3>3. CASE /\ state' = state /\ received < MaxReceived /\ received' = received + 1
               /\ Push(kind) /\ UNCHANGED <<taken, sent>>
      <4>1. Len(pushed) < MaxReceived + MaxReplies
        BY <2>0, <3>3, Bounds
      <4>2. /\ lbuf' \in Seq(Packet) /\ Len(lbuf') <= LbufCap
            /\ pushed' \in Seq(Packet) /\ Len(pushed') = Len(pushed) + 1
        BY <3>1, <3>3, <4>1, Pushed
      <4>3. received' \in 0..MaxReceived
        BY <2>0, <3>3, Bounds
      <4>4. Counted'
        BY <2>0, <3>3, <4>2, Bounds
      <4> QED
        BY <3>1, <3>3, <4>2, <4>3, <4>4
    <3>4. CASE /\ state' = state /\ lbuf # << >> /\ Pop
               /\ sent' = Append(sent, Head(lbuf)) /\ UNCHANGED <<pushed, received>>
      <4>1. /\ Head(lbuf) \in Packet /\ lbuf' \in Seq(Packet) /\ Len(lbuf') <= LbufCap
            /\ taken' \in Seq(Packet)
        BY <3>4, Popped
      <4>2. sent' \in Seq(Packet)
        BY <2>0, <3>4, <4>1, AppendProperties
      <4> QED
        BY <3>1, <3>4, <4>1, <4>2
    <3> QED
      <4>1. "EP0_SETUP_ST" \in State
        BY DEF State
      <4> QED
        BY <2>1, <3>2, <3>3, <3>4, <4>1, Ep0Cases
  <2>2. CASE Dispatch \/ TestEmpty \/ Suspend
    BY <2>2 DEF Dispatch, TestEmpty, Suspend
  <2>3. CASE PopPacket
    <3>1. UNCHANGED <<state, transfer_state, wake, replying, busy, received, pushed,
                      sent, handled, careless>>
      BY <2>3 DEF PopPacket
    <3>2. CASE lbuf = << >>
      BY <2>3, <3>1, <3>2 DEF PopPacket
    <3>3. CASE lbuf # << >>
      <4>1. pc' = "handle" /\ pkt' = Head(lbuf) /\ Pop
        BY <2>3, <3>3 DEF PopPacket
      <4>2. /\ Head(lbuf) \in Packet /\ lbuf' \in Seq(Packet) /\ Len(lbuf') <= LbufCap
            /\ taken' \in Seq(Packet)
        BY <3>3, <4>1, Popped
      <4> QED
        BY <3>1, <4>1, <4>2
    <3> QED
      BY <3>2, <3>3
  <2>4. CASE SetupProcess \/ DataProcess
    <3>1. PICK use \in {"upper", "switch", "in", "out", "nothing"} :
            Handle(use) /\ busy' \in {busy, TRUE}
      BY <2>4 DEF SetupProcess, DataProcess
    <3>2. handled' = Append(handled, [kind |-> pkt.kind, use |-> use])
      BY <3>1 DEF Handle
    <3>3. pkt.kind \in Kind
      BY DEF Packet, NoPkt, Kind
    <3>4. handled' \in Seq([kind : Kind, use : {"upper", "switch", "in", "out", "nothing"}])
      BY <3>2, <3>3
    <3> QED
      BY <3>1, <3>4 DEF Handle
  <2>5. ASSUME NEW s \in State, SetState(s) PROVE (TypeOK /\ Counted)'
    <3>1. /\ state' = s
          /\ UNCHANGED <<transfer_state, lbuf, wake, pc, pkt, replying, busy,
                         received, pushed, taken, sent, handled>>
      BY <2>5 DEF SetState
    <3>2. careless' \in BOOLEAN
      <4>1. careless' = (careless \/ ~InBetween)
        BY <2>5 DEF SetState
      <4> QED
        BY <4>1, Zenon
    <3> QED
      BY <3>1, <3>2
  <2>6. CASE QueueReply
    <3>1. /\ Len(pushed) - received < MaxReplies /\ Push("reply") /\ replying' = TRUE
          /\ UNCHANGED <<state, transfer_state, wake, pc, pkt, busy, received, taken,
                         sent, handled>>
      BY <2>6 DEF QueueReply, threadVars
    <3>0. careless' \in BOOLEAN
      BY <2>6, Zenon DEF QueueReply
    <3>2. Len(pushed) < MaxReceived + MaxReplies
      BY <2>0, <3>1, Bounds
    <3>3. /\ lbuf' \in Seq(Packet) /\ Len(lbuf') <= LbufCap
          /\ pushed' \in Seq(Packet) /\ Len(pushed') = Len(pushed) + 1
      <4>1. "reply" \in Kind
        BY DEF Kind
      <4> QED
        BY <3>1, <3>2, <4>1, Pushed
    <3>4. Counted'
      <4>1. /\ Len(pushed') = Len(pushed) + 1 /\ received' = received
            /\ Len(pushed) - received < MaxReplies /\ received <= Len(pushed)
        BY <3>1, <3>3
      <4>2. \A n \in Nat, r \in Nat : n - r < MaxReplies => (n + 1) - r <= MaxReplies
        BY Bounds
      <4>3. \A n \in Nat, r \in Nat : r <= n => r <= n + 1
        OBVIOUS
      <4>4. received' <= Len(pushed') /\ Len(pushed') - received' <= MaxReplies
        BY <2>0, <4>1, <4>2, <4>3, Zenon
      <4> QED
        BY <4>4 DEF Counted
    <3> QED
      BY <3>0, <3>1, <3>3, <3>4
  <2>7. CASE ReplyFails
    BY <2>7 DEF ReplyFails
  <2>8. CASE StartReply
    <3>1. /\ replying' = FALSE
          /\ UNCHANGED <<state, transfer_state, wake, pc, pkt, received, pushed,
                         handled, careless>>
      BY <2>8 DEF StartReply
    <3>2. CASE lbuf = << >>
      BY <2>8, <3>1, <3>2 DEF StartReply
    <3>3. CASE lbuf # << >>
      <4>1. Pop /\ sent' = Append(sent, Head(lbuf)) /\ busy' = TRUE
        BY <2>8, <3>3 DEF StartReply
      <4>2. /\ Head(lbuf) \in Packet /\ lbuf' \in Seq(Packet) /\ Len(lbuf') <= LbufCap
            /\ taken' \in Seq(Packet)
        BY <3>3, <4>1, Popped
      <4>3. sent' \in Seq(Packet)
        BY <2>0, <4>1, <4>2, AppendProperties
      <4> QED
        BY <3>1, <4>1, <4>2, <4>3
    <3> QED
      BY <3>2, <3>3
  <2>9. CASE UNCHANGED vars
    BY <2>9 DEF vars
  <2> QED
    BY <2>1, <2>2, <2>3, <2>4, <2>5, <2>6, <2>7, <2>8, <2>9 DEF Next
<1> QED
  BY <1>1, <1>2, PTL DEF Spec

-----------------------------------------------------------------------------
\* Once a transfer was aborted no packet of the host is uploaded again, whatever
\* the upper layer does to the state.
THEOREM DeafOnceAborted == Spec => DeafAfterAbort
<1>1. TypeOK /\ [Next]_vars => [transfer_state # NoAbort => received' = received]_vars
  <2> SUFFICES ASSUME TypeOK, Next, transfer_state # NoAbort PROVE received' = received
    BY DEF vars
  <2>1. ASSUME NEW kind \in HostSends \cup {"garbage"}, NEW abort \in Abort \cup {NoAbort},
               NEW txdone \in BOOLEAN, Ep0Interrupt(kind, abort, txdone)
        PROVE  received' = received
    BY <2>1, Ep0Cases
  <2> QED
    BY <2>1 DEF Next, Dispatch, TestEmpty, PopPacket, Suspend, SetupProcess, DataProcess,
                Handle, SetState, QueueReply, ReplyFails, StartReply
<1> QED
  BY <1>1, TypeCorrect, PTL DEF Spec, DeafAfterAbort

-----------------------------------------------------------------------------
\* Three parties empty the lbuf, one of them with a test and a pop that the others
\* can come between: every packet is taken by one of them, in the order of the
\* queue, and nothing else is.
THEOREM EveryPacketIsTakenOnce == Spec => []TakenOnce
<1>1. Init => TakenOnce
  <2> SUFFICES ASSUME Init PROVE TakenOnce
    OBVIOUS
  <2>1. << >> = << >> \o << >> /\ Len(<< >>) = 0
    BY ConcatEmptySeq, EmptySeq
  <2>2. /\ lbuf = << >> /\ pushed = << >> /\ taken = << >> /\ sent = << >>
        /\ handled = << >> /\ pc = "idle"
    BY DEF Init
  <2> QED
    BY <2>1, <2>2 DEF TakenOnce
<1>2. TypeOK /\ Counted /\ TakenOnce /\ [Next]_vars => TakenOnce'
  <2> SUFFICES ASSUME TypeOK, Counted, TakenOnce, [Next]_vars PROVE TakenOnce'
    OBVIOUS
  <2>0. /\ sent \in Seq(Packet) /\ pushed \in Seq(Packet) /\ received \in 0..MaxReceived
        /\ Len(sent) \in Nat /\ Len(handled) \in Nat /\ Len(taken) \in Nat
        /\ Len(pushed) \in Nat /\ pc \in {"idle", "test", "pop", "handle", "end"}
    <3>1. /\ sent \in Seq(Packet) /\ pushed \in Seq(Packet) /\ taken \in Seq(Packet)
          /\ handled \in Seq([kind : Kind,
                              use : {"upper", "switch", "in", "out", "nothing"}])
          /\ received \in 0..MaxReceived
          /\ pc \in {"idle", "test", "pop", "handle", "end"}
      BY DEF TypeOK
    <3> QED
      BY <3>1, LenProperties
  <2>a. /\ pushed = taken \o lbuf
        /\ Len(taken) = Len(sent) + Len(handled) + (IF pc = "handle" THEN 1 ELSE 0)
    BY DEF TakenOnce
  <2>1. CASE UNCHANGED <<lbuf, pushed, taken, sent, handled, pc>>
    BY <2>1, <2>a DEF TakenOnce
  <2>2. ASSUME lbuf # << >>, Pop, sent' = Append(sent, Head(lbuf)),
               UNCHANGED <<pushed, handled, pc>>
        PROVE  TakenOnce'
    <3>1. /\ Head(lbuf) \in Packet /\ Len(taken') = Len(taken) + 1
          /\ taken' \o lbuf' = taken \o lbuf
      BY <2>2, Popped
    <3>2. Len(sent') = Len(sent) + 1
      BY <2>0, <2>2, <3>1, AppendProperties
    <3>3. Len(taken') = Len(sent') + Len(handled') + (IF pc' = "handle" THEN 1 ELSE 0)
      BY <2>0, <2>2, <2>a, <3>1, <3>2
    <3> QED
      BY <2>2, <2>a, <3>1, <3>3 DEF TakenOnce
  <2>3. ASSUME NEW kind \in Kind, Push(kind), Len(pushed) < MaxReceived + MaxReplies,
               UNCHANGED <<taken, sent, handled, pc>>
        PROVE  TakenOnce'
    <3>1. pushed' = taken \o lbuf'
      BY <2>3, <2>a, Pushed
    <3> QED
      BY <2>3, <2>a, <3>1 DEF TakenOnce
  <2>4. ASSUME NEW kind \in HostSends \cup {"garbage"}, NEW abort \in Abort \cup {NoAbort},
               NEW txdone \in BOOLEAN, Ep0Interrupt(kind, abort, txdone)
        PROVE  TakenOnce'
    <3>1. kind \in Kind /\ UNCHANGED <<pc, handled>>
      BY <2>4, Ep0Cases
    <3>2. CASE received < MaxReceived /\ Push(kind) /\ UNCHANGED <<taken, sent>>
      <4>1. Len(pushed) < MaxReceived + MaxReplies
        BY <2>0, <3>2, Bounds DEF Counted
      <4> QED
        BY <2>3, <3>1, <3>2, <4>1
    <3>3. CASE UNCHANGED <<lbuf, pushed, taken, sent>>
      BY <2>1, <3>1, <3>3
    <3>4. CASE lbuf # << >> /\ Pop /\ sent' = Append(sent, Head(lbuf)) /\ UNCHANGED pushed
      BY <2>2, <3>1, <3>4
    <3> QED
      BY <2>4, <3>2, <3>3, <3>4, Ep0Cases
  <2>5. CASE Dispatch \/ TestEmpty \/ Suspend
    <3>1. UNCHANGED <<lbuf, pushed, taken, sent, handled>> /\ pc # "handle" /\ pc' # "handle"
      BY <2>5 DEF Dispatch, TestEmpty, Suspend
    <3> QED
      BY <2>a, <3>1 DEF TakenOnce
  <2>6. CASE PopPacket
    <3>1. UNCHANGED <<pushed, sent, handled>> /\ pc = "pop"
      BY <2>6 DEF PopPacket
    <3>2. CASE lbuf = << >>
      <4>1. UNCHANGED <<lbuf, taken>> /\ pc' = "test"
        BY <2>6, <3>2 DEF PopPacket
      <4> QED
        BY <2>a, <3>1, <4>1 DEF TakenOnce
    <3>3. CASE lbuf # << >>
      <4>1. Pop /\ pc' = "handle"
        BY <2>6, <3>3 DEF PopPacket
      <4>2. Len(taken') = Len(taken) + 1 /\ taken' \o lbuf' = taken \o lbuf
        BY <3>3, <4>1, Popped
      <4>3. Len(taken') = Len(sent') + Len(handled') + (IF pc' = "handle" THEN 1 ELSE 0)
        BY <2>0, <2>a, <3>1, <4>1, <4>2
      <4> QED
        BY <2>a, <3>1, <4>2, <4>3 DEF TakenOnce
    <3> QED
      BY <3>2, <3>3
  <2>7. CASE SetupProcess \/ DataProcess
    <3>1. PICK use \in {"upper", "switch", "in", "out", "nothing"} : Handle(use)
      BY <2>7 DEF SetupProcess, DataProcess
    <3>2. /\ UNCHANGED <<lbuf, pushed, taken, sent>> /\ pc = "handle" /\ pc' = "test"
          /\ handled' = Append(handled, [kind |-> pkt.kind, use |-> use])
      BY <3>1 DEF Handle
    <3>3. Len(handled') = Len(handled) + 1
      <4>1. pkt.kind \in Kind
        BY DEF TypeOK, Packet, NoPkt, Kind
      <4> QED
        BY <3>2, <4>1, AppendProperties DEF TypeOK
    <3>4. Len(taken') = Len(sent') + Len(handled') + (IF pc' = "handle" THEN 1 ELSE 0)
      BY <2>0, <2>a, <3>2, <3>3
    <3> QED
      BY <2>a, <3>2, <3>4 DEF TakenOnce
  <2>8. CASE QueueReply
    <3>1. /\ Len(pushed) - received < MaxReplies /\ Push("reply")
          /\ UNCHANGED <<taken, sent, handled, pc>>
      BY <2>8 DEF QueueReply, threadVars
    <3>2. Len(pushed) < MaxReceived + MaxReplies
      BY <2>0, <3>1, Bounds
    <3>3. "reply" \in Kind
      BY DEF Kind
    <3> QED
      BY <2>3, <3>1, <3>2, <3>3
  <2>9. CASE StartReply
    <3>1. UNCHANGED <<pushed, handled, pc>>
      BY <2>9 DEF StartReply, threadVars
    <3>2. CASE lbuf = << >>
      BY <2>1, <2>9, <3>1, <3>2 DEF StartReply
    <3>3. CASE lbuf # << >>
      BY <2>2, <2>9, <3>1, <3>3 DEF StartReply
    <3> QED
      BY <3>2, <3>3
  <2> QED
    BY <2>1, <2>4, <2>5, <2>6, <2>7, <2>8, <2>9
       DEF Next, SetState, ReplyFails, threadVars, vars
<1> QED
  BY <1>1, <1>2, TypeCorrect, PTL DEF Spec

-----------------------------------------------------------------------------
\* With an upper layer that begins its replies in EP0_DATA_IN_ST and changes the
\* state in between transfers, no packet of the host is sent back to it, although
\* both directions share the lbuf and the interrupt may strike, or abort the
\* transfer, at any point.
THEOREM NothingIsSentBack == Spec => []OnlyRepliesAreSent
<1>1. Init => RepliesAreAlone /\ OnlyRepliesAreSent
  <2> SUFFICES ASSUME Init PROVE RepliesAreAlone /\ OnlyRepliesAreSent
    OBVIOUS
  <2>1. lbuf = << >> /\ sent = << >> /\ ~replying
    BY DEF Init
  <2>2. Len(<< >>) = 0
    OBVIOUS
  <2> QED
    BY <2>1, <2>2 DEF RepliesAreAlone, OnlyRepliesAreSent
<1>2. /\ TypeOK /\ Counted /\ RepliesAreAlone /\ OnlyRepliesAreSent
      /\ [Next]_vars
      => (RepliesAreAlone /\ OnlyRepliesAreSent)'
  <2> SUFFICES ASSUME TypeOK, Counted, RepliesAreAlone, OnlyRepliesAreSent, [Next]_vars
               PROVE  (RepliesAreAlone /\ OnlyRepliesAreSent)'
    OBVIOUS
  <2> DEFINE AllReplies(s) == \A i \in 1..Len(s) : s[i].kind = "reply"
  <2>0. /\ sent \in Seq(Packet) /\ lbuf \in Seq(Packet) /\ received \in 0..MaxReceived
        /\ Len(sent) \in Nat /\ Len(lbuf) \in Nat /\ Len(pushed) \in Nat
    <3>1. /\ sent \in Seq(Packet) /\ lbuf \in Seq(Packet) /\ pushed \in Seq(Packet)
          /\ received \in 0..MaxReceived
      BY DEF TypeOK
    <3> QED
      BY <3>1, LenProperties
  <2>a. ~careless => /\ state = "EP0_DATA_IN_ST" \/ replying => AllReplies(lbuf)
                     /\ replying => state = "EP0_DATA_IN_ST" \/ transfer_state # NoAbort
                     /\ AllReplies(sent)
    BY DEF RepliesAreAlone, OnlyRepliesAreSent
  <2>b. ASSUME ~careless' => /\ state' = "EP0_DATA_IN_ST" \/ replying' => AllReplies(lbuf')
                             /\ replying' => \/ state' = "EP0_DATA_IN_ST"
                                             \/ transfer_state' # NoAbort
                             /\ AllReplies(sent')
        PROVE  (RepliesAreAlone /\ OnlyRepliesAreSent)'
    BY <2>b DEF RepliesAreAlone, OnlyRepliesAreSent
  <2>c. ASSUME lbuf # << >>, Pop, sent' = Append(sent, Head(lbuf)), AllReplies(lbuf)
        PROVE  AllReplies(lbuf') /\ (AllReplies(sent) => AllReplies(sent'))
    <3>1. /\ Head(lbuf) \in Packet /\ Head(lbuf) = lbuf[1] /\ Len(lbuf) >= 1
          /\ Len(lbuf') = Len(lbuf) - 1
          /\ \A i \in 1..Len(lbuf') : lbuf'[i] = lbuf[i + 1]
      BY <2>c, Popped
    <3>2. AllReplies(lbuf') /\ Head(lbuf).kind = "reply"
      <4>1. 1 \in 1..Len(lbuf) /\ \A i \in 1..Len(lbuf') : i + 1 \in 1..Len(lbuf)
        BY <2>0, <3>1
      <4>2. \A i \in 1..Len(lbuf) : lbuf[i].kind = "reply"
        BY <2>c
      <4> QED
        BY <3>1, <4>1, <4>2, Zenon
    <3>3. /\ Len(sent') = Len(sent) + 1 /\ sent'[Len(sent) + 1] = Head(lbuf)
          /\ \A i \in 1..Len(sent) : sent'[i] = sent[i]
      BY <2>0, <2>c, <3>1, AppendProperties
    <3>4. AllReplies(sent) => AllReplies(sent')
      <4>1. \A i \in 1..Len(sent') : i \in 1..Len(sent) \/ i = Len(sent) + 1
        BY <2>0, <3>3
      <4> QED
        BY <3>2, <3>3, <4>1, Zenon
    <3> QED
      BY <3>2, <3>4
  <2> HIDE DEF AllReplies
  <2>1. ASSUME NEW kind \in HostSends \cup {"garbage"}, NEW abort \in Abort \cup {NoAbort},
               NEW txdone \in BOOLEAN, Ep0Interrupt(kind, abort, txdone)
        PROVE  (RepliesAreAlone /\ OnlyRepliesAreSent)'
    <3>1. /\ UNCHANGED <<replying, careless>>
          /\ transfer_state # NoAbort => transfer_state' # NoAbort
      BY <2>1, Ep0Cases
    <3>2. CASE /\ state' = "EP0_SETUP_ST" /\ transfer_state' # NoAbort
               /\ UNCHANGED <<lbuf, sent>>
      BY <2>a, <2>b, <3>1, <3>2
    <3>3. CASE /\ transfer_state' = NoAbort /\ state \in Uploading /\ state' = state
               /\ sent' = sent
      <4>1. state # "EP0_DATA_IN_ST"
        BY <3>3 DEF Uploading
      <4>2. ~careless => ~replying
        BY <2>a, <3>1, <3>3, <4>1
      <4> QED
        BY <2>a, <2>b, <3>1, <3>3, <4>1, <4>2
    <3>4. CASE /\ state = "EP0_DATA_IN_ST" /\ state' = state
               /\ lbuf # << >> /\ Pop /\ sent' = Append(sent, Head(lbuf))
      BY <2>a, <2>b, <2>c, <3>1, <3>4
    <3>5. CASE UNCHANGED <<state, lbuf, sent>>
      BY <2>a, <2>b, <3>1, <3>5
    <3> QED
      BY <2>1, <3>2, <3>3, <3>4, <3>5, Ep0Cases
  <2>2. CASE UNCHANGED <<state, transfer_state, lbuf, replying, sent, careless>>
    BY <2>2, <2>a, <2>b
  <2>3. CASE PopPacket
    <3>1. UNCHANGED <<state, transfer_state, replying, sent, careless>>
      BY <2>3 DEF PopPacket
    <3>2. AllReplies(lbuf) => AllReplies(lbuf')
      <4>1. CASE lbuf = << >>
        BY <2>3, <4>1 DEF PopPacket
      <4>2. CASE lbuf # << >>
        <5>1. Pop
          BY <2>3, <4>2 DEF PopPacket
        <5>2. /\ Len(lbuf') = Len(lbuf) - 1
              /\ \A i \in 1..Len(lbuf') : lbuf'[i] = lbuf[i + 1]
          BY <4>2, <5>1, Popped
        <5>3. \A i \in 1..Len(lbuf') : i + 1 \in 1..Len(lbuf)
          BY <2>0, <5>2
        <5> QED
          BY <5>2, <5>3, Zenon DEF AllReplies
      <4> QED
        BY <4>1, <4>2
    <3> QED
      BY <2>a, <2>b, <3>1, <3>2
  <2>4. ASSUME NEW s \in State, SetState(s)
        PROVE  (RepliesAreAlone /\ OnlyRepliesAreSent)'
    <3>1. /\ UNCHANGED <<transfer_state, lbuf, replying, sent>>
          /\ careless' = (careless \/ ~InBetween)
      BY <2>4 DEF SetState
    <3>2. CASE ~careless'
      <4>1. ~careless /\ lbuf = << >> /\ ~replying
        BY <3>1, <3>2 DEF InBetween
      <4>2. AllReplies(lbuf)
        BY <4>1, EmptySeq DEF AllReplies
      <4> QED
        BY <2>a, <2>b, <3>1, <4>1, <4>2
    <3> QED
      BY <2>b, <3>2
  <2>5. CASE QueueReply
    <3>1. /\ Push("reply") /\ Len(pushed) - received < MaxReplies
          /\ careless' = (careless \/ (~replying /\ state # "EP0_DATA_IN_ST"))
          /\ UNCHANGED <<state, transfer_state, sent>>
      BY <2>5 DEF QueueReply
    <3>2. Len(pushed) < MaxReceived + MaxReplies
      BY <2>0, <3>1, Bounds
    <3>3. /\ Len(lbuf') = Len(lbuf) + 1 /\ lbuf'[Len(lbuf) + 1].kind = "reply"
          /\ \A i \in 1..Len(lbuf) : lbuf'[i] = lbuf[i]
      <4>1. "reply" \in Kind
        BY DEF Kind
      <4> QED
        BY <3>1, <3>2, <4>1, Pushed
    <3>4. AllReplies(lbuf) => AllReplies(lbuf')
      <4>1. \A i \in 1..Len(lbuf') : i \in 1..Len(lbuf) \/ i = Len(lbuf) + 1
        BY <2>0, <3>3
      <4> QED
        BY <3>3, <4>1, Zenon DEF AllReplies
    <3> QED
      BY <2>a, <2>b, <3>1, <3>4
  <2>6. CASE ReplyFails
    BY <2>6, <2>a, <2>b DEF ReplyFails
  <2>7. CASE StartReply
    <3>1. replying /\ replying' = FALSE /\ UNCHANGED <<state, transfer_state, careless>>
      BY <2>7 DEF StartReply
    <3>2. CASE lbuf = << >>
      BY <2>7, <2>a, <2>b, <3>1, <3>2 DEF StartReply
    <3>3. CASE lbuf # << >>
      <4>1. Pop /\ sent' = Append(sent, Head(lbuf))
        BY <2>7, <3>3 DEF StartReply
      <4> QED
        BY <2>a, <2>b, <2>c, <3>1, <3>3, <4>1
    <3> QED
      BY <3>2, <3>3
  <2> QED
    BY <2>1, <2>2, <2>3, <2>4, <2>5, <2>6, <2>7
       DEF Next, Dispatch, TestEmpty, Suspend, SetupProcess, DataProcess, Handle, vars
<1> QED
  BY <1>1, <1>2, TypeCorrect, PTL DEF Spec

-----------------------------------------------------------------------------
(* Requests and endpoint descriptors.                                      *)

\* Direction, type and recipient are all there is in bRequestType, and they do not
\* overlap: the type that ep0_setup_process asks for (usbd_protocol_layer.c:156) is
\* the same whatever the other two are.
THEOREM RequestTypeIsItsFields ==
  ASSUME NEW dir \in {C9!USB_DIR_OUT, C9!USB_DIR_IN},
         NEW type \in {0, 32, 64, 96}, NEW recip \in 0..31
  PROVE  LET bits == dir + type + recip
         IN  /\ bits \in C9!Byte
             /\ C9!DirOf(bits) = dir
             /\ C9!TypeOfRequest(bits) = type
             /\ C9!RecipOfRequest(bits) = recip
BY DEF C9!Byte, C9!DirOf, C9!TypeOfRequest, C9!RecipOfRequest, C9!USB_DIR_OUT,
       C9!USB_DIR_IN

\* Every endpoint has one direction and one transfer type, and its number is 0 to 15.
THEOREM EndpointsAreOfOneKind ==
  ASSUME NEW epd \in C9!Descriptor
  PROVE  /\ C9!usb_endpoint_dir_in(epd) <=> ~C9!usb_endpoint_dir_out(epd)
         /\ \E t \in {0, 1, 2, 3} :
              /\ C9!usb_endpoint_type(epd) = t
              /\ C9!usb_endpoint_xfer_control(epd) <=> t = 0
              /\ C9!usb_endpoint_xfer_isoc(epd) <=> t = 1
              /\ C9!usb_endpoint_xfer_bulk(epd) <=> t = 2
              /\ C9!usb_endpoint_xfer_int(epd) <=> t = 3
         /\ C9!usb_endpoint_num(epd) \in 0..15
         /\ C9!usb_endpoint_interrupt_type(epd) \in {0, 16, 32, 48}
<1>1. epd.bEndpointAddress \in 0..255 /\ epd.bmAttributes \in 0..255
  BY DEF C9!Descriptor, C9!Byte
<1>2. C9!usb_endpoint_dir_in(epd) <=> ~C9!usb_endpoint_dir_out(epd)
  BY <1>1 DEF C9!usb_endpoint_dir_in, C9!usb_endpoint_dir_out, C9!DirOf,
              C9!USB_DIR_IN, C9!USB_DIR_OUT
<1>3. epd.bmAttributes % 4 \in {0, 1, 2, 3}
  BY <1>1
<1>4. C9!usb_endpoint_num(epd) \in 0..15
  BY <1>1 DEF C9!usb_endpoint_num
<1>5. (epd.bmAttributes \div 16) % 4 \in {0, 1, 2, 3}
  BY <1>1
<1>6. C9!usb_endpoint_interrupt_type(epd) \in {0, 16, 32, 48}
  BY <1>5 DEF C9!usb_endpoint_interrupt_type
<1> DEFINE type == epd.bmAttributes % 4
<1>7. /\ C9!usb_endpoint_type(epd) = type
      /\ C9!usb_endpoint_xfer_control(epd) <=> type = 0
      /\ C9!usb_endpoint_xfer_isoc(epd) <=> type = 1
      /\ C9!usb_endpoint_xfer_bulk(epd) <=> type = 2
      /\ C9!usb_endpoint_xfer_int(epd) <=> type = 3
  BY DEF C9!usb_endpoint_type, C9!usb_endpoint_xfer_control,
         C9!usb_endpoint_xfer_isoc, C9!usb_endpoint_xfer_bulk,
         C9!usb_endpoint_xfer_int, C9!USB_ENDPOINT_XFER
<1> HIDE DEF type
<1>8. type \in {0, 1, 2, 3}
  BY <1>3 DEF type
<1>9. \E t \in {0, 1, 2, 3} :
         /\ C9!usb_endpoint_type(epd) = t
         /\ C9!usb_endpoint_xfer_control(epd) <=> t = 0
         /\ C9!usb_endpoint_xfer_isoc(epd) <=> t = 1
         /\ C9!usb_endpoint_xfer_bulk(epd) <=> t = 2
         /\ C9!usb_endpoint_xfer_int(epd) <=> t = 3
  BY <1>7, <1>8, Zenon
<1> QED  BY <1>2, <1>9, <1>4, <1>6, Zenon

\* The predicates of direction and transfer type together tell six kinds of
\* endpoint apart, and leave out the control endpoints alone.
THEOREM KindsAreApart ==
  ASSUME NEW epd \in C9!Descriptor
  PROVE  LET kinds == {k \in 1..6 :
               \/ k = 1 /\ C9!usb_endpoint_is_bulk_in(epd)
               \/ k = 2 /\ C9!usb_endpoint_is_bulk_out(epd)
               \/ k = 3 /\ C9!usb_endpoint_is_int_in(epd)
               \/ k = 4 /\ C9!usb_endpoint_is_int_out(epd)
               \/ k = 5 /\ C9!usb_endpoint_is_isoc_in(epd)
               \/ k = 6 /\ C9!usb_endpoint_is_isoc_out(epd)}
         IN  IF C9!usb_endpoint_xfer_control(epd) THEN kinds = {}
             ELSE \E k \in 1..6 : kinds = {k}
BY EndpointsAreOfOneKind
   DEF C9!usb_endpoint_is_bulk_in, C9!usb_endpoint_is_bulk_out,
       C9!usb_endpoint_is_int_in, C9!usb_endpoint_is_int_out,
       C9!usb_endpoint_is_isoc_in, C9!usb_endpoint_is_isoc_out
=============================================================================
