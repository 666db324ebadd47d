-------------------------- MODULE UsbdUpload_proofs --------------------------
(***************************************************************************)
(* Proofs about the upload half of the protocol layer, for any number of   *)
(* pipes, any lbuf capacity and any number of received packets.            *)
(***************************************************************************)
EXTENDS UsbdUpload, SequenceTheorems, TLAPS

\* The local variables of the thread make sense where it uses them: the
\* rx_post loop runs on an OUT pipe, and hands over a packet, never NULL.
ThreadOK ==
  /\ pc \in {"pop", "call"} => at \in OutPipes
  /\ pc = "call" => pkt \in Packet

\* The identifiers of the packets accepted for a pipe ascend, and none is
\* larger than the number of packets received there.
AcceptedAscending ==
  \A p \in OutPipes :
    /\ \A i \in 1..Len(accepted[p]) : accepted[p][i] <= arrived[p]
    /\ \A i, j \in 1..Len(accepted[p]) :
         i < j => accepted[p][i] < accepted[p][j]

\* A packet that waits is ahead of the walk, or the thread has been resumed.
PendingIsAhead ==
  ResumeLatched =>
    \A p \in OutPipes : lbuf[p] # << >> => wake \/ (pc # "idle" /\ at <= p)

-----------------------------------------------------------------------------
\* The type invariant needs ThreadOK: what is popped is appended to delivered
\* only because the thread never hands over NULL.
THEOREM TypeCorrect == Spec => [](TypeOK /\ ThreadOK)
<1> USE UploadAssumption DEF TypeOK, ThreadOK, Pipe
<1>1. Init => TypeOK /\ ThreadOK
  BY EmptySeq DEF Init
<1>2. TypeOK /\ ThreadOK /\ [Next]_vars => (TypeOK /\ ThreadOK)'
  <2> SUFFICES ASSUME TypeOK, ThreadOK, [Next]_vars
               PROVE  (TypeOK /\ ThreadOK)'
    OBVIOUS
  <2>1. ASSUME NEW p \in OutPipes, RxProbe(p)
        PROVE  (TypeOK /\ ThreadOK)'
    <3> DEFINE new == arrived[p] + 1
    <3>1. /\ new \in Packet
          /\ arrived' \in [OutPipes -> 0..MaxArrivals]
          /\ UNCHANGED <<pc, at, pkt, delivered>>
      BY <2>1 DEF RxProbe, Packet, threadVars
    <3> HIDE DEF new
    <3>2. CASE Len(lbuf[p]) < LbufCap /\ PushResume(p, new)
      <4>1. /\ Append(lbuf[p], new) \in Seq(Packet)
            /\ Len(Append(lbuf[p], new)) <= LbufCap
            /\ Append(accepted[p], new) \in Seq(Packet)
        BY <3>1, <3>2, AppendProperties
      <4>2. /\ lbuf' \in [OutPipes -> Seq(Packet)]
            /\ \A q \in OutPipes : Len(lbuf'[q]) <= LbufCap
            /\ accepted' \in [OutPipes -> Seq(Packet)]
            /\ wake' \in BOOLEAN
        BY <3>2, <4>1 DEF PushResume
      <4> QED
        BY <3>1, <4>2
    <3>3. CASE UNCHANGED <<lbuf, accepted, wake>>
      BY <3>1, <3>3
    <3> QED
      BY <2>1, <3>2, <3>3 DEF RxProbe, new
  <2>2. CASE Dispatch
    <3>1. wake' \in BOOLEAN /\ pc' = "walk" /\ at' = 1
      BY <2>2 DEF Dispatch
    <3>2. UNCHANGED <<lbuf, pkt, arrived, accepted, delivered>>
      BY <2>2 DEF Dispatch
    <3> QED
      BY <3>1, <3>2
  <2>3. CASE NextPipe
    BY <2>3 DEF NextPipe
  <2>4. CASE FindPacket
    BY <2>4 DEF FindPacket
  <2>5. CASE PopPacket
    <3>1. CASE lbuf[at] = << >>
      BY <2>5, <3>1 DEF PopPacket
    <3>2. CASE lbuf[at] # << >>
      <4>1. at \in OutPipes /\ lbuf[at] \in Seq(Packet)
        BY <2>5 DEF PopPacket
      <4>2. /\ Head(lbuf[at]) \in Packet
            /\ Tail(lbuf[at]) \in Seq(Packet)
            /\ Len(Tail(lbuf[at])) <= LbufCap
        BY <3>2, <4>1, HeadTailProperties, LenProperties
      <4>3. /\ lbuf' \in [OutPipes -> Seq(Packet)]
            /\ \A q \in OutPipes : Len(lbuf'[q]) <= LbufCap
            /\ pkt' \in Packet
        BY <2>5, <3>2, <4>1, <4>2 DEF PopPacket
      <4> QED
        BY <2>5, <3>2, <4>1, <4>3 DEF PopPacket
    <3> QED
      BY <3>1, <3>2
  <2>6. CASE CallHandler
    <3>1. at \in OutPipes /\ pkt \in Packet
      BY <2>6 DEF CallHandler
    <3>2. Append(delivered[at], pkt) \in Seq(Packet)
      BY <3>1, AppendProperties
    <3>3. delivered' \in [OutPipes -> Seq(Packet)]
      BY <2>6, <3>1, <3>2 DEF CallHandler
    <3> QED
      BY <2>6, <3>3 DEF CallHandler
  <2>7. CASE Suspend
    BY <2>7 DEF Suspend
  <2>8. CASE UNCHANGED vars
    BY <2>8 DEF vars, threadVars
  <2>9. CASE GetLost
    BY <2>9 DEF GetLost
  <2> QED
    BY <2>1, <2>2, <2>3, <2>4, <2>5, <2>6, <2>7, <2>8, <2>9 DEF Next
<1> QED
  BY <1>1, <1>2, PTL DEF Spec

-----------------------------------------------------------------------------
\* Under a kernel that latches resumes the protocol thread never sleeps on a
\* packet, wherever in the walk the interrupt strikes.
THEOREM ThreadNeverSleepsOnAPacket == Spec => []NoLostWakeup
<1>1. Init => PendingIsAhead
  BY DEF Init, PendingIsAhead
<1>2. TypeOK /\ PendingIsAhead /\ [Next]_vars => PendingIsAhead'
  <2> SUFFICES ASSUME TypeOK, PendingIsAhead, [Next]_vars, ResumeLatched,
                      NEW q \in OutPipes, lbuf'[q] # << >>
               PROVE  wake' \/ (pc' # "idle" /\ at' <= q)
    BY DEF PendingIsAhead
  <2> USE DEF TypeOK, Pipe
  <2>1. ASSUME lbuf[q] # << >> PROVE wake \/ (pc # "idle" /\ at <= q)
    BY <2>1 DEF PendingIsAhead
  <2>2. q \in 1..NumPipes
    BY UploadAssumption
  <2>3. ASSUME NEW p \in OutPipes, RxProbe(p)
        PROVE  wake' \/ (pc' # "idle" /\ at' <= q)
    <3>1. UNCHANGED <<pc, at>>
      BY <2>3 DEF RxProbe, threadVars
    <3>2. CASE wake' = TRUE
      BY <3>2
    <3>3. CASE UNCHANGED <<lbuf, accepted, wake>>
      BY <2>1, <3>1, <3>3
    <3> QED
      BY <2>3, <3>2, <3>3 DEF RxProbe, PushResume
  <2>4. CASE Dispatch
    BY <2>2, <2>4 DEF Dispatch
  <2>5. CASE NextPipe
    <3>1. pc' # "idle" /\ at' = at + 1 /\ UNCHANGED <<lbuf, wake>>
      BY <2>5 DEF NextPipe
    <3>2. at # q
      BY <2>5, <3>1 DEF NextPipe
    <3>3. CASE wake
      BY <3>1, <3>3
    <3>4. CASE ~wake
      <4>1. at <= q
        BY <2>1, <3>1, <3>4
      <4> QED
        BY <2>2, <3>1, <3>2, <4>1
    <3> QED
      BY <3>3, <3>4
  <2>6. CASE FindPacket
    BY <2>1, <2>6 DEF FindPacket
  <2>7. CASE PopPacket
    <3>1. pc' # "idle" /\ UNCHANGED <<wake, at>>
      BY <2>7 DEF PopPacket
    <3>2. lbuf[q] # << >>
      BY <2>7, EmptySeq DEF PopPacket
    <3> QED
      BY <2>1, <3>1, <3>2
  <2>8. CASE CallHandler
    BY <2>1, <2>8 DEF CallHandler
  <2>9. CASE Suspend
    <3>1. lbuf[q] # << >> /\ at = NumPipes + 1 /\ wake' = (wake /\ ResumeLatched)
      BY <2>9 DEF Suspend
    <3>2. ~(at <= q)
      BY <2>2, <3>1, UploadAssumption
    <3> QED
      BY <2>1, <3>1, <3>2
  <2>10. CASE UNCHANGED vars
    BY <2>1, <2>10 DEF vars, threadVars
  <2>11. CASE GetLost
    BY <2>1, <2>11 DEF GetLost
  <2> QED
    BY <2>3, <2>4, <2>5, <2>6, <2>7, <2>8, <2>9, <2>10, <2>11 DEF Next
<1>3. PendingIsAhead => NoLostWakeup
  BY DEF PendingIsAhead, NoLostWakeup
<1> QED
  BY <1>1, <1>2, <1>3, TypeCorrect, PTL DEF Spec

-----------------------------------------------------------------------------
\* What was pushed is what was delivered, what is in the thread's hand and
\* what the lbuf still holds, whatever the interleaving.
THEOREM PacketsAreConserved == Spec => []Conservation
<1>0. \A s, t, u \in Seq(Packet) : (s \o t) \o u = s \o (t \o u)
  BY ConcatAssociative
<1> USE DEF TypeOK, ThreadOK
<1>1. Init => Conservation
  BY ConcatEmptySeq DEF Init, Conservation, InHand
<1>2. TypeOK /\ ThreadOK /\ Conservation /\ [Next]_vars => Conservation'
  <2> SUFFICES ASSUME TypeOK, ThreadOK, Conservation, [Next]_vars,
                      NEW q \in OutPipes
               PROVE  accepted'[q] = delivered'[q] \o InHand(q)' \o lbuf'[q]
    BY DEF Conservation
  <2>0. accepted[q] = delivered[q] \o InHand(q) \o lbuf[q]
    BY DEF Conservation
  <2>a. /\ delivered[q] \in Seq(Packet)
        /\ InHand(q) \in Seq(Packet)
        /\ lbuf[q] \in Seq(Packet)
        /\ delivered[q] \o InHand(q) \in Seq(Packet)
    BY ConcatProperties DEF InHand
  <2>1. ASSUME NEW p \in OutPipes, RxProbe(p)
        PROVE  accepted'[q] = delivered'[q] \o InHand(q)' \o lbuf'[q]
    <3> DEFINE new == arrived[p] + 1
    <3>1. /\ new \in Packet
          /\ UNCHANGED <<pc, at, pkt, delivered>>
      BY <2>1, UploadAssumption DEF RxProbe, Packet, threadVars
    <3>2. InHand(q)' = InHand(q)
      BY <3>1 DEF InHand
    <3> HIDE DEF new
    <3>3. CASE PushResume(p, new)
      <4>1. CASE p # q
        BY <2>0, <3>1, <3>2, <3>3, <4>1 DEF PushResume
      <4>2. CASE p = q
        <5>1. /\ accepted'[q] = Append(accepted[q], new)
              /\ lbuf'[q] = Append(lbuf[q], new)
          BY <3>3, <4>2 DEF PushResume
        <5>2. /\ Append(accepted[q], new) = accepted[q] \o <<new>>
              /\ Append(lbuf[q], new) = lbuf[q] \o <<new>>
              /\ <<new>> \in Seq(Packet)
          BY <2>a, <3>1, AppendIsConcat
        <5>3. (delivered[q] \o InHand(q) \o lbuf[q]) \o <<new>>
                = delivered[q] \o InHand(q) \o (lbuf[q] \o <<new>>)
          BY <1>0, <2>a, <5>2
        <5> QED
          BY <2>0, <3>1, <3>2, <5>1, <5>2, <5>3
      <4> QED
        BY <4>1, <4>2
    <3>4. CASE UNCHANGED <<lbuf, accepted, wake>>
      BY <2>0, <3>1, <3>2, <3>4
    <3> QED
      BY <2>1, <3>3, <3>4 DEF RxProbe, new
  <2>2. CASE Dispatch \/ NextPipe \/ FindPacket \/ GetLost \/ Suspend \/ UNCHANGED vars
    <3>1. /\ UNCHANGED <<lbuf, accepted, delivered, pkt>>
          /\ (pc # "call" /\ pc' # "call") \/ UNCHANGED <<pc, at>>
      BY <2>2 DEF Dispatch, NextPipe, FindPacket, GetLost, Suspend, vars, threadVars
    <3>2. InHand(q)' = InHand(q)
      BY <3>1 DEF InHand
    <3> QED
      BY <2>0, <3>1, <3>2
  <2>3. CASE PopPacket
    <3>1. pc = "pop" /\ UNCHANGED <<at, accepted, delivered>>
      BY <2>3 DEF PopPacket
    <3>2. CASE lbuf[at] = << >> \/ at # q
      <4>1. lbuf'[q] = lbuf[q] /\ InHand(q)' = InHand(q)
        BY <2>3, <3>1, <3>2 DEF PopPacket, InHand
      <4> QED
        BY <2>0, <3>1, <4>1
    <3>3. CASE lbuf[at] # << >> /\ at = q
      <4>1. /\ InHand(q) = << >>
            /\ InHand(q)' = <<Head(lbuf[q])>>
            /\ lbuf'[q] = Tail(lbuf[q])
        BY <2>3, <3>1, <3>3 DEF PopPacket, InHand
      <4>2. /\ lbuf[q] = <<Head(lbuf[q])>> \o Tail(lbuf[q])
            /\ <<Head(lbuf[q])>> \in Seq(Packet)
            /\ Tail(lbuf[q]) \in Seq(Packet)
        <5>1. lbuf[q] \in Seq(Packet) /\ lbuf[q] # << >>
          BY <2>a, <3>3
        <5>2. lbuf[q] = <<Head(lbuf[q])>> \o Tail(lbuf[q])
          BY <5>1, EmptySeq, LenProperties, SubSeqFull, SubSeqRecursiveFirst,
             TailIsSubSeq
        <5> QED  BY <5>1, <5>2, HeadTailProperties
      <4>3. delivered[q] \o << >> = delivered[q]
        BY <2>a, ConcatEmptySeq
      <4>4. delivered[q] \o (<<Head(lbuf[q])>> \o Tail(lbuf[q]))
              = delivered[q] \o <<Head(lbuf[q])>> \o Tail(lbuf[q])
        BY <1>0, <2>a, <4>2
      <4> QED
        BY <2>0, <3>1, <4>1, <4>2, <4>3, <4>4
    <3> QED
      BY <3>2, <3>3
  <2>4. CASE CallHandler
    <3>1. /\ pc = "call" /\ pc' = "walk" /\ at \in OutPipes /\ pkt \in Packet
          /\ delivered' = [delivered EXCEPT ![at] = Append(@, pkt)]
          /\ UNCHANGED <<lbuf, accepted>>
      BY <2>4 DEF CallHandler
    <3>2. CASE at # q
      BY <2>0, <3>1, <3>2 DEF InHand
    <3>3. CASE at = q
      <4>1. InHand(q) = <<pkt>> /\ InHand(q)' = << >>
        BY <3>1, <3>3 DEF InHand
      <4>2. delivered'[q] = delivered[q] \o <<pkt>>
        BY <2>a, <3>1, <3>3, AppendIsConcat
      <4>3. delivered'[q] \o << >> = delivered'[q]
        BY <2>a, <4>1, <4>2, ConcatEmptySeq
      <4> QED
        BY <2>0, <3>1, <4>1, <4>2, <4>3
    <3> QED
      BY <3>2, <3>3
  <2> QED
    BY <2>1, <2>2, <2>3, <2>4 DEF Next
<1> QED
  BY <1>1, <1>2, TypeCorrect, PTL DEF Spec

-----------------------------------------------------------------------------
\* What was delivered is a prefix of what was accepted, packet by packet; and
\* the packet in the thread's hand comes next.
LEMMA DeliveredIsPrefix ==
  ASSUME TypeOK, ThreadOK, Conservation, NEW p \in OutPipes
  PROVE  /\ Len(delivered[p]) <= Len(accepted[p])
         /\ \A i \in 1..Len(delivered[p]) : delivered[p][i] = accepted[p][i]
         /\ pc = "call" /\ at = p =>
              /\ Len(delivered[p]) + 1 <= Len(accepted[p])
              /\ accepted[p][Len(delivered[p]) + 1] = pkt
<1> DEFINE rest == InHand(p) \o lbuf[p]
<1>1. /\ delivered[p] \in Seq(Packet)
      /\ InHand(p) \in Seq(Packet)
      /\ lbuf[p] \in Seq(Packet)
  BY DEF TypeOK, ThreadOK, InHand
<1>2. rest \in Seq(Packet)
  BY <1>1, ConcatProperties
<1>3. accepted[p] = delivered[p] \o rest
  <2>1. \A s, t, u \in Seq(Packet) : (s \o t) \o u = s \o (t \o u)
    BY ConcatAssociative
  <2>2. accepted[p] = delivered[p] \o InHand(p) \o lbuf[p]
    BY DEF Conservation
  <2> HIDE DEF rest
  <2>3. (delivered[p] \o InHand(p)) \o lbuf[p]
          = delivered[p] \o (InHand(p) \o lbuf[p])
    BY <1>1, <2>1
  <2> QED
    BY <2>2, <2>3 DEF rest
<1>4. pc = "call" /\ at = p => Len(rest) >= 1 /\ rest[1] = pkt
  BY <1>1, ConcatProperties, LenProperties DEF InHand
<1> HIDE DEF rest
<1> QED
  BY <1>1, <1>2, <1>3, <1>4, ConcatProperties, LenProperties

\* A handler sees the packets of its pipe in the order the hardware received
\* them, none twice.
THEOREM PacketsKeepTheirOrder == Spec => []InArrivalOrder
<1>1. Init => AcceptedAscending
  BY DEF Init, AcceptedAscending
<1>2. TypeOK /\ AcceptedAscending /\ [Next]_vars => AcceptedAscending'
  <2> SUFFICES ASSUME TypeOK, AcceptedAscending, [Next]_vars, NEW q \in OutPipes
               PROVE  /\ \A i \in 1..Len(accepted'[q]) :
                           accepted'[q][i] <= arrived'[q]
                      /\ \A i, j \in 1..Len(accepted'[q]) :
                           i < j => accepted'[q][i] < accepted'[q][j]
    BY DEF AcceptedAscending
  <2>0. /\ \A i \in 1..Len(accepted[q]) : accepted[q][i] <= arrived[q]
        /\ \A i, j \in 1..Len(accepted[q]) :
             i < j => accepted[q][i] < accepted[q][j]
    BY DEF AcceptedAscending
  <2>1. /\ accepted[q] \in Seq(Packet)
        /\ arrived[q] \in Nat
        /\ \A i \in 1..Len(accepted[q]) : accepted[q][i] \in Nat
    <3>1. accepted[q] \in Seq(Packet) /\ arrived[q] \in 0..MaxArrivals
      BY DEF TypeOK
    <3>2. \A i \in 1..Len(accepted[q]) : accepted[q][i] \in Packet
      BY <3>1, ElementOfSeq
    <3> QED
      BY <3>1, <3>2, UploadAssumption DEF Packet
  <2>2. CASE UNCHANGED <<accepted, arrived>>
    BY <2>0, <2>2
  <2>3. ASSUME NEW p \in OutPipes, RxProbe(p)
        PROVE  /\ \A i \in 1..Len(accepted'[q]) :
                    accepted'[q][i] <= arrived'[q]
               /\ \A i, j \in 1..Len(accepted'[q]) :
                    i < j => accepted'[q][i] < accepted'[q][j]
    <3> DEFINE new == arrived[p] + 1
    <3>1. arrived' = [arrived EXCEPT ![p] = @ + 1]
      BY <2>3 DEF RxProbe
    <3>2. accepted' = accepted \/ accepted' = [accepted EXCEPT ![p] = Append(@, new)]
      BY <2>3 DEF RxProbe, PushResume
    <3>3. arrived'[q] = IF p = q THEN arrived[q] + 1 ELSE arrived[q]
      BY <3>1 DEF TypeOK
    <3>4. CASE accepted'[q] = accepted[q]
      BY <2>0, <2>1, <3>3, <3>4
    <3>5. CASE p = q /\ accepted'[q] = Append(accepted[q], new)
      <4>1. new = arrived[q] + 1 /\ arrived'[q] = arrived[q] + 1
        BY <3>3, <3>5
      <4> HIDE DEF new
      <4>2. /\ Len(accepted'[q]) = Len(accepted[q]) + 1
            /\ Len(accepted[q]) \in Nat
            /\ accepted'[q][Len(accepted[q]) + 1] = new
            /\ \A i \in 1..Len(accepted[q]) : accepted'[q][i] = accepted[q][i]
        BY <2>1, <3>5, AppendProperties, LenProperties
      <4>3. ASSUME NEW i \in 1..Len(accepted'[q])
            PROVE  /\ accepted'[q][i] <= arrived[q] + 1
                   /\ i = Len(accepted[q]) + 1 => accepted'[q][i] = arrived[q] + 1
                   /\ i # Len(accepted[q]) + 1 =>
                        /\ i \in 1..Len(accepted[q])
                        /\ accepted'[q][i] = accepted[q][i]
                        /\ accepted[q][i] <= arrived[q]
        BY <2>0, <2>1, <4>1, <4>2
      <4>4. ASSUME NEW i \in 1..Len(accepted'[q]),
                   NEW j \in 1..Len(accepted'[q]), i < j
            PROVE  accepted'[q][i] < accepted'[q][j]
        <5>1. i # Len(accepted[q]) + 1 /\ i \in 1..Len(accepted[q])
          BY <4>2, <4>4
        <5>0. /\ accepted'[q][i] = accepted[q][i]
              /\ accepted[q][i] <= arrived[q]
              /\ accepted[q][i] \in Nat
          BY <2>1, <4>3, <5>1
        <5>2. CASE j = Len(accepted[q]) + 1
          <6>1. accepted'[q][j] = arrived[q] + 1
            BY <4>3, <5>2
          <6> QED
            BY <2>1, <5>0, <6>1
        <5>3. CASE j # Len(accepted[q]) + 1
          <6>1. j \in 1..Len(accepted[q]) /\ accepted'[q][j] = accepted[q][j]
            BY <4>3, <5>3
          <6> QED
            BY <2>0, <4>4, <5>0, <5>1, <6>1
        <5> QED
          BY <5>2, <5>3
      <4> QED
        BY <4>1, <4>3, <4>4
    <3> QED
      BY <3>2, <3>4, <3>5 DEF TypeOK
  <2> QED
    BY <2>2, <2>3 DEF Next, Dispatch, NextPipe, FindPacket, PopPacket,
                      CallHandler, GetLost, Suspend, vars
<1>3. TypeOK /\ ThreadOK /\ Conservation /\ AcceptedAscending => InArrivalOrder
  <2> SUFFICES ASSUME TypeOK, ThreadOK, Conservation, AcceptedAscending,
                      NEW p \in OutPipes,
                      NEW i \in 1..Len(delivered[p]),
                      NEW j \in 1..Len(delivered[p]), i < j
               PROVE  delivered[p][i] < delivered[p][j]
    BY DEF InArrivalOrder
  <2>1. /\ Len(delivered[p]) <= Len(accepted[p])
        /\ \A k \in 1..Len(delivered[p]) : delivered[p][k] = accepted[p][k]
    BY DeliveredIsPrefix
  <2>2. Len(delivered[p]) \in Nat /\ Len(accepted[p]) \in Nat
    BY LenProperties DEF TypeOK
  <2>3. i \in 1..Len(accepted[p]) /\ j \in 1..Len(accepted[p])
    BY <2>1, <2>2
  <2> QED
    BY <2>1, <2>3 DEF AcceptedAscending
<1> QED
  BY <1>1, <1>2, <1>3, TypeCorrect, PacketsAreConserved, PTL DEF Spec

-----------------------------------------------------------------------------
\* Every behaviour of the upload path is one of the packet queue: the
\* interrupt's push accepts a packet, the handler call delivers the oldest one
\* that was not delivered, the reader leaves when the thread gets lost, and
\* everything else the thread does is invisible.
THEOREM UploadImplementsQueue == Spec => Queue!Spec
<1>1. Init => Queue!Init
  BY DEF Init, Queue!Init
<1>2. /\ TypeOK /\ ThreadOK /\ Conservation
      /\ [Next]_vars
      => [Queue!Next]_(Queue!queueVars)
  <2> SUFFICES ASSUME TypeOK, ThreadOK, Conservation, [Next]_vars
               PROVE  [Queue!Next]_(Queue!queueVars)
    OBVIOUS
  <2>1. ASSUME NEW p \in OutPipes, RxProbe(p)
        PROVE  [Queue!Next]_(Queue!queueVars)
    <3> DEFINE new == arrived[p] + 1
    <3>1. new \in Packet
      BY <2>1, UploadAssumption DEF RxProbe, Packet, TypeOK
    <3>2. UNCHANGED <<delivered, pc>>
      BY <2>1 DEF RxProbe, threadVars
    <3>3. CASE UNCHANGED accepted
      BY <3>2, <3>3 DEF Queue!queueVars
    <3>4. CASE accepted' = [accepted EXCEPT ![p] = Append(@, new)]
      <4>1. Queue!Accept(p)
        BY <3>1, <3>2, <3>4 DEF Queue!Accept
      <4> QED
        BY <4>1 DEF Queue!Next
    <3> QED
      BY <2>1, <3>3, <3>4 DEF RxProbe, PushResume
  <2>2. CASE CallHandler
    <3>1. /\ pc = "call" /\ pc' = "walk" /\ at \in OutPipes
          /\ delivered' = [delivered EXCEPT ![at] = Append(@, pkt)]
          /\ UNCHANGED accepted
      BY <2>2 DEF CallHandler, ThreadOK
    <3>2. /\ Len(delivered[at]) < Len(accepted[at])
          /\ accepted[at][Len(delivered[at]) + 1] = pkt
      <4>1. Len(delivered[at]) \in Nat /\ Len(accepted[at]) \in Nat
        BY <3>1, LenProperties DEF TypeOK
      <4> QED
        BY <3>1, <4>1, DeliveredIsPrefix
    <3>3. Queue!Deliver(at)
      BY <3>1, <3>2 DEF Queue!Deliver
    <3> QED
      BY <3>1, <3>3 DEF Queue!Next
  <2>3. CASE GetLost
    <3>1. Queue!Leave
      BY <2>3 DEF GetLost, Queue!Leave
    <3> QED
      BY <3>1 DEF Queue!Next
  <2>4. CASE Dispatch \/ NextPipe \/ FindPacket \/ PopPacket \/ Suspend
             \/ UNCHANGED vars
    <3>1. /\ UNCHANGED <<accepted, delivered>>
          /\ (pc' = "lost") = (pc = "lost")
      BY <2>4 DEF Dispatch, NextPipe, FindPacket, PopPacket, Suspend, vars,
                  threadVars
    <3> QED
      BY <3>1 DEF Queue!queueVars
  <2> QED
    BY <2>1, <2>2, <2>3, <2>4 DEF Next
<1> QED
  BY <1>1, <1>2, TypeCorrect, PacketsAreConserved, PTL DEF Spec, Queue!Spec
=============================================================================
