----------------------------- MODULE UsbdUpload -----------------------------
(***************************************************************************)
(* The upload half of the device protocol layer (usbd_protocol_layer.c):   *)
(* the USB interrupt copies each received packet into the lbuf of its pipe *)
(* and resumes the protocol thread; the thread walks all links and pipes,  *)
(* empties the lbufs into the handlers, and suspends itself.               *)
(*                                                                         *)
(* The interrupt preempts the thread between any two of its steps and runs *)
(* to its end, so a probe handler is one action and the thread's loop is   *)
(* several.  The control pipe and the IN pipes are visited by the thread   *)
(* too; what it does there is in UsbdControl and UsbdSend.                 *)
(*                                                                         *)
(* All pipes are open.  usbd_pipe_open has left the link behind the last   *)
(* one as the caller's structure had it (UsbdOpen), so a walk that reaches *)
(* the end of the list may never come back from there.                     *)
(***************************************************************************)
EXTENDS Naturals, Sequences

CONSTANTS
  NumPipes,       \* pipes of the link in the order of the list; the control pipe is 1
  OutPipes,       \* those with number # 0 and direction USB_DIR_OUT
  LbufCap,        \* packets an lbuf has room for
  MaxArrivals,    \* bound: packets received on one pipe in a behaviour
  ResumeLatched   \* does the kernel keep a thread_resume() of a running thread?

ASSUME UploadAssumption ==
  /\ NumPipes \in Nat
  /\ OutPipes \subseteq 1..NumPipes
  /\ LbufCap \in Nat \ {0}
  /\ MaxArrivals \in Nat
  /\ ResumeLatched \in BOOLEAN

Pipe   == 1..NumPipes
Packet == 1..MaxArrivals   \* a packet is its number in the order of arrival
NoPkt  == 0                \* a NULL pkt

VARIABLES
  lbuf,       \* lbuf[p]: packets pushed for pipe p and not yet popped
  wake,       \* thread_resume() has been called and not yet been consumed
  pc,         \* where the protocol thread is
  at,         \* the pipe the list walk has reached
  pkt,        \* the thread's local variable pkt
  arrived,    \* history: packets received on each pipe
  accepted,   \* history: packets pushed to each lbuf
  delivered   \* history: packets handed to each pipe's handler

threadVars == <<pc, at, pkt>>
vars == <<lbuf, wake, threadVars, arrived, accepted, delivered>>

Init ==
  /\ lbuf = [p \in OutPipes |-> << >>]
  /\ wake \in BOOLEAN
  /\ pc = "idle" /\ at = 1 /\ pkt = NoPkt
  /\ arrived   = [p \in OutPipes |-> 0]
  /\ accepted  = [p \in OutPipes |-> << >>]
  /\ delivered = [p \in OutPipes |-> << >>]

-----------------------------------------------------------------------------
(* The interrupt.                                                          *)

\* Slips the properties must notice (not part of the specification): a resume
\* saved when the thread is already running, a packet pushed at the wrong end,
\* and a push without room for it.
PushResumeIfIdle(p, packet) ==
  /\ lbuf' = [lbuf EXCEPT ![p] = Append(@, packet)]
  /\ accepted' = [accepted EXCEPT ![p] = Append(@, packet)]
  /\ wake' = (wake \/ pc = "idle")
PushFront(p, packet) ==
  /\ lbuf' = [lbuf EXCEPT ![p] = <<packet>> \o @]
  /\ accepted' = [accepted EXCEPT ![p] = Append(@, packet)]
  /\ wake' = TRUE

\* lbuf_push() and thread_resume(); the thread is runnable from now on.
PushResume(p, packet) ==
  /\ lbuf' = [lbuf EXCEPT ![p] = Append(@, packet)]
  /\ accepted' = [accepted EXCEPT ![p] = Append(@, packet)]
  /\ wake' = TRUE

RxProbeUnchecked(p) ==
  /\ arrived[p] < MaxArrivals
  /\ arrived' = [arrived EXCEPT ![p] = @ + 1]
  /\ PushResume(p, arrived[p] + 1)
  /\ UNCHANGED <<threadVars, delivered>>

\* rx_probe_packet_handler.  lbuf_alloc() may fail at any time (the pool is
\* not in the repository) and does fail when the lbuf is full: the packet is
\* then dropped before the thread is resumed.
RxProbe(p) ==
  /\ arrived[p] < MaxArrivals
  /\ arrived' = [arrived EXCEPT ![p] = @ + 1]
  /\ \/ /\ Len(lbuf[p]) < LbufCap
        /\ PushResume(p, arrived[p] + 1)
     \/ UNCHANGED <<lbuf, accepted, wake>>
  /\ UNCHANGED <<threadVars, delivered>>

-----------------------------------------------------------------------------
(* The protocol thread: one call of usb_protocol_thread() per wake-up.     *)

Dispatch ==
  /\ pc = "idle" /\ wake
  /\ wake' = FALSE
  /\ pc' = "walk" /\ at' = 1
  /\ UNCHANGED <<lbuf, pkt, arrived, accepted, delivered>>

\* The walk leaves a pipe: another post handler has returned, or this pipe's
\* lbuf_empty() is true.
NextPipe ==
  /\ pc = "walk" /\ at \in Pipe
  /\ at \in OutPipes => lbuf[at] = << >>
  /\ at' = at + 1
  /\ UNCHANGED <<lbuf, wake, pc, pkt, arrived, accepted, delivered>>

\* rx_post_packet_handler finds !lbuf_empty().
FindPacket ==
  /\ pc = "walk" /\ at \in OutPipes
  /\ lbuf[at] # << >>
  /\ pc' = "pop"
  /\ UNCHANGED <<lbuf, wake, at, pkt, arrived, accepted, delivered>>

\* A slip: the packet is read but left in the lbuf.
PeekPacket ==
  /\ pc = "pop"
  /\ pkt' = Head(lbuf[at])
  /\ pc' = "call"
  /\ UNCHANGED <<lbuf, wake, at, arrived, accepted, delivered>>

\* lbuf_pop(), and the test of its result.
PopPacket ==
  /\ pc = "pop"
  /\ IF lbuf[at] = << >>
       THEN /\ pc' = "walk"
            /\ UNCHANGED <<lbuf, pkt>>
       ELSE /\ pkt' = Head(lbuf[at])
            /\ lbuf' = [lbuf EXCEPT ![at] = Tail(@)]
            /\ pc' = "call"
  /\ UNCHANGED <<wake, at, arrived, accepted, delivered>>

\* pipe->handler(USB_DATA_PACKET, pipe->endpoint, pkt, pipe->pkt_size)
CallHandler ==
  /\ pc = "call"
  /\ delivered' = [delivered EXCEPT ![at] = Append(@, pkt)]
  /\ pkt' = NoPkt
  /\ pc' = "walk"
  /\ UNCHANGED <<lbuf, wake, at, arrived, accepted>>

\* The walk follows the link behind the last pipe.  Where usbd_pipe_open has put
\* the caller's structure over the pipe and its list entry, the link leads
\* anywhere; the walk may then be somewhere in memory for good.
GetLost ==
  /\ pc = "walk" /\ at = NumPipes + 1 /\ NumPipes > 1
  /\ pc' = "lost"
  /\ UNCHANGED <<lbuf, wake, at, pkt, arrived, accepted, delivered>>

\* A slip: thread_suspend() clears what was resumed during the walk.
SuspendForgets ==
  /\ pc = "walk" /\ at = NumPipes + 1
  /\ pc' = "idle" /\ at' = 1
  /\ wake' = FALSE
  /\ UNCHANGED <<lbuf, pkt, arrived, accepted, delivered>>

\* The walk has come back to the head of the list: thread_suspend(th, 0) and
\* the return.  A kernel that latches resumes runs
\* the thread again if it was resumed during the walk; one that does not
\* forgets it.
Suspend ==
  /\ pc = "walk" /\ at = NumPipes + 1
  /\ pc' = "idle" /\ at' = 1
  /\ wake' = (wake /\ ResumeLatched)
  /\ UNCHANGED <<lbuf, pkt, arrived, accepted, delivered>>

Thread == Dispatch \/ NextPipe \/ FindPacket \/ PopPacket \/ CallHandler
          \/ GetLost \/ Suspend

Next ==
  \/ \E p \in OutPipes : RxProbe(p)
  \/ Dispatch
  \/ NextPipe
  \/ FindPacket
  \/ PopPacket
  \/ CallHandler
  \/ GetLost
  \/ Suspend

Spec == Init /\ [][Next]_vars

\* The kernel runs a thread that is runnable; the host owes the device nothing.
FairSpec == Spec /\ WF_vars(Thread)

-----------------------------------------------------------------------------
(* Properties.                                                             *)

\* Every variable has its type, and no lbuf holds more than it has room for.
TypeOK ==
  /\ lbuf \in [OutPipes -> Seq(Packet)]
  /\ \A p \in OutPipes : Len(lbuf[p]) <= LbufCap
  /\ wake \in BOOLEAN
  /\ pc \in {"idle", "walk", "pop", "call", "lost"}
  /\ at \in 1..(NumPipes + 1)
  /\ pkt \in Packet \cup {NoPkt}
  /\ arrived \in [OutPipes -> 0..MaxArrivals]
  /\ accepted \in [OutPipes -> Seq(Packet)]
  /\ delivered \in [OutPipes -> Seq(Packet)]

\* The packet the thread has popped from p and not yet handed over.
InHand(p) == IF pc = "call" /\ at = p THEN <<pkt>> ELSE << >>

\* Between rx_probe_packet_handler in the interrupt and rx_post_packet_handler
\* in the thread no packet is lost, repeated, invented or overtaken: what was
\* pushed is what the handler got, then what the thread holds, then the lbuf.
Conservation ==
  \A p \in OutPipes : accepted[p] = delivered[p] \o InHand(p) \o lbuf[p]

\* A handler sees the packets of its pipe in the order the hardware received
\* them and none of them twice, with gaps where lbuf_alloc() failed.
InArrivalOrder ==
  \A p \in OutPipes : \A i, j \in 1..Len(delivered[p]) :
    i < j => delivered[p][i] < delivered[p][j]

\* The interrupt may strike after the walk has passed a pipe and before
\* thread_suspend(): under a kernel that latches resumes the thread still does
\* not sleep on a packet.
NoLostWakeup ==
  ResumeLatched /\ pc = "idle" /\ ~wake => \A p \in OutPipes : lbuf[p] = << >>

\* The upload path implements the packet queue, its liveness included: every
\* packet that was accepted reaches the handler, unless the thread has got lost
\* behind the last pipe before.
Queue == INSTANCE PacketQueue WITH Pipe <- OutPipes, gone <- (pc = "lost")
RefinesPacketQueue == Queue!FairSpec
=============================================================================
