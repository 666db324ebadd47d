------------------------------ MODULE UsbdSend ------------------------------
(***************************************************************************)
(* The send half of the device protocol layer (usbd_protocol_layer.c), for *)
(* one IN pipe other than the control pipe.  usbd_pipe_send_packet cuts a  *)
(* transfer into packets, queues them in the pipe's lbuf and gives the     *)
(* first to the controller; each transmit interrupt accounts for one       *)
(* packet and gives the controller the next; the protocol thread tells the *)
(* upper layer when the transfer is over.                                  *)
(*                                                                         *)
(* The interrupt preempts the caller and the thread between any two steps. *)
(* The environment is the upper layer, which decides when to send, and the *)
(* controller, which raises one transmit interrupt per packet the host has *)
(* taken.                                                                  *)
(***************************************************************************)
EXTENDS Integers, Sequences, FiniteSets

CONSTANTS
  MaxPkt,        \* pipe->maxpktsize
  Sizes,         \* the transfer sizes the upper layer uses
  LbufCap,       \* packets the lbuf has room for
  AllocMayFail,  \* may lbuf_alloc() fail although the lbuf has room?
  Serial,        \* does the upper layer wait for the completion event?
  Retries,       \* does it send again after lbuf_alloc() has failed?
  MaxTransfers   \* bound: calls of usbd_pipe_send_packet in a behaviour

U16 == 65536     \* data_len is a u16

ASSUME SendAssumption ==
  /\ MaxPkt \in 1..(U16 - 1)
  /\ Sizes \subseteq 0..(U16 - 1)
  /\ LbufCap \in Nat \ {0}
  /\ AllocMayFail \in BOOLEAN
  /\ Serial \in BOOLEAN
  /\ Retries \in BOOLEAN
  /\ MaxTransfers \in Nat

\* A queued packet: the one that is cut off when "left" bytes of transfer
\* "xfer" are still to be queued.
Packet == [xfer : 1..MaxTransfers, left : 1..(U16 - 1)]
LenOf(left) == IF left > MaxPkt THEN MaxPkt ELSE left
IsLast(packet) == packet.left <= MaxPkt

VARIABLES
  lbuf,       \* the pipe's lbuf
  data_len,   \* pipe->data_len
  send_ok,    \* pipe->send_ok
  wake,       \* the protocol thread has been resumed
  post,       \* the thread: "event" in tx_post_packet_handler, "lost", or "idle"
  call,       \* where the caller is in usbd_pipe_send_packet, or in its _wait
  waits,      \* it is usbd_pipe_send_packet_wait that was called
  left,       \* its variable size
  pkt,        \* <<pkt>> when it has popped one, << >> otherwise
  dma,        \* <<packet>> while TxPktRdy is set, << >> otherwise
  irq,        \* the transmit interrupt is pending
  xfer,       \* history: the number of transfers requested
  failed,     \* history: the transfers lbuf_alloc() has cut short
  queued,     \* history: packets pushed to the lbuf
  wire,       \* history: packets the host has taken
  completed,  \* history: the transfers send_ok was set for
  events      \* history: completion events the upper layer was given

pipeVars == <<lbuf, data_len, send_ok>>
callVars == <<call, waits, left, pkt>>
histVars == <<xfer, failed, queued, completed>>
vars == <<pipeVars, wake, post, callVars, dma, irq, wire, events, histVars>>

Init ==
  /\ lbuf = << >> /\ data_len = 0 /\ send_ok = FALSE
  /\ wake \in BOOLEAN /\ post = "idle"
  /\ call = "none" /\ waits = FALSE /\ left = 0 /\ pkt = << >>
  /\ dma = << >> /\ irq = FALSE
  /\ xfer = 0 /\ failed = {} /\ completed = {}
  /\ queued = << >> /\ wire = << >> /\ events = 0

-----------------------------------------------------------------------------
(* usbd_pipe_send_packet and usbd_pipe_send_packet_wait, in the context of the  *)
(* upper layer.                                                            *)

\* The last transfer is over as far as the upper layer can know.
Told == events >= Cardinality(1..xfer \ (IF Retries THEN failed ELSE {}))

Send(size, wait) ==
  /\ call = "none" /\ xfer < MaxTransfers
  /\ Serial => Told
  /\ data_len' = size
  /\ call' = "fill" /\ waits' = wait /\ left' = size
  /\ xfer' = xfer + 1
  /\ UNCHANGED <<lbuf, send_ok, wake, post, pkt, dma, irq, wire, events,
                 failed, queued, completed>>

\* usbd_pipe_send_packet returns, to its caller or to usbd_pipe_send_packet_wait.
Returned == IF waits THEN "wait" ELSE "none"

\* One turn of the while loop; the next packet to be cut off is queued.
QueuePacket ==
  LET new == [xfer |-> xfer, left |-> left]
  IN  /\ call = "fill" /\ left > 0
      /\ Len(lbuf) < LbufCap
      /\ lbuf' = Append(lbuf, new)
      /\ queued' = Append(queued, new)
      /\ left' = left - LenOf(left)
      /\ UNCHANGED <<data_len, send_ok, wake, post, call, waits, pkt, dma, irq,
                     wire, events, xfer, failed, completed>>

\* lbuf_alloc() fails, which it must when the lbuf is full: the function
\* returns, and what it has queued and counted so far stays.
AllocFails ==
  /\ call = "fill" /\ left > 0
  /\ AllocMayFail \/ Len(lbuf) >= LbufCap
  /\ call' = Returned /\ left' = 0
  /\ failed' = failed \cup {xfer}
  /\ UNCHANGED <<pipeVars, waits, wake, post, pkt, dma, irq, wire, events, xfer,
                 queued, completed>>

\* "start send": the lbuf_pop() after the loop.
PopFirst ==
  /\ call = "fill" /\ left = 0
  /\ IF lbuf = << >>
       THEN call' = Returned /\ UNCHANGED <<lbuf, pkt>>
       ELSE call' = "send" /\ pkt' = <<Head(lbuf)>> /\ lbuf' = Tail(lbuf)
  /\ UNCHANGED <<data_len, send_ok, wake, post, waits, left, dma, irq, wire,
                 events, histVars>>

\* musb_send_packet: the packet is copied into the endpoint's only buffer,
\* whatever is in it, and TxPktRdy is set.
StartSend ==
  /\ call = "send"
  /\ dma' = pkt
  /\ call' = Returned /\ pkt' = << >>
  /\ UNCHANGED <<pipeVars, waits, wake, post, left, irq, wire, events, histVars>>

\* The loop of usbd_pipe_send_packet_wait.  Nothing sets wait_ok, and what it
\* suspends is the protocol thread: a resume of that is taken back.
Wait ==
  /\ call = "wait"
  /\ wake' = FALSE
  /\ UNCHANGED <<pipeVars, post, callVars, dma, irq, wire, events, histVars>>

-----------------------------------------------------------------------------
(* The controller and the host (not in the repository).                    *)

Transmit ==
  /\ dma # << >> /\ ~irq
  /\ wire' = wire \o dma
  /\ dma' = << >>
  /\ irq' = TRUE
  /\ UNCHANGED <<pipeVars, wake, post, callVars, events, histVars>>

-----------------------------------------------------------------------------
(* tx_probe_packet_handler, in the interrupt.                              *)

\* A transfer in progress has "remaining" bytes left after this packet; when it
\* is over it is reported and the thread resumed.
AccountAs(remaining, over, resumed) ==
  IF data_len = 0
    THEN UNCHANGED <<data_len, send_ok, wake, completed>>
    ELSE /\ data_len' = remaining
         /\ IF over
              THEN /\ send_ok' = TRUE /\ wake' = resumed
                   /\ completed' = completed \cup {xfer}
              ELSE UNCHANGED <<send_ok, wake, completed>>

\* pipe->data_len -= maxpktsize, modulo the width of data_len.
Remaining == (data_len - MaxPkt + U16) % U16

\* Slips: a transfer reported one packet early, one reported to nobody, and
\* data_len kept in a signed variable.
AccountEarly   == AccountAs(Remaining, Remaining <= MaxPkt, TRUE)
AccountQuietly == AccountAs(Remaining, Remaining = 0, wake)
AccountSigned  == AccountAs(data_len - MaxPkt, data_len = MaxPkt, TRUE)

Account == AccountAs(Remaining, Remaining = 0, TRUE)

\* A slip: the packet is sent and stays queued.
SendRemainingPeeks ==
  /\ dma' = IF lbuf = << >> THEN dma ELSE <<Head(lbuf)>>
  /\ UNCHANGED lbuf

\* "send remain packet"
SendRemaining ==
  IF lbuf = << >>
    THEN UNCHANGED <<lbuf, dma>>
    ELSE dma' = <<Head(lbuf)>> /\ lbuf' = Tail(lbuf)

TxProbe ==
  /\ irq
  /\ irq' = FALSE
  /\ Account
  /\ SendRemaining
  /\ UNCHANGED <<post, callVars, wire, events, xfer, failed, queued>>

-----------------------------------------------------------------------------
(* The protocol thread.                                                    *)

\* Another pipe's interrupt resumes the thread.
ResumedForAnother ==
  /\ ~wake
  /\ wake' = TRUE
  /\ UNCHANGED <<pipeVars, post, callVars, dma, irq, wire, events, histVars>>

\* A slip: send_ok is not looked at.
TxPostUnchecked ==
  /\ post = "idle" /\ wake
  /\ wake' = FALSE
  /\ post' = "event"
  /\ UNCHANGED <<pipeVars, callVars, dma, irq, wire, events, histVars>>

\* The walk goes on from this pipe to the end of the list.  All IN pipes are
\* opened by usbd_pipe_open, which leaves the link behind the last pipe as the
\* caller's structure had it (UsbdOpen): the walk may not come back from there.
WalkOn == post' \in {"idle", "lost"}

\* One walk of the thread, as far as this pipe sees it: the test of send_ok.
TxPost ==
  /\ post = "idle" /\ wake
  /\ wake' = FALSE
  /\ IF send_ok THEN post' = "event" ELSE WalkOn
  /\ UNCHANGED <<pipeVars, callVars, dma, irq, wire, events, histVars>>

\* pipe->handler(USB_EVENT_PACKET, ...).  Nothing in the protocol layer takes
\* send_ok back: it is a field kept "by upper layer" (usb_interface.h), which
\* is assumed to clear it here.
Event ==
  /\ post = "event"
  /\ WalkOn
  /\ events' = events + 1
  /\ send_ok' = FALSE
  /\ UNCHANGED <<lbuf, data_len, wake, callVars, dma, irq, wire, histVars>>

-----------------------------------------------------------------------------
Next ==
  \/ \E size \in Sizes, wait \in BOOLEAN : Send(size, wait)
  \/ QueuePacket
  \/ AllocFails
  \/ PopFirst
  \/ StartSend
  \/ Wait
  \/ Transmit
  \/ TxProbe
  \/ ResumedForAnother
  \/ TxPost
  \/ Event

Spec == Init /\ [][Next]_vars

\* A call that has begun runs on; the host polls the endpoint; a pending
\* interrupt is taken; a runnable thread is run.  The upper layer need not send.
FairSpec ==
  /\ Spec
  /\ WF_vars(QueuePacket \/ AllocFails \/ PopFirst \/ StartSend)
  /\ WF_vars(Transmit)
  /\ WF_vars(TxProbe)
  /\ WF_vars(TxPost \/ Event)

-----------------------------------------------------------------------------
(* Properties.                                                             *)

AtMostOne(s) == Len(s) <= 1

\* Every variable has its type, and the lbuf is never overfull.
TypeOK ==
  /\ lbuf \in Seq(Packet) /\ Len(lbuf) <= LbufCap
  /\ data_len \in 0..(U16 - 1)
  /\ send_ok \in BOOLEAN /\ wake \in BOOLEAN /\ irq \in BOOLEAN
  /\ post \in {"idle", "event", "lost"}
  /\ call \in {"none", "fill", "send", "wait"} /\ waits \in BOOLEAN
  /\ left \in 0..(U16 - 1)
  /\ pkt \in Seq(Packet) /\ AtMostOne(pkt)
  /\ dma \in Seq(Packet) /\ AtMostOne(dma)
  /\ xfer \in 0..MaxTransfers
  /\ failed \subseteq 1..MaxTransfers /\ completed \subseteq 1..MaxTransfers
  /\ queued \in Seq(Packet) /\ wire \in Seq(Packet)
  /\ events \in Nat

\* Between the caller, who starts a transfer, and the interrupt, which carries
\* it on, no packet is lost, sent twice or overtaken: what was queued is what
\* the host has, then what the controller has, then what the caller has popped,
\* then the lbuf.  It rests on the upper layer waiting for its event.
PacketsConserved == queued = wire \o dma \o pkt \o lbuf

\* send_ok is set for a transfer only when the host has all of it.
CompletionIsSound ==
  \A t \in completed : \E i \in 1..Len(wire) : wire[i].xfer = t /\ IsLast(wire[i])

\* The upper layer gets one event per transfer it is told of, although the
\* thread is resumed for other pipes in between.
OneEventPerTransfer == events <= Cardinality(completed)

\* A transfer of whole packets, once requested, is reported in the end, unless
\* lbuf_alloc() cuts it short or the thread gets lost behind the last pipe.  (One
\* that ends in a short packet is not: data_len passes 0 by; and
\* usbd_pipe_send_packet_wait keeps the thread from reporting it.)
IsBegun(t) ==
  xfer = t /\ call = "fill" /\ ~waits /\ left = data_len /\ left > 0 /\ left % MaxPkt = 0
TransferIsReported ==
  \A t \in 1..MaxTransfers : IsBegun(t) ~> events >= t \/ t \in failed \/ post = "lost"

\* Cut, started by the caller and carried on by the interrupt, the transfers of an
\* upper layer that waits for its events are what Transfers says.
Abstract == INSTANCE Transfers WITH
  Last <- {p \in Packet : IsLast(p)}, told <- events
RefinesTransfers == Abstract!Spec

\* The caller and the interrupt give the endpoint a packet only when it holds none,
\* as EndpointBuffers asks of them: of the driver's misuses this is the first.
Endpoints == INSTANCE EndpointBuffers WITH
  Endpoint <- {1}, Of <- [p \in Packet |-> 1], Seen <- [p \in Packet |-> p],
  held <- [e \in {1} |-> dma], astray <- FALSE, misused <- FALSE
KeepsToTheEndpoint == Endpoints!Spec

\* "start send" (usbd_protocol_layer.c:359): what the caller starts is a packet
\* of the transfer it was called for.
StartsOwnTransfer == \A i \in 1..Len(pkt) : pkt[i].xfer = xfer
=============================================================================
