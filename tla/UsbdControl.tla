---------------------------- MODULE UsbdControl ----------------------------
(***************************************************************************)
(* The control pipe in the device protocol layer (usbd_protocol_layer.c),  *)
(* with the endpoint 0 half of the interrupt (musb_phy.c).                 *)
(*                                                                         *)
(* One lbuf serves both directions of the pipe.  Three parties take        *)
(* packets out of it: the protocol thread in ep0_post_packet_handler, the  *)
(* interrupt in tx_probe_packet_handler, and whoever sends a reply in      *)
(* usbd_pipe_send_packet.  What becomes of a packet is decided by          *)
(* pipe->state at the moment it is taken, not at the moment it came.       *)
(*                                                                         *)
(* The control pipe is alone in the list, as after usbd_protocol_init, so  *)
(* that the thread's walk comes back; usbd_pipe_open breaks the list       *)
(* behind the pipe it adds (UsbdOpen).                                     *)
(***************************************************************************)
EXTENDS Naturals, Sequences

CONSTANTS
  LbufCap,     \* packets the lbuf has room for
  HostSends,   \* the kinds of packets the host sends
  MaxReceived, \* bound: packets received in a behaviour
  MaxReplies   \* bound: packets the upper layer replies with in a behaviour

\* What the host sends: requests of the standard type and of the class and
\* vendor types, and the data of an OUT transfer.
Setup    == {"standard", "class"}
FromHost == Setup \cup {"data"}

ASSUME ControlAssumption ==
  /\ LbufCap \in Nat \ {0}
  /\ HostSends \subseteq FromHost
  /\ MaxReceived \in Nat
  /\ MaxReplies \in Nat

\* "garbage" is what an interrupt without RxPktRdy uploads, "reply" a packet
\* of the upper layer on its way to the host.
Kind   == FromHost \cup {"garbage", "reply"}
Packet == [id : 1..(MaxReceived + MaxReplies), kind : Kind]
NoPkt  == [id |-> 0, kind |-> "garbage"]

State == {"USB_DEVICE_W4_SETUP", "EP0_SETUP_ST", "EP0_DATA_IN_ST",
          "EP0_DATA_OUT_ST"}

\* What ends a transfer early: SentStall, and SetupEnd, which wins over it.
Abort   == {"USB_EP0_STALL", "USB_EP0_SETUPEND"}
NoAbort == "none"

VARIABLES
  state,           \* pipe->state
  transfer_state,  \* pipe->transfer_state; NoAbort before it is set
  lbuf,            \* the control pipe's lbuf
  wake,            \* the protocol thread has been resumed
  pc,              \* where the thread is in ep0_post_packet_handler
  pkt,             \* its variable pkt
  replying,        \* the caller is between lbuf_push and lbuf_pop
  busy,            \* CSR0 TxPktRdy: the controller has a packet for the host
  received,        \* history: number of packets and garbage uploaded
  pushed,          \* history: what was pushed to the lbuf
  taken,           \* history: what was popped from it
  sent,            \* history: what of that was given to musb_send_packet
  handled,         \* history: what of that the thread handled, and as what
  careless         \* history: pipe->state was changed in the middle of a transfer,
                   \* or a reply begun in another state than the one for replies

threadVars == <<pc, pkt>>
vars == <<state, transfer_state, lbuf, wake, threadVars, replying, busy,
          received, pushed, taken, sent, handled, careless>>

Init ==
  /\ state = "USB_DEVICE_W4_SETUP" /\ transfer_state = NoAbort
  /\ lbuf = << >> /\ wake \in BOOLEAN
  /\ pc = "idle" /\ pkt = NoPkt
  /\ replying = FALSE /\ busy = FALSE
  /\ received = 0
  /\ pushed = << >> /\ taken = << >> /\ sent = << >> /\ handled = << >>
  /\ careless = FALSE

Enqueue(kind) ==
  LET new == [id |-> Len(pushed) + 1, kind |-> kind]
  IN  lbuf' = Append(lbuf, new) /\ pushed' = Append(pushed, new)

\* lbuf_alloc() and lbuf_push(), and the slip of a push without an alloc.
PushUnchecked(kind) == Enqueue(kind)
Push(kind) == Len(lbuf) < LbufCap /\ Enqueue(kind)

Pop == lbuf' = Tail(lbuf) /\ taken' = Append(taken, Head(lbuf))

-----------------------------------------------------------------------------
(* The interrupt.                                                          *)

\* The packet is queued, and the thread resumed, if there is memory for it.
RxProbeWith(kind, resumed) ==
  /\ \/ /\ received < MaxReceived
        /\ Push(kind)
        /\ received' = received + 1
        /\ wake' = resumed
     \/ UNCHANGED <<lbuf, pushed, received, wake>>
  /\ UNCHANGED <<taken, sent>>

\* A slip: the thread is resumed only if it sleeps.
RxProbeIfIdle(kind) == RxProbeWith(kind, wake \/ pc = "idle")

\* rx_probe_packet_handler
RxProbe(kind) == RxProbeWith(kind, TRUE)

\* tx_probe_packet_handler.  data_len is abstracted: the thread is resumed if
\* it has come to 0.  busy is what CSR0 said before "send remain packet".
TxProbe ==
  /\ wake' \in {wake, TRUE}
  /\ IF lbuf = << >>
       THEN UNCHANGED <<lbuf, taken, sent>>
       ELSE Pop /\ sent' = Append(sent, Head(lbuf))
  /\ UNCHANGED <<pushed, received>>

\* ep0_probe_packet_handler, with the aborts it knows and the states in which it
\* uploads.  A transfer_state, once set, is there for good.
ProbeWith(kind, aborts, uploading) ==
  IF transfer_state' \in aborts
    THEN /\ state' = "EP0_SETUP_ST"
         /\ UNCHANGED <<lbuf, wake, received, pushed, taken, sent>>
    ELSE /\ UNCHANGED state
         /\ \/ state \in uploading /\ RxProbe(kind)
            \/ state = "EP0_DATA_IN_ST" /\ TxProbe
            \/ /\ state = "USB_DEVICE_W4_SETUP"
               /\ UNCHANGED <<lbuf, wake, received, pushed, taken, sent>>

Uploading == {"EP0_SETUP_ST", "EP0_DATA_OUT_ST"}

\* Slips: a SetupEnd that is not looked at, and an upload in every state.
Ep0ProbeForgetsSetupEnd(kind) == ProbeWith(kind, {"USB_EP0_STALL"}, Uploading)
Ep0ProbeUploadsAlways(kind) == ProbeWith(kind, Abort, State)

Ep0Probe(kind) == ProbeWith(kind, Abort, Uploading)

\* musb_ep0_process.  What CSR0 says besides RxPktRdy is kept in
\* transfer_state; pkt stays uninitialized without RxPktRdy.  The
\* host's data waits for the upper layer to be ready for it.
Ep0Interrupt(kind, abort, txdone) ==
  /\ txdone => busy
  /\ kind # "garbage" \/ abort # NoAbort \/ txdone
  /\ kind = "data" => state = "EP0_DATA_OUT_ST"
  /\ transfer_state' = IF abort # NoAbort THEN abort ELSE transfer_state
  /\ Ep0Probe(kind)
  /\ busy' = ((busy /\ ~txdone) \/ sent' # sent)
  /\ UNCHANGED <<threadVars, replying, handled, careless>>

-----------------------------------------------------------------------------
(* The protocol thread, as far as the control pipe sees it.                *)

Dispatch ==
  /\ pc = "idle" /\ wake
  /\ wake' = FALSE /\ pc' = "test"
  /\ UNCHANGED <<state, transfer_state, lbuf, pkt, replying, busy, received,
                 pushed, taken, sent, handled, careless>>

\* while (!lbuf_empty()); when it ends the walk is at the end of the list.
TestEmpty ==
  /\ pc = "test"
  /\ pc' = IF lbuf = << >> THEN "end" ELSE "pop"
  /\ UNCHANGED <<state, transfer_state, lbuf, wake, pkt, replying, busy,
                 received, pushed, taken, sent, handled, careless>>

\* thread_suspend(), which a kernel that latches resumes may end at once.
Suspend ==
  /\ pc = "end"
  /\ pc' = "idle"
  /\ UNCHANGED <<state, transfer_state, lbuf, wake, pkt, replying, busy,
                 received, pushed, taken, sent, handled, careless>>

\* A slip: the result of lbuf_pop() is not tested for NULL.
PopPacketUnchecked ==
  /\ pc = "pop"
  /\ pc' = "handle"
  /\ IF lbuf = << >>
       THEN pkt' = NoPkt /\ UNCHANGED <<lbuf, taken>>
       ELSE pkt' = Head(lbuf) /\ Pop
  /\ UNCHANGED <<state, transfer_state, wake, replying, busy, received, pushed,
                 sent, handled, careless>>

\* lbuf_pop() and the test of its result: the packet seen a moment ago may have
\* been sent by the interrupt since.
PopPacket ==
  /\ pc = "pop"
  /\ IF lbuf = << >>
       THEN pc' = "test" /\ UNCHANGED <<pkt, lbuf, taken>>
       ELSE pc' = "handle" /\ pkt' = Head(lbuf) /\ Pop
  /\ UNCHANGED <<state, transfer_state, wake, replying, busy, received, pushed,
                 sent, handled, careless>>

Handle(use) ==
  /\ pc = "handle"
  /\ pc' = "test" /\ pkt' = NoPkt
  /\ handled' = Append(handled, [kind |-> pkt.kind, use |-> use])
  /\ UNCHANGED <<state, transfer_state, lbuf, wake, replying, received, pushed,
                 taken, sent, careless>>

\* ep0_setup_process: a request of the standard type goes to the upper layer,
\* any other to the switch, which may reply to it past the lbuf.  In anything
\* that is not a request the type is what the bytes happen to say.
SetupProcess ==
  /\ state = "EP0_SETUP_ST"
  /\ \/ pkt.kind # "class" /\ Handle("upper") /\ UNCHANGED busy
     \/ pkt.kind # "standard" /\ Handle("switch") /\ busy' \in {busy, TRUE}

\* ep0_tx_process and ep0_rx_process (not in the repository), and no case.
DataProcess ==
  /\ \/ state = "EP0_DATA_IN_ST" /\ Handle("in")
     \/ state = "EP0_DATA_OUT_ST" /\ Handle("out")
     \/ state = "USB_DEVICE_W4_SETUP" /\ Handle("nothing")
  /\ UNCHANGED busy

-----------------------------------------------------------------------------
(* The upper layer, on the control pipe.                                   *)

\* There are no packets of the old state.
InBetween ==
  lbuf = << >> /\ pc \in {"idle", "test", "end"} /\ ~replying /\ ~busy

\* pipe->state is kept "by upper layer" (usb_interface.h), which may change it at
\* any time; a careful one changes it in between transfers.
SetState(s) ==
  /\ state' = s
  /\ careless' = (careless \/ ~InBetween)
  /\ UNCHANGED <<transfer_state, lbuf, wake, threadVars, replying, busy,
                 received, pushed, taken, sent, handled>>

\* usbd_pipe_send_packet: its loop queues the reply; lbuf_alloc() may fail, and it
\* returns; or it starts what is first in the lbuf.  It does not look at the
\* state; a careful upper layer calls it in EP0_DATA_IN_ST.
QueueReply ==
  /\ Len(pushed) - received < MaxReplies
  /\ Push("reply")
  /\ replying' = TRUE
  /\ careless' = (careless \/ (~replying /\ state # "EP0_DATA_IN_ST"))
  /\ UNCHANGED <<state, transfer_state, wake, threadVars, busy, received, taken,
                 sent, handled>>

ReplyFails ==
  /\ replying
  /\ replying' = FALSE
  /\ UNCHANGED <<state, transfer_state, lbuf, wake, threadVars, busy, received,
                 pushed, taken, sent, handled, careless>>

StartReply ==
  /\ replying
  /\ replying' = FALSE
  /\ IF lbuf = << >>
       THEN UNCHANGED <<lbuf, taken, sent, busy>>
       ELSE Pop /\ sent' = Append(sent, Head(lbuf)) /\ busy' = TRUE
  /\ UNCHANGED <<state, transfer_state, wake, threadVars, received, pushed,
                 handled, careless>>

-----------------------------------------------------------------------------
Thread ==
  Dispatch \/ TestEmpty \/ PopPacket \/ SetupProcess \/ DataProcess \/ Suspend

Next ==
  \/ \E kind \in HostSends \cup {"garbage"}, abort \in Abort \cup {NoAbort},
        txdone \in BOOLEAN : Ep0Interrupt(kind, abort, txdone)
  \/ Dispatch
  \/ TestEmpty
  \/ PopPacket
  \/ SetupProcess
  \/ DataProcess
  \/ Suspend
  \/ \E s \in State : SetState(s)
  \/ QueueReply
  \/ ReplyFails
  \/ StartReply

Spec == Init /\ [][Next]_vars

\* The kernel runs a thread that is runnable, and keeps its resumes.
FairSpec == Spec /\ WF_vars(Thread)

-----------------------------------------------------------------------------
(* Properties.                                                             *)

\* Every variable has its type, and the lbuf is never overfull.
TypeOK ==
  /\ state \in State
  /\ transfer_state \in Abort \cup {NoAbort}
  /\ lbuf \in Seq(Packet) /\ Len(lbuf) <= LbufCap
  /\ wake \in BOOLEAN /\ replying \in BOOLEAN /\ busy \in BOOLEAN
  /\ pc \in {"idle", "test", "pop", "handle", "end"}
  /\ pkt \in Packet \cup {NoPkt}
  /\ received \in 0..MaxReceived
  /\ pushed \in Seq(Packet) /\ taken \in Seq(Packet) /\ sent \in Seq(Packet)
  /\ handled \in Seq([kind : Kind,
                      use : {"upper", "switch", "in", "out", "nothing"}])
  /\ careless \in BOOLEAN

\* The thread, the interrupt and the sender of a reply empty one lbuf, the
\* thread with a test and a pop the others can come between: still every packet
\* is taken by one of them, in the order of the queue, and nothing else is.
TakenOnce ==
  /\ pushed = taken \o lbuf
  /\ Len(taken) = Len(sent) + Len(handled) + (IF pc = "handle" THEN 1 ELSE 0)

\* A SentStall or SetupEnd, kept in transfer_state for good, makes the control
\* pipe deaf: from then on no packet of the host is uploaded.
DeafAfterAbort == [][transfer_state # NoAbort => received' = received]_vars

\* A packet of the host that was uploaded is taken in the end, whatever the
\* state it came in, provided the kernel latches resumes.
UploadsAreTaken ==
  \A n \in 1..(MaxReceived + MaxReplies) :
    Len(pushed) >= n /\ pushed[n].kind # "reply" ~> Len(taken) >= n

\* What ep0_setup_process reads as a struct usb_ctrlrequest is "SETUP data for a
\* USB device control request" (ch9.h:168), as far as a careful upper layer goes.
OnlySetupDataIsParsed ==
  ~careless => \A i \in 1..Len(handled) :
    handled[i].use \in {"upper", "switch"} => handled[i].kind \in Setup

\* "send remain packet" (usbd_protocol_layer.c:76): what the control pipe sends
\* out of its lbuf is what was left of a reply, as long as the upper layer begins
\* its replies in EP0_DATA_IN_ST and changes the state in between transfers; an
\* abort, which changes it too, does no harm.  Sent in another state a reply may
\* be left behind and a packet of the host be sent back in its place.
OnlyRepliesAreSent ==
  ~careless => \A i \in 1..Len(sent) : sent[i].kind = "reply"
=============================================================================
