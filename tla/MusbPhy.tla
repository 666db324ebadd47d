------------------------------ MODULE MusbPhy ------------------------------
(***************************************************************************)
(* The controller driver above the bridge (musb_phy.c, musb_device.c): the *)
(* endpoint tables, the binding of pipes to endpoints when they are        *)
(* opened, and the receive half of the interrupt.                          *)
(*                                                                         *)
(* Endpoints are where they are in struct usb_phy: endpoint0, rx_endpoint  *)
(* and tx_endpoint follow each other, and an index past one array is a     *)
(* place in the next.  The initialization of an endpoint is a step per     *)
(* register it writes: the interrupt and the sends of other pipes come     *)
(* between them.  endpoint->pipe is taken to be the pipe opened last on    *)
(* the endpoint, as the interrupt needs it; the code does not set it.      *)
(***************************************************************************)
EXTENDS Naturals, Sequences, FiniteSets

CONSTANTS
  Kinds,      \* the pipes that may be opened, again and again: <<type, direction>>
  PktSizes,   \* the sizes of the packets the host sends
  MaxOpens,   \* bound: endpoints initialized to receive after which none is opened
  MaxUploads  \* bound: rx_handler calls in a behaviour

Type      == {"CONTROL", "ISOC", "BULK", "INT"}
Direction == {"OUT", "IN"}

ASSUME PhyAssumption ==
  /\ Kinds \subseteq Type \X Direction
  /\ PktSizes \subseteq 1..256
  /\ MaxOpens \in Nat
  /\ MaxUploads \in Nat

\* MUSB_MAX_RX_ENDPOINT_NUMBER and MUSB_MAX_TX_ENDPOINT_NUMBER
MaxNumber == 3

\* MUSB_*_ENDPOINT_NUMBER
NumberOf == [CONTROL |-> 0, BULK |-> 1, ISOC |-> 2, INT |-> 3]

\* The places of struct usb_phy from endpoint0 on: 0; 1..3 are rx_endpoint[0..2]
\* and 4..6 tx_endpoint[0..2]; 7 is past the end.
Endpoint    == 0..(2 * MaxNumber)
Place       == 0..(2 * MaxNumber + 1)
RxAt(index) == 1 + index
TxAt(index) == 1 + MaxNumber + index

\* What the initializer of musb_phy puts there; past the end a number is whatever
\* is there.
TypeAt(ep) ==
  IF ep = 0 THEN "CONTROL"
  ELSE CHOOSE t \in Type \ {"CONTROL"} :
         ep \in {RxAt(NumberOf[t] - 1), TxAt(NumberOf[t] - 1)}
NumbersAt(ep) == IF ep \in Endpoint THEN {NumberOf[TypeAt(ep)]} ELSE 0..MaxNumber

\* A slip: the direction is not looked at.
EndpointForType(type, direction) ==
  IF type = "CONTROL" THEN 0 ELSE RxAt(NumberOf[type])

\* musb_hw_endpoint_init: the endpoint's number indexes the array, and a
\* direction other than USB_DIR_OUT (0) selects rx_endpoint.
EndpointFor(type, direction) ==
  IF type = "CONTROL" THEN 0
  ELSE IF direction = "IN" THEN RxAt(NumberOf[type]) ELSE TxAt(NumberOf[type])

RxFifo == 1..MaxNumber
NoPipe == << >>   \* a NULL pipe

VARIABLES
  owner,    \* owner[ep]: the pipe opened last on the endpoint at place ep
  pc,       \* where the upper layer is in musb_hw_endpoint_open
  number,   \* endpoint->number there
  rxe,      \* INTRRX1E: the endpoints whose receive interrupt is enabled
  index,    \* the INDEX register
  fifo,     \* fifo[n]: size of the packet in receive FIFO n, 0 if none
  latched,  \* INTRRX1: the endpoints that have received
  received, \* history: the number of packets each receive FIFO has had
  opens,    \* history: how often each receive FIFO was flushed
  latest,   \* history: the endpoint enabled last, 0 before the first
  stands,   \* history: INDEX is as the opening that enabled it has left it
  uploads   \* history: the number, pipe and size of each rx_handler call, what
            \* the endpoint's FIFO held, and "stands"

openVars == <<owner, pc, number>>
histVars == <<received, opens, latest, stands, uploads>>
vars == <<openVars, rxe, index, fifo, latched, histVars>>

Init ==
  /\ owner = [ep \in Place |-> NoPipe] /\ pc = "idle" /\ number = 0
  /\ rxe = {} /\ index = 0
  /\ fifo = [n \in RxFifo |-> 0] /\ latched = {}
  /\ received = [n \in RxFifo |-> 0] /\ opens = [n \in RxFifo |-> 0]
  /\ latest = 0 /\ stands = FALSE /\ uploads = << >>

-----------------------------------------------------------------------------
(* musb_hw_endpoint_open.                                                  *)

\* musb_hw_endpoint_init; nothing asks whether the endpoint has a pipe already.
\* endpoint->direction is never set, so that every endpoint but the control
\* endpoint is initialized to receive; past the end of the struct the direction
\* is whatever is there.
Open(k) ==
  LET ep == EndpointFor(k[1], k[2])
  IN  /\ pc = "idle" /\ opens[1] + opens[2] + opens[3] < MaxOpens
      /\ owner' = [owner EXCEPT ![ep] = k]
      /\ number' \in NumbersAt(ep)
      /\ \/ number' = 0 /\ pc' = "idle"
         \/ number' # 0 /\ pc' = "enable"
         \/ number' # 0 /\ ep \notin Endpoint /\ pc' = "select tx"
      /\ UNCHANGED <<rxe, index, fifo, latched, histVars>>

\* __musb_rx_endpoint_init, first write: the endpoint's interrupt is enabled, and
\* no other.  The slip is to add it to the others.
EnableWith(enabled) ==
  /\ pc = "enable" /\ pc' = "select rx"
  /\ rxe' = enabled /\ latest' = number /\ stands' = FALSE
  /\ UNCHANGED <<owner, number, index, fifo, latched, received, opens, uploads>>
EnableAdded == EnableWith(rxe \cup {number})
Enable == EnableWith({number})

\* Second write: INDEX is left on the endpoint; __musb_tx_endpoint_init does the
\* same.  The slip is not to write it.
SelectWith(selected) ==
  /\ \/ pc = "select rx" /\ pc' = "flush" /\ stands' = TRUE /\ UNCHANGED number
     \/ pc = "select tx" /\ pc' = "idle" /\ stands' = FALSE /\ number' = 0
  /\ index' = selected
  /\ UNCHANGED <<owner, rxe, fifo, latched, received, opens, latest, uploads>>
SelectNothing == SelectWith(index)
Select == SelectWith(number)

\* RXCSR1 is an indexed register too: FlushFIFO meets whatever INDEX selects.
Flush ==
  /\ pc = "flush" /\ pc' = "idle" /\ number' = 0
  /\ fifo' = [fifo EXCEPT ![index] = 0]
  /\ opens' = [opens EXCEPT ![index] = @ + 1]
  /\ UNCHANGED <<owner, rxe, index, latched, received, latest, stands, uploads>>

-----------------------------------------------------------------------------
(* The host, the interrupt, and the sends.                                 *)

\* The host sends a packet to an endpoint (not in the repository).
Receive(n, size) ==
  /\ fifo[n] = 0
  /\ fifo' = [fifo EXCEPT ![n] = size]
  /\ latched' = latched \cup {n}
  /\ received' = [received EXCEPT ![n] = @ + 1]
  /\ UNCHANGED <<openVars, rxe, index, opens, latest, stands, uploads>>

\* __musb_read_reg_rxcount: RXCOUNT1 and RXCOUNT2 are indexed registers, they
\* tell of endpoint INDEX; the second is shifted by 3 where it stands for 256.
Count == LET size == IF index \in RxFifo THEN fifo[index] ELSE 0
         IN  (size % 256) + 8 * (size \div 256)

\* The call of rx_handler for endpoint n, with the pipe of rx_endpoint[n - 1], if
\* it is pending.
UploadOf(n, pending) ==
  IF n \in pending
    THEN <<[number |-> n, pipe |-> owner[RxAt(n - 1)], size |-> Count,
            held |-> fifo[n], stands |-> stands]>>
    ELSE << >>

\* A slip: the loop runs to MUSB_MAX_RX_ENDPOINT_NUMBER.
UploadsOfAll(pending) ==
  UploadOf(1, pending) \o UploadOf(2, pending) \o UploadOf(3, pending)

\* The loop over the endpoints below MUSB_MAX_RX_ENDPOINT_NUMBER.
UploadsOf(pending) == UploadOf(1, pending) \o UploadOf(2, pending)

RxProcessOf(pending) ==
  /\ Len(uploads) < MaxUploads
  /\ uploads' = uploads \o UploadsOf(pending)
  /\ latched' = {}
  /\ UNCHANGED <<openVars, rxe, index, received, opens, latest, stands>>

\* Slips: what is enabled is taken for what is pending; what was uploaded leaves
\* the FIFO.
RxProcessUnmasked == RxProcessOf(rxe) /\ UNCHANGED fifo
RxProcessClears ==
  /\ RxProcessOf(latched \cap rxe)
  /\ fifo' = [n \in RxFifo |-> IF n \in latched \cap rxe THEN 0 ELSE fifo[n]]

\* musb_rx_process, which musb0_irq_handler calls on an interrupt of any kind.
\* Reading INTRRX1 clears it, for the endpoints that are not enabled too;
\* nothing in the driver gives a FIFO back, by AutoClear or by hand.
RxProcess == RxProcessOf(latched \cap rxe) /\ UNCHANGED fifo

\* musb_send_packet on an open pipe, by the interrupt or by the upper layer,
\* leaves INDEX on its endpoint.
SendPacket(ep) ==
  /\ owner[ep] # NoPipe
  /\ index' \in NumbersAt(ep) \ {0}
  /\ stands' = FALSE
  /\ UNCHANGED <<openVars, rxe, fifo, latched, received, opens, latest, uploads>>

Next ==
  \/ \E k \in Kinds : Open(k)
  \/ Enable
  \/ Select
  \/ Flush
  \/ \E n \in RxFifo, size \in PktSizes : Receive(n, size)
  \/ RxProcess
  \/ \E ep \in Place : SendPacket(ep)

Spec == Init /\ [][Next]_vars

-----------------------------------------------------------------------------
(* Properties.                                                             *)

\* Every variable has its type: the endpoint rx_handler is called for is 1 or 2.
TypeOK ==
  /\ owner \in [Place -> Kinds \cup {NoPipe}]
  /\ pc \in {"idle", "enable", "select rx", "select tx", "flush"}
  /\ number \in 0..MaxNumber
  /\ rxe \subseteq RxFifo /\ latched \subseteq RxFifo
  /\ index \in 0..MaxNumber
  /\ fifo \in [RxFifo -> PktSizes \cup {0}]
  /\ received \in [RxFifo -> Nat] /\ opens \in [RxFifo -> Nat]
  /\ latest \in 0..MaxNumber /\ stands \in BOOLEAN
  /\ uploads \in Seq([number : 1..(MaxNumber - 1), pipe : Kinds \cup {NoPipe},
                      size : 0..256, held : PktSizes \cup {0}, stands : BOOLEAN])

\* The index that is wrong by one, the inverted direction and the numbers of the
\* endpoints that are reached so add up to this: whatever pipes are open and in
\* whatever order, the interrupt gives a packet to the bulk IN pipe, which should
\* have none, or to no pipe at all, and never to an OUT pipe.
OnlyBulkInIsServed ==
  \A i \in 1..Len(uploads) : uploads[i].pipe \in {<<"BULK", "IN">>, NoPipe}

\* The protocol layer is given no packet that was not received: one rx_handler
\* call at the most for each packet in an endpoint's FIFO.
UploadsWereReceived ==
  \A n \in RxFifo :
    Cardinality({i \in 1..Len(uploads) : uploads[i].number = n}) <= received[n]

\* RxPktRdy is never cleared: an endpoint takes one packet, and one more each time
\* it is flushed by an opening, whatever is uploaded in between.
OnePacketPerOpen == \A n \in RxFifo : received[n] <= 1 + opens[n]

\* INTRRX1E is overwritten by each opening: of the endpoints that are open only
\* the one enabled last uploads anything.
OnlyLatestUploads ==
  [][\A i \in (Len(uploads) + 1)..Len(uploads') : uploads'[i].number = latest]_vars

\* RXCOUNT is read of whatever endpoint INDEX selects, which opening leaves on the
\* only one whose interrupt is enabled: from then on, until a send or another
\* opening moves it, the two mistakes make up for each other, and a packet of less
\* than 256 bytes is uploaded with its size.  Between the enabling and the
\* selecting of one opening it need not be.
CountIsRightWhileIndexStands ==
  \A i \in 1..Len(uploads) :
    uploads[i].stands /\ uploads[i].held < 256 => uploads[i].size = uploads[i].held
=============================================================================
