------------------------------- MODULE MusbTx -------------------------------
(***************************************************************************)
(* Transmission in the controller driver: musb_send_packet (musb_device.c) *)
(* register by register, called by a thread and, in the middle of that, by *)
(* the interrupt (tx_probe_packet_handler), and __get_descriptor           *)
(* (usbd_protocol_layer.c), whose replies go past the queue of the pipe.   *)
(*                                                                         *)
(* An endpoint has one buffer, one count register and one TxPktRdy.  The   *)
(* control and status registers share an address, 0x11: which endpoint's   *)
(* it is, and so what its bits mean, is decided by INDEX.  The "i" that    *)
(* selects the count register is declared nowhere in musb_device.c; it is  *)
(* taken to be the endpoint's number.                                      *)
(***************************************************************************)
EXTENDS Naturals, Sequences

CONSTANTS
  Endpoint,   \* endpoint numbers in use, with 0
  Sizes,      \* the sizes of packets the protocol layer cuts off
  Strings,    \* the lengths of the string descriptors, in their table
  AnyByte,    \* what a byte behind the table may be
  MaxSends    \* bound: packets sent in a behaviour

ASSUME TxAssumption ==
  /\ 0 \in Endpoint /\ Endpoint \subseteq 0..3
  /\ Sizes \subseteq 1..64
  /\ Strings \in Seq(2..255)
  /\ AnyByte \subseteq 0..255
  /\ MaxSends \in Nat

\* MUSB_*_ENDPOINT_SIZE
SizeOf(e) == IF e = 2 THEN 256 ELSE 64

\* Where string descriptor i is, counted from 0, for those that are in the table.
Start[i \in 0..Len(Strings)] == IF i = 0 THEN 0 ELSE Start[i - 1] + Strings[i]

\* A packet on its way: for a string descriptor "text" is which one was asked for
\* and where it was found.
Data(e, size)      == [ep |-> e, size |-> size, text |-> << >>]
Text(i, at, size)  == [ep |-> 0, size |-> size, text |-> <<i, at>>]
Nothing            == [ep |-> 0, size |-> 0, text |-> << >>]

VARIABLES
  buf,      \* buf[e]: the packet in endpoint e's dma_buf
  cnt,      \* cnt[e]: EPn_CNT
  rdy,      \* the endpoints whose TxPktRdy is set
  dataEnd,  \* CSR0: DataEnd was written with the last TxPktRdy
  index,    \* INDEX
  strings,  \* the application's descriptors are registered
  pc,       \* where the thread is in musb_send_packet
  pkt,      \* its packet, with the endpoint
  sends,    \* history: packets given to musb_send_packet
  wire,     \* history: what the host has taken
  misuse    \* history: what has happened that the driver does not stand

regVars  == <<cnt, rdy, dataEnd, index>>
vars == <<buf, regVars, strings, pc, pkt, sends, wire, misuse>>

Init ==
  /\ buf = [e \in Endpoint |-> Nothing]
  /\ cnt = [e \in Endpoint |-> 0]
  /\ rdy = {} /\ dataEnd = FALSE /\ index = 0
  /\ strings = FALSE
  /\ pc = "idle" /\ pkt = Nothing
  /\ sends = 0 /\ wire = << >> /\ misuse = {}

-----------------------------------------------------------------------------
(* The steps of musb_send_packet.                                          *)

\* A send begins although the last packet has not left or is being sent.
Overrun(p) == p.ep \in rdy \/ (pc # "idle" /\ pkt.ep = p.ep)

\* memcpy(endpoint->dma_buf, packet, size), which is not limited by the size of
\* the buffer: what is behind it may be the buffer of any other endpoint.
Copy(p) ==
  /\ sends < MaxSends /\ sends' = sends + 1
  /\ \E e \in Endpoint \ {p.ep} :
       buf' = IF p.size <= SizeOf(p.ep) THEN [buf EXCEPT ![p.ep] = p]
              ELSE [buf EXCEPT ![p.ep] = p, ![e] = Nothing]
  /\ misuse' = misuse
       \cup (IF Overrun(p) THEN {"overrun"} ELSE {})
       \cup (IF p.size > SizeOf(p.ep) THEN {"overflow"} ELSE {})
       \cup (IF pc = "arm" /\ pkt.ep # 0 /\ p.ep # 0 THEN {"index"} ELSE {})

\* __musb_ep0_tx_flush: with INDEX 0 the bit tested is TxPktRdy, with another
\* FIFONotEmpty of that endpoint, which is set with its TxPktRdy.  The slip is to
\* test for the opposite.
NoUnderrun == index \notin rdy
Underrun == index \in rdy

\* __musbd_csr0_tx, and for a short packet __musbd_csr0_tx_end.  With INDEX not 0
\* the bits are not those of TxPktRdy, and DataEnd is FlushFIFO.
SetCsr0(size, i) ==
  IF i = 0
    THEN rdy' = rdy \cup {0} /\ dataEnd' = (size < SizeOf(0))
    ELSE rdy' = (IF size < SizeOf(0) THEN rdy \ {i} ELSE rdy) /\ UNCHANGED dataEnd

\* (The slip is what it should do: select endpoint 0.)
SelectCsr0(size) == SetCsr0(size, 0) /\ UNCHANGED index
WriteCsr0(size) == SetCsr0(size, index) /\ UNCHANGED index

\* The interrupt sends: all of musb_send_packet at once.
SendInInterrupt(p) ==
  /\ Copy(p)
  /\ IF p.ep = 0
       THEN IF Underrun THEN UNCHANGED regVars
            ELSE cnt' = [cnt EXCEPT ![0] = p.size] /\ WriteCsr0(p.size)
       ELSE /\ cnt' = [cnt EXCEPT ![p.ep] = p.size]
            /\ index' = p.ep /\ rdy' = rdy \cup {p.ep}
            /\ UNCHANGED dataEnd
  /\ UNCHANGED <<strings, pc, pkt, wire>>

\* The thread sends: the copy; the test of CSR0, which drops the packet silently;
\* the count; INDEX; and at last TxPktRdy.  (The slip tests CSR0 for all endpoints.)
SendInThreadTested(p) ==
  /\ pc = "idle"
  /\ Copy(p)
  /\ pkt' = p
  /\ pc' = "test"
  /\ UNCHANGED <<regVars, strings, wire>>

SendInThread(p) ==
  /\ pc = "idle"
  /\ Copy(p)
  /\ pkt' = p
  /\ pc' = IF p.ep = 0 THEN "test" ELSE "count"
  /\ UNCHANGED <<regVars, strings, wire>>

TestCsr0 ==
  /\ pc = "test"
  /\ pc' = IF Underrun THEN "idle" ELSE "count"
  /\ UNCHANGED <<buf, regVars, strings, pkt, sends, wire, misuse>>

\* A slip: the count is written when the packet is ready.
WriteCountLate ==
  /\ pc = "count"
  /\ pc' = IF pkt.ep = 0 THEN "arm" ELSE "index"
  /\ UNCHANGED <<buf, regVars, strings, pkt, sends, wire, misuse>>

WriteCount ==
  /\ pc = "count"
  /\ cnt' = [cnt EXCEPT ![pkt.ep] = pkt.size]
  /\ pc' = IF pkt.ep = 0 THEN "arm" ELSE "index"
  /\ UNCHANGED <<buf, rdy, dataEnd, index, strings, pkt, sends, wire, misuse>>

WriteIndex ==
  /\ pc = "index"
  /\ index' = pkt.ep
  /\ pc' = "arm"
  /\ UNCHANGED <<buf, cnt, rdy, dataEnd, strings, pkt, sends, wire, misuse>>

Arm ==
  /\ pc = "arm"
  /\ IF pkt.ep = 0 THEN WriteCsr0(pkt.size)
     ELSE rdy' = rdy \cup {index} /\ UNCHANGED <<dataEnd, index>>
  /\ pc' = "idle"
  /\ UNCHANGED <<buf, cnt, strings, pkt, sends, wire, misuse>>

-----------------------------------------------------------------------------
(* The protocol layer.                                                     *)

\* usbd_register_desc_device and usbd_register_desc_strings
RegisterStrings ==
  /\ ~strings /\ strings' = TRUE
  /\ UNCHANGED <<buf, regVars, pc, pkt, sends, wire, misuse>>

\* The first byte of a string descriptor is its length; what the other bytes are
\* does not matter here.
ByteAt(at) ==
  IF \E i \in 1..Len(Strings) : Start[i - 1] = at
    THEN Strings[CHOOSE i \in 1..Len(Strings) : Start[i - 1] = at] ELSE 0

\* The loop of __get_descriptor: p_string += *p_string, n times, and the slip of one
\* time too many.
Walk[n \in 0..Len(Strings)] ==
  IF n = 0 THEN 0 ELSE Walk[n - 1] + ByteAt(Walk[n - 1])
FoundNext(n) == Walk[n + 1]
Found(n) == Walk[n]

\* __get_descriptor for the device: as many bytes as its first one says.  Before it
\* is registered it is at NULL.
GetDevice ==
  \E size \in IF strings THEN {18} ELSE AnyByte : SendInThread(Data(0, size))

\* __get_descriptor for string i.  Behind the table, and before it is registered,
\* any byte is found.
GetString(i) ==
  \/ /\ strings /\ i < Len(Strings)
     /\ SendInThread(Text(i, Found(i), ByteAt(Found(i))))
  \/ /\ ~strings \/ i >= Len(Strings)
     /\ \E size \in AnyByte : SendInThread(Data(0, size))

\* musb_hw_endpoint_open leaves INDEX on the endpoint it has opened.
Open(e) ==
  /\ pc = "idle" /\ e # 0
  /\ index # e /\ index' = e
  /\ UNCHANGED <<buf, cnt, rdy, dataEnd, strings, pc, pkt, sends, wire, misuse>>

\* The host takes a packet: as many bytes of the buffer as the count says (not
\* in the repository).
Transmit(e) ==
  /\ e \in rdy /\ rdy' = rdy \ {e}
  /\ wire' = Append(wire, [ep |-> e, data |-> buf[e], count |-> cnt[e],
                           end |-> e = 0 /\ dataEnd])
  /\ UNCHANGED <<buf, cnt, dataEnd, index, strings, pc, pkt, sends, misuse>>

-----------------------------------------------------------------------------
\* What is sent from a pipe's queue, or by the thread that starts a transfer.
Packets == {Data(e, size) : e \in Endpoint, size \in Sizes}

\* pending is not set in musb_tx_process: whether it calls the tx handler, which
\* may have a packet to send, is left to chance, for endpoints 1 and 2; the
\* control endpoint's handler may send too.
Served == Endpoint \cap 0..2

Next ==
  \/ RegisterStrings
  \/ GetDevice
  \/ \E i \in 0..Len(Strings) : GetString(i)
  \/ \E p \in Packets : SendInThread(p)
  \/ \E p \in Packets : p.ep \in Served /\ SendInInterrupt(p)
  \/ TestCsr0
  \/ WriteCount
  \/ WriteIndex
  \/ Arm
  \/ \E e \in Endpoint : Open(e)
  \/ \E e \in Endpoint : Transmit(e)

Spec == Init /\ [][Next]_vars

-----------------------------------------------------------------------------
(* Properties.                                                             *)

Packet == [ep : Endpoint, size : 0..255,
           text : {<< >>} \cup (Nat \X Nat)]

\* Every variable has its type, and CSR0 is tested for endpoint 0 alone.
TypeOK ==
  /\ buf \in [Endpoint -> Packet]
  /\ cnt \in [Endpoint -> 0..255]
  /\ rdy \subseteq Endpoint /\ dataEnd \in BOOLEAN /\ index \in Endpoint
  /\ strings \in BOOLEAN
  /\ pc \in {"idle", "test", "count", "index", "arm"}
  /\ pkt \in Packet /\ (pc = "test" => pkt.ep = 0) /\ (pc = "index" => pkt.ep # 0)
  /\ sends \in 0..MaxSends
  /\ \A i \in 1..Len(wire) : wire[i].ep \in Endpoint /\ wire[i].data \in Packet
  /\ misuse \subseteq {"overrun", "overflow", "index"}

\* Between copy, count and TxPktRdy the host, the interrupt and the other
\* endpoints do what they will: if nobody sends on a busy endpoint, or more than
\* its buffer takes, and the interrupt does not move INDEX before the thread has
\* used it, what the host takes is a packet of its endpoint, all of it, and on the
\* control endpoint DataEnd comes with the short packets alone.
WireIsWhole ==
  misuse = {} => \A i \in 1..Len(wire) :
    /\ wire[i].data.ep = wire[i].ep
    /\ wire[i].count = wire[i].data.size
    /\ wire[i].end = (wire[i].ep = 0 /\ wire[i].count < SizeOf(0))

\* On the control endpoint a packet is dropped without notice only if it is sent
\* before the last one has left: as long as INDEX is 0 each is on the wire, ready,
\* or on its way there.
NothingIsDropped ==
  misuse = {} /\ index = 0 =>
    sends = Len(wire) + (IF 0 \in rdy THEN 1 ELSE 0) + (IF pc = "idle" THEN 0 ELSE 1)

\* When INDEX has left endpoint 0, which the first open and the first send of
\* another endpoint see to, no packet of the control endpoint becomes ready.
ControlIsShutOut == [][index # 0 /\ 0 \in rdy' => 0 \in rdy]_vars

\* The walk over the string table finds the string that was asked for, and the
\* host gets that string with its length, unless the driver was misused.
StringsAreTheOnesAskedFor ==
  misuse = {} => \A i \in 1..Len(wire) :
    LET text == wire[i].data.text
    IN  text # << >> => /\ text[2] = Start[text[1]]
                        /\ wire[i].count = Strings[text[1] + 1]

\* Register by register, and with thread, interrupt and host in each other's way,
\* musb_send_packet is what EndpointBuffers says: until it is misused an endpoint
\* holds what is sent on it until the host has taken it, and gets no other.
Held ==
  [e \in Endpoint |->
     IF e \in rdy \/ (pc # "idle" /\ pkt.ep = e) THEN <<buf[e]>> ELSE << >>]
Buffers == INSTANCE EndpointBuffers WITH
  Of   <- [p \in Packet |-> p.ep],
  Seen <- [p \in Packet |-> [ep |-> p.ep, data |-> p, count |-> p.size,
                             end |-> p.ep = 0 /\ p.size < SizeOf(0)]],
  held <- Held, astray <- index # 0, misused <- misuse # {}
RefinesBuffers == Buffers!Spec

\* CSR0 and TXCSR are each an "Indexed Register" (musb_phy.h:255): when the thread
\* is about to use one, INDEX selects its endpoint.
IndexSelectsEndpoint == pc \in {"test", "arm"} => index = pkt.ep
=============================================================================
