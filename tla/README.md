# A verification project for usbstack

TLA+ models of the USB device stack in `libs/usbstack`, the TLC configurations
that check them, and TLAPS proofs about all of them.  Paths below are relative to
the repository.  `upl` stands for
`libs/usbstack/usb_protocol/usb_device/usbd_protocol_layer.c`, `phy` and `dev`
for `musb_phy.c` and `musb_device.c` in `libs/usbstack/usb_phy/ohci/br17/`.

## 1. The system

The stack runs on a microcontroller: one USB interrupt, one protocol thread, and
the threads of the upper layer (the USB classes), over a MUSB controller.

| Part | State | Operations | Talks to |
|---|---|---|---|
| Protocol layer, receive (`upl:43-59, 216-261`) | an lbuf of packets per pipe | `rx_probe_packet_handler` (interrupt), `rx_post_packet_handler`, `usb_protocol_thread` | interrupt → lbuf → thread → `pipe->handler`; `thread_resume` |
| Protocol layer, send (`upl:63-81, 231-238, 336-374`) | the pipe's lbuf, `data_len`, `send_ok`, `wait_ok` | `usbd_pipe_send_packet`, `_wait`, `tx_probe_packet_handler`, `tx_post_packet_handler` | caller and interrupt share the lbuf and the endpoint buffer |
| Control pipe (`upl:83-212`, `phy:144-175`) | `state`, `transfer_state`, one lbuf for both directions | `ep0_probe_packet_handler`, `ep0_post_packet_handler`, `ep0_setup_process`, `musb_ep0_process` | interrupt, thread, upper layer |
| Bringing up (`upl:268-329`, `phy:268-288`, `dev:175-194`, `usb_controller_driver.c`) | the list of pipes, handlers, the thread, the controller's reset | `usbd_protocol_init`, `usbd_pipe_open`, three initializations of the driver | the interrupt and the thread, which run while it is under way |
| Event and class dispatch (`upl:378-412`, `usb_controller_driver.c`, `usbd_class_dispatch.c`) | lists of callbacks | `ucd_emit_event`, `usb_contoller_add_event_hander` and their likes | any context → the upper layer |
| Transmission (`dev:106-155`, `phy:204-223`, `upl:117-149`) | the endpoint buffers, counts, TxPktRdy, INDEX | `musb_send_packet`, `__musb_ep0_tx_flush`, `__musb_ep_tx_flush`, `musb_tx_process`, `__get_descriptor` | thread and interrupt share CSR0/TXCSR1 and INDEX |
| Endpoints (`phy:22-81, 177-223, 291-325`, `dev:31-155`) | `rx_endpoint`, `tx_endpoint`, the interrupt enables, INDEX | `musb_hw_endpoint_open`, `musb_rx_process` | pipes are bound to endpoints on opening |
| Register bridge (`phy:85-118`, `musb_phy.h:183-329`) | the mailbox CON1, the controller's registers | `__musb_read_reg`, `__musb_write_reg` | thread and interrupt share CON1 |
| Register definitions (`musb_phy.h`, `musb_regs.h`), requests and descriptors (`ch9.h`) | none | addresses, bits, accessors, predicates | |
| Others | | `musb_host.c` (a stub), the other headers of `usb/` | |

What is hard here: the interrupt preempts the thread and the upper layer between
any two of their steps, and no lock and no critical section is in force anywhere;
a wake-up may come while the thread is about to suspend itself; memory may run
out in the middle of a transfer; the meaning of a packet on the control pipe
depends on a state that the interrupt and the upper layer both write; registers
that are selected by INDEX are used by parties who do not know of each other;
and pipes are put in the list, overwritten and opened while the thread walks it.
What makes each part correct:

- receive: no packet is lost once accepted, none overtakes another, none waits
  while the thread sleeps;
- send: the host gets the packets of a transfer in order and once, and the upper
  layer is told once, and not too early;
- control: each packet is taken by one party, in the order of the queue, and
  interpreted as what it was sent as;
- bringing up: what is uploaded while pipes are opened is not lost and does not
  wait for a thread that nothing resumes, a handler is set before it is called, the
  list stays one;
- dispatch: a handler misses no event and is called in its turn;
- transmission: what goes on the wire is one packet of its endpoint, whole;
- endpoints: a packet is given to a pipe that receives, and an upload stands for one
  received packet and has its size;
- bridge: an access gets its own answer, and ends.

### Reading an unfinished source

The repository does not compile.  The models read it with the smallest repairs,
mostly of names and declarations:

- `pkt->maxpktsize` (`upl:69`, on an uninitialized `pkt` of a type without the
  field) is read as `pipe->maxpktsize`, as at `upl:345`;
- missing declarations (`pkt` at `upl:347`; `musb`, which `dev:175-181` uses unset, is
  the controller; `i` at `dev:132`, which selects the count register, is the endpoint's
  number; `phy->endpoint[i-1]` at `phy:194`, which no structure has, is
  `rx_endpoint[i-1]`), missing semicolons, and
  fields named differently in `usb_interface.h` and in their use
  (`ep0_handler`/`ep0_probe_handler`, `pipe->end`, `pipe->pkt_size`) are supplied;
  so are the missing `priv` argument of `phy:196` and of `upl:63`/`phy:219`;
- `__musb_read_reg_count` (`phy:193`) is the only accessor of its kind that
  exists, `__musb_read_reg_rxcount`;
- `return -1` from a void function is a return;
- `USB_DEVICE_W4_SETUP` (`upl:280`) stays a state of its own, since no case of
  `upl:94` or `upl:200` names it;
- `usbd_control_pipe_init` is `usbd_control_pipe_open`;
- `musb_phy[0]` (`phy:22`), a table of no elements with an initializer, is the one
  phy; a `struct usb_rx *pkt` without a target is the structure it should have.

Two assignments are missing in the code and taken to be made, since nothing above
the driver could run without them.  EPn_ADR, whose value `dev:56` computes and drops,
is the endpoint's `dma_buf`.  And `endpoint->pipe` (`musb_phy.h:164`, "binding upper"),
by which the interrupt finds the pipe, is set when an endpoint is opened: in `MusbPhy`
to the pipe, as there it matters which endpoint `phy:301-313` has picked.  With that
alone no OUT pipe is ever given a packet (`OnlyBulkInIsServed`), and there would be
nothing to say about the receive path above the driver.  `UsbdUpload` and `UsbdOpen`
therefore take more than the code gives them: that the driver finds, for a packet of
an OUT pipe, this pipe.

Nothing else is repaired: conditions, order, missing assignments and missing calls
are as written.  Undefined behaviour is a choice: an uninitialized `pkt` is
`garbage`, the endpoint past the last array has any number and any direction, a
`pending` that was not set may call the handler or not, a byte behind a table is
any byte.  A walk through memory that is not a list may not come back: `upl:324` puts
the caller's structure, and with it a list entry that is in no list, over the pipe
opened last, so that the thread's walk of the list may be lost there for good
(`GetLost` in `UsbdUpload`, `WalkOn` in `UsbdSend`, `Step` in `UsbdOpen`).  When it
does come back, as it would with a link that happens to be right, it goes on as if
the list were whole.

Outside the repository, and modelled from how it is used: lbuf (a FIFO; `alloc`
may fail and fails when it is full; `push` and `pop` are atomic), the list
libraries (an item is linked once), the thread kernel (`thread_resume` makes the
thread runnable; one call of the thread function per wake-up), the controller, the
host and the upper layer.

## 2. Modules

| Module | Models | State | Actions ↔ code |
|---|---|---|---|
| `PacketQueue` | what the receive path promises | `accepted`, `delivered`, `gone` | `Accept`, `Deliver`; `Leave` = the reader is lost |
| `UsbdUpload` | the receive path of all pipes | `lbuf`, `wake`, the thread's `pc`, `at` (list position), `pkt` | `RxProbe` = the probe handler, in the interrupt; `Dispatch`, `NextPipe`, `FindPacket`, `PopPacket`, `CallHandler`, `Suspend` = the thread, one action between two points where the interrupt matters; `GetLost` = the link behind the last pipe (`upl:324`) |
| `Transfers` | what sending promises | `queued`, `wire`, `told` | `Cut`, `Take`, `Tell` |
| `UsbdSend` | sending on one IN pipe | `lbuf`, `data_len`, `send_ok`, the caller's `call`/`left`/`pkt`, `dma` (endpoint buffer and TxPktRdy) | `Send`, `QueuePacket`, `AllocFails`, `PopFirst`, `StartSend` = `usbd_pipe_send_packet`; `Wait` = the loop of `_wait`; `TxProbe` = the whole probe handler; `TxPost`, `Event` = the thread, with `WalkOn` for the rest of its walk, which may be lost; `Transmit` = controller and host |
| `UsbdControl` | the control pipe | `state`, `transfer_state`, `lbuf`, `pc`, `pkt`, `busy` (CSR0 TxPktRdy) | `Ep0Interrupt` = `musb_ep0_process` with the probe handlers it calls; `Dispatch` … `Suspend` = the thread; `SetupProcess`, `DataProcess` = the cases of its switch; `SetState` = the upper layer; `QueueReply`, `ReplyFails`, `StartReply` = its `usbd_pipe_send_packet` |
| `UsbdOpen` | bringing up a link | the driver's `irq`, `nrst`, `probe`; the list's `next`, `last`; `bound`, `enabled`, `handler`, the thread | `CreateLink` … `CreateThread` = `usbd_protocol_init` over one of the three initializations that may stand behind the driver's `init` (`musb_hw_init`, which the table names; `usb_controller_init`, the wrapper; `musbd_hw_init`, written for the device role); `ListPipe`, `CopyPipe`, `OpenEndpoint`, `SetHandler` = `usbd_pipe_open`; `Interrupt` = a packet; `EarlyInterrupt` = `musb_ep0_process` without a pipe; `TxByChance` = `musb_tx_process` with an unset `pending`; both of these may resume the thread (`ResumeByChance`); the thread's walk |
| `EventHandlers` | the callback lists, which stand three times in the code | `handlers`, an iterator `it` per context | `AddEventHandler`; `EmitEvent`, `CallNext`, `Return` = `ucd_emit_event` |
| `EndpointBuffers` | what `musb_send_packet` promises those who use it rightly | `held` (what an endpoint holds), `wire`, `astray` (INDEX has left endpoint 0), `misused` | `Put`, `Take`, `Lose` |
| `MusbTx` | transmission, register by register | `buf`, `cnt`, `rdy`, `dataEnd`, `index`, the thread's `pc`, `pkt` | `SendInThread`, `TestCsr0`, `WriteCount`, `WriteIndex`, `Arm` = `musb_send_packet` from a thread; `SendInInterrupt` = all of it; `GetDevice`, `GetString` = `__get_descriptor`; `Open` = what opening leaves in INDEX; `Transmit` = the host |
| `MusbPhy` | endpoints, opening, receive interrupt | `owner` (an endpoint's pipe), the opener's `pc` and `number`, `rxe`, `index`, `fifo`, `latched` | `Open`, `Enable`, `Select`, `Flush` = `musb_hw_endpoint_open`, one register each, for pipes that may be open already or meet another on their endpoint; `RxProcess`, `SendPacket`; `Receive` = the host |
| `MusbBridge` | register access | `con1`, `reg`, `nrst`, the thread's `pc`, `op`, `result` | `Issue`, `Poll`, `Fetch`, `AccessInReset` = the two accessors; `Interrupt` = an access of the handler; `Complete`, `UsbChanges` = the controller |
| `MusbRegisters` | `musb_phy.h`, `musb_regs.h` | none | addresses, bits as positions, accessors as functions of register contents |
| `UsbChapter9` | `ch9.h`, what can be computed with it | none | fields of a request's type, endpoint descriptors |
| `*_proofs` | the proofs (section 5) | | |
| `MC*` | small instances | | |

Variables called "history" in the modules record what happened and are read by
properties only (bounds on them limit a behaviour's length).  An interrupt handler
is one action, since it preempts threads and is not preempted by them.

Which modules meet: `UsbdUpload` and `UsbdSend` implement `PacketQueue` and
`Transfers` (`RefinesPacketQueue`, `RefinesTransfers`).  The probe handlers above
the driver, and the driver under them, are each modelled once in detail and once by
what the other side sees: an upload in `MusbPhy` is the arrival of `UsbdUpload`; a
send in `UsbdSend` and `UsbdControl` is `musb_send_packet`, whose steps are in
`MusbTx`; a register access anywhere is one of `MusbBridge`.  For sending the two sides are
tied together by `EndpointBuffers`: `MusbTx` implements it (`RefinesBuffers`), and
`UsbdSend` keeps to it (`KeepsToTheEndpoint`), so that what its sends take for one
step is what the driver's registers do; both are proved (section 5).  `MusbTx` and
`MusbPhy` share INDEX, which each of them also lets the other side move.

Operators whose comment calls them a *slip* are not part of any specification.
Each is a plausible mistake in the definition next to it; with the definition
replaced by it TLC finds the property it is meant for violated, which shows that
the property depends on the code.

## 3. What the runs check

Runs that pass:

| Run | Checks | Shows |
|---|---|---|
| `upload` | `TypeOK`, `NoLostWakeup`, `Conservation`, `InArrivalOrder`, `RefinesPacketQueue` | wherever the interrupt strikes, packets are not lost, repeated or overtaken; a kernel that keeps a resume of a running thread makes the race at `upl:260` harmless: the thread sleeps on no packet, and everything accepted is delivered, unless its walk is lost behind the last pipe |
| `send_serial` | `TypeOK`, `PacketsConserved`, `OneEventPerTransfer`, `CompletionIsSound`, `TransferIsReported`, `RefinesTransfers` | any sizes, failing allocations, one transfer at a time, by `usbd_pipe_send_packet` or `_wait`: packets stay in order on their way through lbuf, caller, controller and wire; `data_len` survives its underflow as a u16; a transfer is told once, not before the host has its last packet, and, if it is of whole packets and the thread's walk is not lost, in the end |
| `control_shared` | `TypeOK`, `TakenOnce`, `OnlyRepliesAreSent`, `DeafAfterAbort`, `UploadsAreTaken` | three parties empty one lbuf without doubling or losing a packet, even when the upper layer changes the state at the worst moment; as long as it changes it in between transfers and replies in the state for it, received packets are not sent back to the host; the pipe is deaf after the first abort (`upl:87`) |
| `bridge_access` | `TypeOK`, `UndisturbedReadIsRight`, `UndisturbedWriteIsDone`, `AccessEnds` | what a register access does when no interrupt falls into it, and that it ends when one does |
| `phy_pipes` | `TypeOK`, `OnlyBulkInIsServed`, `UploadsWereReceived`, `OnePacketPerOpen`, `OnlyLatestUploads`, `CountIsRightWhileIndexStands` | pipes are opened again and on each other's endpoints, with interrupts and sends between any two register writes: the mistakes of `phy:301-313` together leave every OUT pipe without packets; the handler is called at most once per received packet; an endpoint takes one packet per opening, and only the one enabled last uploads it; its size is right, though RXCOUNT is read without an index, from the end of an opening until a send or another opening moves INDEX, and not between `dev:63` and `dev:65` |
| `open` | `TypeOK`, `UploadsSurviveOpening`, `PacketsDoNotSleep`, `OnlyLastLinkIsBroken`, `HandlerMissingInOneWindow`, `DeafUnlessDeviceInit` | a pipe that is filled in and opened while the thread walks past it costs no packet; the thread does not sleep on one, although the interrupt is requested first and may resume the thread by chance, before it was created too; `memcpy` over the list entry (`upl:324`) breaks the list behind its last pipe and nowhere else; a packet meets a handler that is not set between `upl:326` and `upl:328`, on the control pipe always, and otherwise never; two of the three initializations leave the driver deaf |
| `events` | `InRegistrationOrder`, `NobodyIsLeftOut`, `EmissionEnds` | two contexts walk a list while handlers are added to it: each calls them in order, from the first on, all that were there when it began, and comes to an end |
| `tx` | `TypeOK`, `WireIsWhole`, `NothingIsDropped`, `StringsAreTheOnesAskedFor`, `ControlIsShutOut` | the thread and the interrupt in each other's sends: what the host takes is one whole packet of the endpoint unless somebody sends on a busy endpoint, sends more than the buffer holds, or moves INDEX before the other has used it; the walk over the string table finds the right string; when INDEX has left endpoint 0 the control endpoint sends nothing any more |

`DeafAfterAbort`, `ControlIsShutOut`, `OnlyBulkInIsServed`, `OnePacketPerOpen`,
`OnlyLatestUploads`, `OnlyLastLinkIsBroken`, `HandlerMissingInOneWindow` and
`DeafUnlessDeviceInit` state what the code does and its
users must know, not what they want: nothing clears `transfer_state`, so that one
SentStall or SetupEnd ends reception on the control pipe; nothing writes 0 to INDEX;
nothing clears RxPktRdy; each opening overwrites INTRRX1E; the endpoint is opened
before the handler is set.  They are worth a check
because each depends on several places of the code at once, and changes with any.

Runs that find a violation, each of something the repository says of itself:

| Run | Property | What happens |
|---|---|---|
| `send_leftover` | `StartsOwnTransfer` | "start send" (`upl:359`) starts a fragment of an earlier transfer that `lbuf_alloc` cut short |
| `control_stale` | `OnlySetupDataIsParsed` | SetupEnd resets the state but not the lbuf, and a reply is parsed as a `struct usb_ctrlrequest` (`ch9.h:168`) |
| `bridge_race` | `FetchesItsOwn` | without "ENTER_CRITICAL" (`phy:93`) the interrupt uses the mailbox between a read's command and its wait; the wait ends with the interrupt's access, and the read is about to fetch the answer to that |
| `tx_index` | `IndexSelectsEndpoint` | CSR0, an "Indexed Register" (`musb_phy.h:255`), is tested and written while INDEX is on another endpoint |

Deadlock is checked in `events`.  The other models are bounded by the number of
packets, transfers or accesses, and a stack to which nothing happens is at rest.

### Bounds

- `upload`: three pipes, of which two receive, so that the walk passes a pipe
  without uploads and one receiving pipe can be fed while the thread is at the
  other, in front of it or behind it; an lbuf of two packets and three arrivals,
  so that it fills, overflows, drains and fills again.  The packets' sizes are
  left out: the path copies them and the properties do not tell them apart.
- `send_*`: packets of two bytes; three transfers, so that one can meet what two
  earlier ones left.  An lbuf of three takes a transfer of six bytes exactly, and
  transfers of up to eight are tried, the empty one and odd ones among them.
- `control_*`: two packets from the host and one of a reply in an lbuf of two: full
  with packets of either or of both directions.  In `control_shared` the host's
  packets are all requests, since nothing it checks tells them apart.
- `bridge_*`: two registers and two values; two accesses, so that one begins with
  what the other has left in the mailbox.  `bridge_race` takes the registers as
  symmetric; the other run has a liveness property and does not.
- `phy_pipes`: four kinds of pipes (both bulk pipes, one in its own array, one past the
  end of the struct), of which two may be opened, the same one twice included; packets
  of 8 and of 256 bytes, which need both bytes of RXCOUNT; two uploads, so that one
  could repeat the other.  The number found past the end of the struct is taken to be
  0 to 3.
- `open`: the control pipe and three others, so that a link broken by one opening
  is mended by the next with a third to come; two packets for each, so that one can
  wait while another is handed over.
- `events`: four handlers and two contexts: one walk can be in front of, behind and
  beside the other while two more handlers come.
- `tx`, `tx_index`: the control endpoint and two others, a full packet and a short
  one, three sends (one of the thread that the interrupt breaks into, and one that
  meets what they left).  Of three strings, of 4, 6 and 100 bytes, the first is where
  the walk starts, the second is found by walking over the first, and the third
  overflows the buffer.

### Fairness

- `UsbdUpload`, `UsbdControl`: weak fairness of the thread's actions together: a
  scheduler runs a runnable thread.  Interrupts and the upper layer are not fair.
  `GetLost` is one of the thread's actions: whether a walk comes back from the last
  pipe is left open each time.
- `UsbdSend`: a call that has begun runs on, to its end or to its early return; the
  host polls the endpoint, as it must for a device that is in use; a pending
  interrupt is taken; a resumed thread is run, until its walk is lost.  `Send` is
  not fair.
- `MusbBridge`: the controller answers a command and a spinning thread spins.
- `EventHandlers`: a walk that has begun goes on: callbacks return, and the context
  is run.  Neither emission nor registration is fair.

## 4. Assumptions worth knowing

- `ResumeLatched`: whether `thread_resume` of a running thread is kept is up to a
  kernel that is not in the repository.  It is a constant of `UsbdUpload`, and the
  theorems say which properties need it; `UsbdControl` has a kernel that keeps it.
- `Serial`: the upper layer waits for the completion event before it sends again;
  the properties of `send_serial`, but for the type and `OneEventPerTransfer`, hold
  under it.  `Retries`: it sends again after a failed allocation, which
  `send_leftover` does.
- `Wait` is the loop at `upl:371`: it suspends the protocol thread and waits for
  `wait_ok`, which nothing sets.  `TransferIsReported` is about transfers not begun
  that way, of whole packets: for others `data_len` passes 0 by and the transfer is
  not reported (`upl:69`).
- `send_ok` is never cleared in the repository.  It is declared "by upper layer"
  (`usb_interface.h:29`), and the model has the handler of the event clear it;
  without that each later walk of the thread repeats the event.
- `careless` becomes true when the upper layer changes `pipe->state` of the control
  pipe while something is queued or under way, and when it sends on the pipe in
  another state than `EP0_DATA_IN_ST`: `usbd_pipe_send_packet` does not look, and pops
  and sends back what the host has sent.  `OnlyRepliesAreSent` and
  `OnlySetupDataIsParsed` are about a careful one; the others are about any.
- The walk of the list may be lost behind the last pipe once `usbd_pipe_open` has been
  called (section 1).  What `upload` and `send_serial` say of the end, that everything
  accepted is delivered and every transfer told, is said of the time until then; their
  safety properties hold in either case.  `UsbdControl` has the control pipe alone in
  its list, which `usbd_pipe_open` has not touched.
- `thread_resume` of a thread that was not created does nothing.  The interrupt may
  get there before `thread_create` (`upl:300`) by chance only, through a pipe that
  is NULL (`phy:144-175`) or a `pending` that is not set (`phy:203-223`).
- The caller of `usbd_pipe_open` has not set the handler in its structure; if it has,
  `memcpy` copies it, and the window of `HandlerMissingInOneWindow` does not exist.
- `UsbdControl` reads CSR0 with INDEX 0, as it is until another endpoint is opened
  or sent on; what happens after that is in `MusbTx`.
- `UsbdSend` has the interrupt for a transmitted packet reach
  `tx_probe_packet_handler`; `phy:214` tests a variable that is not set, so in the
  code it is luck, and a choice in `MusbTx`.
- There is one link, and `UsbdOpen` opens its control pipe first.
- `AddEventHandler` is one step: the list library is not in the repository.  What
  emits events is not either: nothing calls `ucd_emit_event`.
- `misuse` in `MusbTx` names the three things the driver does not stand; the
  properties of `tx` say what holds until one of them happens, and nothing of what
  happens then.
- The handler is told `pipe->pkt_size` with each packet (`upl:224`), a field that is
  not declared, where the handler type (`usbstack_config.h:21`) has the size of
  the packet; no model follows it.

## 5. Proofs

All checked by TLAPS, for every value of the constants that the modules'
assumptions admit: any number of pipes, packets, transfers, registers, any
capacity of an lbuf.  Each `*_proofs` module begins with the named invariants its
theorems rest on.

`UsbdUpload_proofs`, from `UploadAssumption` alone and for either kind of kernel:

- `TypeCorrect`: `TypeOK` is not inductive alone: `delivered` is a sequence of
  packets only because the thread is on an OUT pipe and holds a packet, not NULL,
  when it calls the handler (`ThreadOK`).
- `ThreadNeverSleepsOnAPacket`: `[]NoLostWakeup`, from the inductive invariant
  `PendingIsAhead`: a packet that waits is at a pipe the walk has yet to reach or
  is at, or a resume is pending.  It names the reason why a push behind the walk is
  harmless: the push has also set `wake`, which only a new walk takes back.
- `PacketsAreConserved`: `[]Conservation`, which is inductive with `TypeOK` and
  `ThreadOK`; the work is associativity of concatenation.
- `PacketsKeepTheirOrder`: `[]InArrivalOrder`, from `AcceptedAscending` (what is
  accepted ascends and is no newer than the last arrival) and `DeliveredIsPrefix`.
- `UploadImplementsQueue`: `Spec => Queue!Spec`.  `RxProbe` accepts or stutters,
  `CallHandler` delivers, `GetLost` leaves, all other steps stutter.

`UsbdSend_proofs`:

- `TypeCorrect` (with `Begun`: only a call sets `data_len`) and `OneEventEach`
  (from `EventsAreOwed`: an event, or `send_ok`, is owed for a completion not yet
  told) hold for overlapping transfers and for retries as well.
- `OneTransferOnTheWay`, for one transfer at a time (`Serial`, `~Retries`), is the
  strengthening of all that follows.  `NothingOnTheWay`: a transfer begins with
  everything empty.  `CallerIsAlone`: the interrupt does not strike before the
  caller has started it, so that their pops do not race.  `DataLenIsRight` and
  `LbufIsInSteps`: `data_len` is what was left at the packet under way, and what is
  queued follows in steps of `maxpktsize`; this is what makes the underflow of
  `data_len` harmless to the count and fatal to the report.
- `PacketsAreConserved`, `CompletionsAreSound` follow from it, and
  `SendImplementsTransfers`: `Spec => Abstract!Spec`, where `QueuePacket` cuts,
  `Transmit` takes, and `Event` tells.
- `SendKeepsToTheEndpoint`, from `CallerIsAlone`: nobody calls `musb_send_packet`
  while the endpoint holds a packet, which is what `EndpointBuffers` asks of its user.

`UsbdControl_proofs`: `TypeCorrect`, with `Counted` to bound the history of pushes;
`EveryPacketIsTakenOnce`; `DeafOnceAborted`, an action property; and
`NothingIsSentBack` from `RepliesAreAlone`: with a careful upper layer the lbuf holds
replies alone while one is being sent, be it for the state or for the abort.

`UsbdOpen_proofs`: `OpeningKeepsItsOrder` collects the order the code keeps
(`BeforeThread`, `AfterThread`, `BoundInOrder`); `PacketsSurviveOpening` follows as
`memcpy` comes before the endpoint can upload, `OnlyTheLastLinkBreaks` from
`OverwritesLast`, `HandlerIsMissingInOneWindow` from `BoundInOrder` and the order of
opening and assignment, `DeafInReset` from `InReset`.  `NothingSleeps` needs more,
since the list grows under the walk.  `ListInOrder` and `NoneSkipped` say that a link
leads to a later pipe, or nowhere, and passes over none that can receive; hence
`NothingPassed`: unless the thread has been resumed, what it has walked past is empty.

`MusbPhy_proofs`: `OutPipesGetNothing` from `OwnedAsLookedUp` (an endpoint's pipe is one
that the lookup takes there) and `FirstRxEndpoints` (of the two endpoints the interrupt
looks at, the lookup takes no pipe to the one and bulk IN to the other); `NothingIsMadeUp`
from `LatchedIsUnseen`, counting calls as the uploads grow; `EndpointsFillUp` from
`OneMorePerFlush`, which rests on `OpeningOK`, that INDEX is on a receive FIFO when
one is flushed; `OnlyTheLatestUploads` and `CountIsRight` from `OnlyLatestEnabled`.

`MusbBridge_proofs`: `UndisturbedReads` and `UndisturbedWrites` from
`MailboxIsOurs`: until the interrupt uses it the mailbox holds the thread's last
command, and its answer once there is one.

`EventHandlers_proofs`, for any handlers and any number of contexts.  The invariant
joins `ListIsRegistered` (the list is the history of registrations, no item twice),
`WalkIsPrefix` (a walk has called the first so many of the list as it is by now, and
its iterator is at the last of them) and `OwedAreListed`.  What makes it inductive
although the list grows under the walks is `FollowingIsNext`: the iterator, which
the code finds again by the item it is at, goes on to the first handler not yet
called.  Hence `HandlersAreCalledInOrder`, `EverybodyIsCalled`, and, for finitely many
handlers, `WalksAreBounded`: no walk calls a handler twice, so none has more steps
than there are handlers, which is the part of `EmissionEnds` that needs no fairness.

`MusbTx_proofs`, for any endpoints, table of strings and number of sends:

- `WalkFindsStart`: the two walks of `__get_descriptor` (`upl:117-149`) over a table
  whose strings each begin with their length stop at the right string.  That is
  induction over the table; the library's induction theorems cannot be used, so it
  takes the smallest counterexample, which the well-foundedness of the naturals
  gives (`Least`, `CountingUp`).  It is why `TxAssumption` has each length in 2..255:
  of a length 0 the walk would not get off.
- `BuffersAreKept`: the inductive invariant says, for each step of the thread in
  `musb_send_packet`, who has the endpoint.  `OthersAreShutOut` and `TextsAreFound` hold
  always.  Until there is a misuse, `ReadyIsLoaded` (what is ready is the endpoint's own
  packet, and the count is its size), `ThreadIsAlone` (the endpoint the thread is at is
  not ready and holds the thread's packet) and `WireIsWhole`; and
  while INDEX is 0, `NothingIsDropped`, which is also about packets on their way.
- `TypesAreKept`, `PacketsAreWhole`, `NoneIsDropped`, `StringsAreSent` follow from it,
  and `NoControlPacketIsReady`, an action property: with INDEX away from 0 no step
  makes a packet of endpoint 0 ready.
- `DriverImplementsBuffers`: `Spec => Buffers!Spec`.  The copy with which a send begins
  puts a packet, `Transmit` takes one, and the thread's steps in between stutter.  With
  INDEX elsewhere a control packet is lost, and writing its CSR0 bits to that
  endpoint's TXCSR1 may lose what is ready there (`Lose`); after a misuse anything
  may happen.

Registers and descriptors, at the end of `MusbBridge_proofs` and of
`UsbdControl_proofs`: which registers share
an address (`AddressesAreShared`), that 16 bit and target registers are read as they
were written and do not overlap, that `__musb_read_reg_rxcount` is wrong for packets
of 256 bytes and no others (`RxCountIsWrongAt256`), that the two headers agree on
all bits but SentStall and SendStall of CSR0 (`BitsAreTheMakers`), that no write of
the driver spares a flag that a zero clears (`WritesClearTheFlags`), what the bits of
CSR0 are with INDEX elsewhere (`Csr0OfAnotherEndpoint`), and that the fields of
`bRequestType` and the predicates of endpoint descriptors tell apart what they should.

Model-checked only: liveness (`TransferIsReported`, `UploadsAreTaken`, `AccessEnds`,
`EmissionEnds` and the liveness half of `RefinesPacketQueue`), since fairness and
ENABLED are beyond the prover.  Every other property of a passing run is the subject
of a theorem.  `RefinesBuffers` and `KeepsToTheEndpoint` are in no run; on the bounds of
`tx` and of `send_serial` TLC agrees with the theorems.

## 6. Not modelled

- `musb_ioctrl` (`phy:327`): its cases call functions that are not in the repository
  or do nothing.  `__alloc_endpoint_memory` (`dev:31`): nothing uses what it computes.
- `ep0_tx_process`, `ep0_rx_process`, `create_usb_pipe`, `musb_request_packet`: named
  in the source and not in it.
- `__get_status` (`upl:113`): its condition is missing (`setup->`), and only requests
  that are not standard ones reach it (`upl:156`).  `event_handler` of the protocol layer
  (`upl:263`): it uses names it does not declare.
- Where packets are freed: neither side does in the repository.
- `musb_host.c`: twelve lines, none of whose functions exist.  The functions of
  `usb_controller_driver.c` besides `usb_controller_init` and the events: nothing
  calls them, and some forward to entries the driver table does not have.
- The layouts for Blackfin and TUSB6010 in `musb_regs.h`, which this build does not
  select; the class headers of `usb/` and the descriptors of `ch9.h` that nothing in
  the stack looks into.

## 7. What could follow

- `MusbPhy` under `UsbdUpload`: for receiving, the interface between protocol layer
  and driver is checked from both sides, not across, as `EndpointBuffers` does it for
  sending.
- `UsbdControl` with an INDEX that moves, and against `EndpointBuffers`: unlike
  `UsbdSend` it can send while its endpoint is busy, so that it could only keep to it
  under conditions on the upper layer.
