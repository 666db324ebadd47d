------------------------------ MODULE UsbdOpen ------------------------------
(***************************************************************************)
(* Bringing up a link and opening its pipes (usbd_protocol_layer.c), with  *)
(* the initialization of the driver under it (musb_phy.c, musb_device.c).  *)
(*                                                                         *)
(* One context of the upper layer calls usbd_protocol_init and then        *)
(* usbd_pipe_open for each pipe.  From the middle of the initialization on *)
(* the interrupt may strike between any two steps of it, and as soon as    *)
(* the protocol thread exists it walks the list of pipes that is being     *)
(* built.  The pipes are control and OUT pipes.  endpoint->pipe is taken    *)
(* to be the pipe the interrupt needs there from the opening of its        *)
(* endpoint on, and no pipe before that and on the transmit endpoints; the *)
(* code never sets it.                                                     *)
(***************************************************************************)
EXTENDS Naturals

CONSTANTS
  NumPipes,   \* the pipes usbd_pipe_open is called for; pipe 0 is the control pipe
  MaxUploads  \* bound: packets uploaded on one pipe in a behaviour

ASSUME OpenAssumption == NumPipes \in Nat /\ MaxUploads \in Nat

Pipe == 0..NumPipes
Head == NumPipes + 1   \* link->pipe_head
Junk == NumPipes + 2   \* no place of the list
None == NumPipes + 2   \* no pipe

\* What may stand behind __usbd_drv->init: the function the driver's table
\* names, the wrapper in usb_controller_driver.c, the one written for the device
\* role; and the steps each of them takes.
Path == {"musb_hw_init", "usb_controller_init", "musbd_hw_init"}
Resets(path)    == path = "musbd_hw_init"
Registers(path) == path # "musb_hw_init"

\* Where the initializing context may be.
Where == {"create", "failed", "hw", "reset", "register", "control", "thread",
          "up", "copy", "open", "handler"}

VARIABLES
  path,      \* which of them it is
  main,      \* where the initializing context is
  calls,     \* the pipe it is opening or has opened last, as they are called for
  irq,       \* the USB interrupt is requested
  nrst,      \* the controller is out of reset
  probe,     \* phy->probe_handler is set
  next,      \* entry.next of the list head and of each pipe
  last,      \* pipe_head.prev
  raw,       \* pipes in the list that nothing has been written to yet
  bound,     \* pipes bound to their endpoints
  enabled,   \* INTRRX1E: the pipe whose endpoint's interrupt is enabled
  state,     \* the control pipe's state
  handler,   \* pipes whose handler is set
  th,        \* the protocol thread
  at,        \* where it is in the list
  wake,      \* it has been resumed
  pending,   \* pending[p]: packets in the lbuf of pipe p
  uploaded,  \* history: packets pushed for each pipe
  handled,   \* history: packets handed over for each pipe
  stray,     \* history: the interrupt has used memory that is no pipe as one
  unset      \* history: the calls of a handler that was not set: the pipe, and
             \* where in usbd_pipe_open it was, "up" if that had returned

driverVars == <<path, irq, nrst, probe>>
listVars   == <<next, last, raw>>
boundVars  == <<bound, enabled>>
threadVars == <<th, at>>
packetVars == <<pending, uploaded, handled, stray, unset>>
vars == <<main, calls, driverVars, listVars, boundVars, state, handler,
          threadVars, wake, packetVars>>

Init ==
  /\ path \in Path
  /\ main = "create" /\ calls = 0
  /\ irq = FALSE /\ nrst = FALSE /\ probe = FALSE
  /\ next = [p \in Pipe \cup {Head} |-> Head] /\ last = Head /\ raw = {}
  /\ bound = {} /\ enabled = None
  /\ state = "USB_DEVICE_W4_SETUP" /\ handler = {}
  /\ th = "none" /\ at = Head /\ wake = FALSE
  /\ pending  = [p \in Pipe |-> 0]
  /\ uploaded = [p \in Pipe |-> 0]
  /\ handled  = [p \in Pipe |-> 0]
  /\ stray = FALSE /\ unset = {}

Goto(from, to) == main = from /\ main' = to

-----------------------------------------------------------------------------
(* usbd_protocol_init.                                                     *)

\* create_usbd_link() may fail; the function then returns.
CreateLink ==
  /\ main = "create" /\ main' \in {"hw", "failed"}
  /\ UNCHANGED <<calls, driverVars, listVars, boundVars, state, handler,
                 threadVars, wake, packetVars>>

\* A slip: the reset is lifted here already.
HwInitResets ==
  /\ Goto("hw", IF Registers(path) THEN "register" ELSE "control")
  /\ irq' = TRUE /\ nrst' = TRUE
  /\ UNCHANGED <<calls, path, probe, listVars, boundVars, state, handler,
                 threadVars, wake, packetVars>>

\* musb_hw_init: the phy leaves IDLE_ST and its interrupt is requested.
HwInit ==
  /\ Goto("hw", IF Resets(path) THEN "reset"
                ELSE IF Registers(path) THEN "register" ELSE "control")
  /\ irq' = TRUE
  /\ UNCHANGED <<calls, path, nrst, probe, listVars, boundVars, state, handler,
                 threadVars, wake, packetVars>>

\* __musb_phy_device_init; "musb", which musbd_hw_init never sets, is taken to be
\* the controller.
DeviceInit ==
  /\ Goto("reset", "register")
  /\ nrst' = TRUE
  /\ UNCHANGED <<calls, path, irq, probe, listVars, boundVars, state, handler,
                 threadVars, wake, packetVars>>

\* musb_register_packet_handler: priv first, so that a handler has its priv.
RegisterHandler ==
  /\ Goto("register", "control")
  /\ probe' = TRUE
  /\ UNCHANGED <<calls, path, irq, nrst, listVars, boundVars, state, handler,
                 threadVars, wake, packetVars>>

\* list_add_tail(&pipe->entry, &link->pipe_head), and the slip of list_add().
ListAddFront(p) ==
  /\ next' = [next EXCEPT ![p] = next[Head], ![Head] = p]
  /\ last' = IF last = Head THEN p ELSE last
ListAddTail(p) ==
  /\ next' = [next EXCEPT ![last] = p, ![p] = Head]
  /\ last' = p

\* usbd_control_pipe_open up to the call of the driver.  That it may fail is not
\* noticed by the caller.  The pipe's state is one no probe handler knows; the
\* slip is to start in the state for requests.
ControlPipeIn(initial) ==
  /\ \/ /\ Goto("control", "open")
        /\ ListAddTail(0)
        /\ state' = initial
     \/ /\ Goto("control", "thread")
        /\ UNCHANGED <<next, last, state>>
  /\ UNCHANGED <<calls, driverVars, raw, boundVars, handler, threadVars, wake,
                 packetVars>>
ControlPipeInSetup == ControlPipeIn("EP0_SETUP_ST")
ControlPipe == ControlPipeIn("USB_DEVICE_W4_SETUP")

\* thread_create(); a new thread runs.
CreateThread ==
  /\ Goto("thread", "up")
  /\ th' = "idle" /\ wake' = TRUE
  /\ UNCHANGED <<calls, driverVars, listVars, boundVars, state, handler, at,
                 packetVars>>

-----------------------------------------------------------------------------
(* usbd_pipe_open, for the pipe after the last one.                        *)

\* create_usb_pipe() fails, and the function returns.
CreateFails ==
  /\ main = "up" /\ calls < NumPipes
  /\ calls' = calls + 1
  /\ UNCHANGED <<main, driverVars, listVars, boundVars, state, handler,
                 threadVars, wake, packetVars>>

\* musb_hw_endpoint_open binds pipe p to its endpoint and enables that, if it is
\* not the control endpoint: INTRRX1E is written, not added to.  What is written
\* to a controller in reset is lost.
Bind(p) ==
  /\ bound' = bound \cup {p}
  /\ enabled' = IF p > 0 /\ nrst THEN p ELSE enabled

\* A slip: the endpoint is opened before the structure is filled in.
ListPipeBound ==
  /\ Goto("up", "copy") /\ calls < NumPipes
  /\ calls' = calls + 1
  /\ ListAddTail(calls + 1)
  /\ raw' = raw \cup {calls + 1}
  /\ Bind(calls + 1)
  /\ UNCHANGED <<driverVars, state, handler, threadVars, wake, packetVars>>

ListPipe ==
  /\ Goto("up", "copy") /\ calls < NumPipes
  /\ calls' = calls + 1
  /\ ListAddTail(calls + 1)
  /\ raw' = raw \cup {calls + 1}
  /\ UNCHANGED <<driverVars, boundVars, state, handler, threadVars, wake,
                 packetVars>>

\* memcpy(pipe_temp, pipe, sizeof(struct usb_pipe)): the caller's structure is put
\* over the new one, with its lbuf, which is empty, and its list entry, which is
\* in no list.
CopyPipe ==
  /\ Goto("copy", "open")
  /\ next' = [next EXCEPT ![calls] = Junk]
  /\ raw' = raw \ {calls}
  /\ pending' = [pending EXCEPT ![calls] = 0]
  /\ UNCHANGED <<calls, driverVars, last, boundVars, state, handler, threadVars,
                 wake, uploaded, handled, stray, unset>>

OpenEndpoint ==
  /\ Goto("open", IF calls = 0 THEN "thread" ELSE "handler")
  /\ Bind(calls)
  /\ UNCHANGED <<calls, driverVars, listVars, state, handler, threadVars, wake,
                 packetVars>>

\* A slip: the handler is set in the caller's structure.
SetHandlerOfCallers ==
  /\ Goto("handler", "up")
  /\ UNCHANGED <<calls, driverVars, listVars, boundVars, state, handler,
                 threadVars, wake, packetVars>>

SetHandler ==
  /\ Goto("handler", "up")
  /\ handler' = handler \cup {calls}
  /\ UNCHANGED <<calls, driverVars, listVars, boundVars, state, threadVars, wake,
                 packetVars>>

-----------------------------------------------------------------------------
(* The upper layer and the interrupt.                                      *)

\* The upper layer waits for requests on the control pipe.
AwaitSetup ==
  /\ main = "up" /\ 0 \in bound
  /\ state # "EP0_SETUP_ST" /\ state' = "EP0_SETUP_ST"
  /\ UNCHANGED <<main, calls, driverVars, listVars, boundVars, handler,
                 threadVars, wake, packetVars>>

\* thread_resume(); on a thread that was not created nothing comes of it.
Resume == wake' = (th # "none")

\* What is used as a pipe decides whether the thread is resumed, whether it was
\* created or not.
ResumeByChance ==
  /\ Resume \/ UNCHANGED wake
  /\ stray' = TRUE
  /\ UNCHANGED <<main, calls, driverVars, listVars, boundVars, state, handler,
                 threadVars, pending, uploaded, handled, unset>>

\* musb_ep0_process finds no pipe; it sets transfer_state in it and calls the
\* probe handler with it, if there is one.
EarlyInterrupt ==
  /\ irq /\ nrst /\ 0 \notin bound
  /\ ResumeByChance /\ (~probe => UNCHANGED wake)

\* musb_tx_process: its local "pending" has no value, and by chance the transmit
\* handler is called for an endpoint that has no pipe.
TxByChance == irq /\ nrst /\ probe /\ ResumeByChance

\* A packet for pipe p is pushed and the thread resumed.  Endpoint 0 needs no
\* enabling (it is enabled by the controller's reset).
Uploads(p) == irq /\ nrst /\ probe /\ p \in bound
              /\ IF p = 0 THEN state = "EP0_SETUP_ST" ELSE enabled = p

Interrupt(p) ==
  /\ Uploads(p) /\ uploaded[p] < MaxUploads
  /\ pending'  = [pending EXCEPT ![p] = @ + 1]
  /\ uploaded' = [uploaded EXCEPT ![p] = @ + 1]
  /\ Resume
  /\ UNCHANGED <<main, calls, driverVars, listVars, boundVars, state, handler,
                 threadVars, handled, stray, unset>>

-----------------------------------------------------------------------------
(* The protocol thread.                                                    *)

Dispatch ==
  /\ th = "idle" /\ wake
  /\ wake' = FALSE
  /\ th' = "walk" /\ at' = next[Head]
  /\ UNCHANGED <<main, calls, driverVars, listVars, boundVars, state, handler,
                 packetVars>>

\* The walk goes on to a place in the list, or leaves the list for good.
Step(place) ==
  /\ at' = place
  /\ th' = IF place = Junk THEN "lost" ELSE "walk"

\* The pipe has nothing in its lbuf; if nothing was written to the pipe yet the
\* thread finds any lbuf, and may not come back from it.
NextPipe ==
  /\ th = "walk" /\ at \in Pipe /\ pending[at] = 0
  /\ Step(next[at]) \/ (at \in raw /\ Step(Junk))
  /\ UNCHANGED <<main, calls, driverVars, listVars, boundVars, state, handler,
                 wake, packetVars>>

\* lbuf_empty() was false, lbuf_pop(); the slip is not to have asked.
PopPacketUnchecked ==
  /\ th = "walk" /\ at \in Pipe
  /\ pending' = [pending EXCEPT ![at] = @ - 1]
  /\ th' = "call"
  /\ UNCHANGED <<main, calls, driverVars, listVars, boundVars, state, handler,
                 at, wake, uploaded, handled, stray, unset>>
PopPacket ==
  /\ th = "walk" /\ at \in Pipe /\ pending[at] > 0
  /\ pending' = [pending EXCEPT ![at] = @ - 1]
  /\ th' = "call"
  /\ UNCHANGED <<main, calls, driverVars, listVars, boundVars, state, handler,
                 at, wake, uploaded, handled, stray, unset>>

\* pipe->handler(), which on the control pipe nobody has set.
CallHandler ==
  /\ th = "call" /\ th' = "walk"
  /\ handled' = [handled EXCEPT ![at] = @ + 1]
  /\ unset' = IF at \in handler THEN unset
              ELSE unset \cup {<<at, IF at = calls THEN main ELSE "up">>}
  /\ UNCHANGED <<main, calls, driverVars, listVars, boundVars, state, handler,
                 at, wake, pending, uploaded, stray>>

Suspend ==
  /\ th = "walk" /\ at = Head
  /\ th' = "idle"
  /\ UNCHANGED <<main, calls, driverVars, listVars, boundVars, state, handler,
                 at, wake, packetVars>>

-----------------------------------------------------------------------------
Main == CreateLink \/ HwInit \/ DeviceInit \/ RegisterHandler \/ ControlPipe
        \/ CreateThread \/ CreateFails \/ ListPipe \/ CopyPipe \/ OpenEndpoint
        \/ SetHandler \/ AwaitSetup

Thread == Dispatch \/ NextPipe \/ PopPacket \/ CallHandler \/ Suspend

Next == Main \/ Thread \/ EarlyInterrupt \/ TxByChance
        \/ \E p \in Pipe : Interrupt(p)

Spec == Init /\ [][Next]_vars

-----------------------------------------------------------------------------
(* Properties.                                                             *)

\* Every variable has its type.
TypeOK ==
  /\ path \in Path
  /\ main \in Where
  /\ calls \in Pipe
  /\ irq \in BOOLEAN /\ nrst \in BOOLEAN /\ probe \in BOOLEAN
  /\ next \in [Pipe \cup {Head} -> Pipe \cup {Head, Junk}]
  /\ last \in Pipe \cup {Head}
  /\ raw \subseteq Pipe /\ bound \subseteq Pipe /\ enabled \in Pipe \cup {None}
  /\ state \in {"USB_DEVICE_W4_SETUP", "EP0_SETUP_ST"}
  /\ handler \subseteq Pipe
  /\ th \in {"none", "idle", "walk", "call", "lost"}
  /\ at \in Pipe \cup {Head, Junk}
  /\ wake \in BOOLEAN
  /\ pending \in [Pipe -> Nat] /\ uploaded \in [Pipe -> 0..MaxUploads]
  /\ handled \in [Pipe -> Nat]
  /\ stray \in BOOLEAN /\ unset \subseteq Pipe \X Where

\* usbd_pipe_open lists the pipe, overwrites it, opens the endpoint and sets the
\* handler in this order: no packet the interrupt pushes on the way is lost.
InCall(p) == IF th = "call" /\ at = p THEN 1 ELSE 0
UploadsSurviveOpening ==
  \A p \in Pipe : uploaded[p] = handled[p] + InCall(p) + pending[p]

\* The interrupt is requested long before the thread exists, what it finds may
\* resume that by chance, and pipes are added behind the thread as it walks: still
\* no packet is left when the thread is suspended with nothing to resume it, and
\* none is pushed for a thread that is not there to be resumed.
PacketsDoNotSleep ==
  th \in {"none", "idle"} /\ ~wake => \A p \in Pipe : pending[p] = 0

\* The memcpy of usbd_pipe_open breaks the list behind the pipe, and the next
\* list_add_tail mends it: only the link behind the last pipe leads nowhere.
OnlyLastLinkIsBroken ==
  \A p \in Pipe \cup {Head} : next[p] = Junk => p = last

\* The endpoint is opened before the handler is set: the thread may call a handler
\* that is not there between these two steps of usbd_pipe_open, and neither before
\* them, when the pipe is in the list already, nor when usbd_pipe_open has
\* returned.  On the control pipe it always does, nothing sets its handler.
HandlerMissingInOneWindow ==
  \A call \in unset : call[1] = 0 \/ call[2] = "handler"

\* Through the function the driver's table names, and through the wrapper, a
\* controller comes up that never uploads anything: its reset is not lifted.
DeafUnlessDeviceInit ==
  ~Resets(path) => ~stray /\ \A p \in Pipe : uploaded[p] = 0
=============================================================================
