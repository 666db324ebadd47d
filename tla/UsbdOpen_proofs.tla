--------------------------- MODULE UsbdOpen_proofs ---------------------------
(***************************************************************************)
(* Proofs about bringing up a link and opening its pipes, for any number   *)
(* of pipes and any number of packets.                                     *)
(***************************************************************************)
EXTENDS UsbdOpen, TLAPS

\* Until the thread exists no pipe but the control pipe is open, and that one
\* only just before, in a state in which nothing is uploaded.
BeforeThread ==
  th = "none" =>
    /\ main \notin {"up", "copy", "handler"}
    /\ calls = 0 /\ state = "USB_DEVICE_W4_SETUP"
    /\ main # "thread" => bound = {}

\* From then on pipes are opened, one after the other.
AfterThread ==
  th # "none" =>
    /\ main \in {"up", "copy", "open", "handler"}
    /\ main # "up" => calls > 0

\* A pipe is bound when it is opened, after it was listed and overwritten and
\* before its handler is set; packets are pushed for bound pipes only.
BoundInOrder ==
  /\ \A p \in bound : p <= calls
  /\ main \in {"copy", "open"} => calls \notin bound
  /\ \A p \in bound : p = 0 \/ p \in handler \/ (p = calls /\ main = "handler")
  /\ \A p \in Pipe : p \notin bound => uploaded[p] = 0

\* The pipes in the list: each leads on but the last one.
Listed == {p \in Pipe : p = last \/ next[p] # Head}

\* Pipes are listed in the order they are opened in.
ListInOrder ==
  /\ \A p \in Listed : last # Head /\ p <= last /\ p <= calls
  /\ \A p \in Listed \cup {Head} : next[p] \in Pipe => next[p] \in Listed
  /\ last # Head => next[Head] # Head
  /\ main \in {"create", "hw", "reset", "register", "control"} => last = Head
  /\ main \in {"copy", "open"} => last = calls

\* No link leads past a pipe that may have packets.
NoneSkipped ==
  /\ bound \subseteq Listed
  /\ \A p \in Listed \cup {Head}, q \in bound :
       p = Head \/ p < q => next[p] = Junk \/ (next[p] \in Pipe /\ next[p] <= q)

\* The thread that was not resumed again has not passed a packet.
WalksTheList == th \in {"walk", "call"} /\ at \in Pipe => at \in Listed
NothingPassed ==
  /\ wake => th # "none"
  /\ ~wake => \A q \in Pipe : pending[q] > 0 =>
       \/ th = "lost"
       \/ th \in {"walk", "call"} /\ (at = Junk \/ (at \in Pipe /\ at <= q))

\* What is overwritten is at the end of the list.
OverwritesLast == main = "copy" => last = calls

\* Only one of the paths lifts the controller's reset.
InReset == ~Resets(path) => ~nrst /\ main # "reset"

\* What the thread hands over is a pipe's.
HandsOverAPipes == th = "call" => at \in Pipe

-----------------------------------------------------------------------------
\* The places next and last may hold.
LEMMA PlacesInTheList ==
  /\ 0 \in Pipe /\ Head \notin Pipe /\ Junk \notin Pipe /\ Head # Junk
  /\ calls \in Pipe /\ calls < NumPipes => calls + 1 \in Pipe
  BY OpenAssumption DEF Pipe, Head, Junk

\* The type invariant: in particular the thread is at a pipe, at the head or
\* lost, wherever the list leads it, and it pops a packet of a pipe.
THEOREM TypeCorrect == Spec => [](TypeOK /\ HandsOverAPipes)
<1> USE DEF TypeOK, HandsOverAPipes
<1>1. Init => TypeOK /\ HandsOverAPipes
  <2> SUFFICES ASSUME Init PROVE TypeOK /\ HandsOverAPipes
    OBVIOUS
  <2>1. next \in [Pipe \cup {Head} -> Pipe \cup {Head, Junk}]
    BY DEF Init
  <2>2. /\ pending \in [Pipe -> Nat] /\ handled \in [Pipe -> Nat]
        /\ uploaded \in [Pipe -> 0..MaxUploads]
    BY OpenAssumption DEF Init
  <2> QED
    BY <2>1, <2>2, PlacesInTheList DEF Init, Where
<1>2. TypeOK /\ HandsOverAPipes /\ [Next]_vars => (TypeOK /\ HandsOverAPipes)'
  <2> SUFFICES ASSUME TypeOK, HandsOverAPipes, [Next]_vars
               PROVE  (TypeOK /\ HandsOverAPipes)'
    OBVIOUS
  <2> USE DEF Goto, driverVars, listVars, boundVars, threadVars, packetVars, Where
  <2>1. CASE CreateLink
    BY <2>1 DEF CreateLink
  <2>2. CASE HwInit
    BY <2>2 DEF HwInit
  <2>3. CASE DeviceInit
    BY <2>3 DEF DeviceInit
  <2>4. CASE RegisterHandler
    BY <2>4 DEF RegisterHandler
  <2>5. CASE ControlPipe
    BY <2>5, PlacesInTheList DEF ControlPipe, ControlPipeIn, ListAddTail
  <2>6. CASE CreateThread
    BY <2>6 DEF CreateThread
  <2>7. CASE CreateFails
    BY <2>7, PlacesInTheList DEF CreateFails
  <2>8. CASE ListPipe
    BY <2>8, PlacesInTheList DEF ListPipe, ListAddTail
  <2>9. CASE CopyPipe
    BY <2>9 DEF CopyPipe
  <2>10. CASE OpenEndpoint
    BY <2>10 DEF OpenEndpoint, Bind
  <2>11. CASE SetHandler
    BY <2>11 DEF SetHandler
  <2>12. CASE AwaitSetup
    BY <2>12 DEF AwaitSetup
  <2>13. CASE Dispatch
    <3>1. at' = next[Head] /\ th' = "walk"
      BY <2>13 DEF Dispatch
    <3>2. at' \in Pipe \cup {Head, Junk}
      BY <3>1
    <3>3. /\ wake' \in BOOLEAN
          /\ UNCHANGED <<main, calls, driverVars, listVars, boundVars, state,
                         handler, packetVars>>
      BY <2>13 DEF Dispatch
    <3> QED
      BY <3>1, <3>2, <3>3
  <2>14. CASE NextPipe
    BY <2>14 DEF NextPipe, Step
  <2>15. CASE PopPacket
    BY <2>15 DEF PopPacket
  <2>16. CASE CallHandler
    <3>1. <<at, IF at = calls THEN main ELSE "up">> \in Pipe \X Where
      BY <2>16 DEF CallHandler, Where
    <3> QED
      BY <2>16, <3>1 DEF CallHandler
  <2>17. CASE Suspend
    BY <2>17 DEF Suspend
  <2>18. CASE ResumeByChance
    <3>1. wake' \in BOOLEAN /\ stray' \in BOOLEAN
      BY <2>18, Zenon DEF ResumeByChance, Resume
    <3>2. UNCHANGED <<main, calls, driverVars, listVars, boundVars, state, handler,
                      threadVars, pending, uploaded, handled, unset>>
      BY <2>18 DEF ResumeByChance
    <3> QED
      BY <3>1, <3>2
  <2>19. ASSUME NEW p \in Pipe, Interrupt(p) PROVE (TypeOK /\ HandsOverAPipes)'
    BY <2>19, OpenAssumption DEF Interrupt, Resume
  <2>20. CASE UNCHANGED vars
    BY <2>20 DEF vars
  <2> QED
    BY <2>1, <2>2, <2>3, <2>4, <2>5, <2>6, <2>7, <2>8, <2>9, <2>10, <2>11, <2>12,
       <2>13, <2>14, <2>15, <2>16, <2>17, <2>18, <2>19, <2>20
       DEF Next, Main, Thread, EarlyInterrupt, TxByChance
<1> QED
  BY <1>1, <1>2, PTL DEF Spec

-----------------------------------------------------------------------------
\* The order of the initialization and of each usbd_pipe_open, on which the
\* rest depends.
THEOREM OpeningKeepsItsOrder ==
  Spec => [](BeforeThread /\ AfterThread /\ BoundInOrder)
<1> DEFINE IInv == BeforeThread /\ AfterThread /\ BoundInOrder
<1>1. Init => IInv
  BY DEF Init, BeforeThread, AfterThread, BoundInOrder
<1>2. TypeOK /\ IInv /\ [Next]_vars => IInv'
  <2> SUFFICES ASSUME TypeOK, IInv, [Next]_vars PROVE IInv'
    OBVIOUS
  <2> USE OpenAssumption DEF TypeOK, Pipe, BeforeThread, AfterThread, BoundInOrder,
          Goto, driverVars, listVars, boundVars, threadVars, packetVars
  <2>1. CASE CreateLink
    BY <2>1 DEF CreateLink
  <2>2. CASE HwInit
    BY <2>2 DEF HwInit
  <2>3. CASE DeviceInit
    BY <2>3 DEF DeviceInit
  <2>4. CASE RegisterHandler
    BY <2>4 DEF RegisterHandler
  <2>5. CASE ControlPipe
    BY <2>5 DEF ControlPipe, ControlPipeIn, ListAddTail
  <2>6. CASE CreateThread
    BY <2>6 DEF CreateThread
  <2>7. CASE CreateFails
    BY <2>7 DEF CreateFails
  <2>8. CASE ListPipe
    BY <2>8 DEF ListPipe, ListAddTail
  <2>9. CASE CopyPipe
    BY <2>9 DEF CopyPipe
  <2>10. CASE OpenEndpoint
    BY <2>10 DEF OpenEndpoint, Bind
  <2>11. CASE SetHandler
    BY <2>11 DEF SetHandler
  <2>12. CASE AwaitSetup
    BY <2>12 DEF AwaitSetup
  <2>13. CASE Dispatch
    BY <2>13 DEF Dispatch
  <2>14. CASE NextPipe
    BY <2>14 DEF NextPipe, Step
  <2>15. CASE PopPacket
    BY <2>15 DEF PopPacket
  <2>16. CASE CallHandler
    BY <2>16 DEF CallHandler
  <2>17. CASE Suspend
    BY <2>17 DEF Suspend
  <2>18. CASE ResumeByChance
    BY <2>18 DEF ResumeByChance
  <2>19. ASSUME NEW p \in Pipe, Interrupt(p) PROVE IInv'
    BY <2>19 DEF Interrupt, Uploads
  <2>20. CASE UNCHANGED vars
    BY <2>20 DEF vars
  <2> QED
    BY <2>1, <2>2, <2>3, <2>4, <2>5, <2>6, <2>7, <2>8, <2>9, <2>10, <2>11, <2>12,
       <2>13, <2>14, <2>15, <2>16, <2>17, <2>18, <2>19, <2>20
       DEF Next, Main, Thread, EarlyInterrupt, TxByChance
<1> QED
  BY <1>1, <1>2, TypeCorrect, PTL DEF Spec

-----------------------------------------------------------------------------
\* No packet that arrives while pipes are opened is lost: the list entry and the
\* lbuf of a pipe are overwritten before its endpoint can receive.
THEOREM PacketsSurviveOpening == Spec => []UploadsSurviveOpening
<1>1. Init => UploadsSurviveOpening
  BY DEF Init, UploadsSurviveOpening, InCall
<1>2. /\ TypeOK /\ AfterThread /\ BoundInOrder /\ UploadsSurviveOpening
      /\ [Next]_vars
      => UploadsSurviveOpening'
  <2> SUFFICES ASSUME TypeOK, AfterThread, BoundInOrder, UploadsSurviveOpening,
                      [Next]_vars, NEW q \in Pipe
               PROVE  uploaded'[q] = handled'[q] + InCall(q)' + pending'[q]
    BY DEF UploadsSurviveOpening
  <2>0. /\ uploaded[q] = handled[q] + InCall(q) + pending[q]
        /\ uploaded[q] \in Nat /\ handled[q] \in Nat /\ pending[q] \in Nat
        /\ InCall(q) \in {0, 1}
    BY OpenAssumption DEF UploadsSurviveOpening, TypeOK, InCall
  <2> USE DEF packetVars, threadVars
  <2>1. CASE UNCHANGED <<pending, uploaded, handled, th, at>>
    BY <2>0, <2>1 DEF InCall
  <2>2. CASE CreateThread
    <3>1. th' # "call" /\ th # "call"
      BY <2>2 DEF CreateThread, Goto, AfterThread
    <3> QED
      BY <2>0, <2>2, <3>1 DEF CreateThread, InCall
  <2>3. CASE CopyPipe
    <3>1. /\ pending' = [pending EXCEPT ![calls] = 0]
          /\ UNCHANGED <<uploaded, handled, th, at>>
      BY <2>3 DEF CopyPipe
    <3>2. calls = q => pending[q] = 0
      BY <2>0, <2>3 DEF CopyPipe, Goto, BoundInOrder
    <3> QED
      BY <2>0, <3>1, <3>2 DEF TypeOK, InCall
  <2>4. ASSUME NEW p \in Pipe, Interrupt(p)
        PROVE  uploaded'[q] = handled'[q] + InCall(q)' + pending'[q]
    BY <2>0, <2>4 DEF Interrupt, TypeOK, InCall
  <2>5. CASE Dispatch \/ NextPipe \/ Suspend
    BY <2>0, <2>5 DEF Dispatch, NextPipe, Suspend, Step, InCall
  <2>6. CASE PopPacket
    BY <2>0, <2>6 DEF PopPacket, TypeOK, InCall
  <2>7. CASE CallHandler
    BY <2>0, <2>7 DEF CallHandler, TypeOK, InCall
  <2> QED
    BY <2>1, <2>2, <2>3, <2>4, <2>5, <2>6, <2>7
       DEF Next, Main, Thread, CreateLink, HwInit, DeviceInit, RegisterHandler,
           ControlPipe, ControlPipeIn, CreateFails, ListPipe, OpenEndpoint,
           SetHandler, AwaitSetup, EarlyInterrupt, TxByChance, ResumeByChance, vars
<1> QED
  BY <1>1, <1>2, TypeCorrect, OpeningKeepsItsOrder, PTL DEF Spec

-----------------------------------------------------------------------------
\* The list that the interrupt's packets are found along, while it is built.
LEMMA ListStaysInOrder == Spec => [](ListInOrder /\ NoneSkipped)
<1>1. Init => ListInOrder /\ NoneSkipped
  <2> SUFFICES ASSUME Init PROVE ListInOrder /\ NoneSkipped
    OBVIOUS
  <2>1. Listed = {} /\ bound = {} /\ last = Head /\ next[Head] \notin Pipe
        /\ main = "create"
    BY PlacesInTheList DEF Init, Listed
  <2> QED
    BY <2>1 DEF ListInOrder, NoneSkipped
<1>2. TypeOK /\ BeforeThread /\ AfterThread /\ ListInOrder /\ NoneSkipped
      /\ [Next]_vars
      => (ListInOrder /\ NoneSkipped)'
  <2> SUFFICES ASSUME TypeOK, BeforeThread, AfterThread, ListInOrder, NoneSkipped,
                      [Next]_vars
               PROVE  (ListInOrder /\ NoneSkipped)'
    OBVIOUS
  <2> USE DEF ListInOrder, NoneSkipped
  <2>0. /\ next \in [Pipe \cup {Head} -> Pipe \cup {Head, Junk}]
        /\ last \in Pipe \cup {Head} /\ calls \in Pipe /\ bound \subseteq Pipe
        /\ Pipe \subseteq Nat /\ Head \notin Pipe /\ Junk \notin Pipe /\ Junk # Head
        /\ Head \in Nat /\ \A p \in Pipe : p < Head
    BY OpenAssumption DEF TypeOK, Pipe, Head, Junk
  <2>1. CASE /\ UNCHANGED <<listVars, calls, bound>>
             /\ main' = main \/ main' \in {"failed", "hw", "reset", "register", "control",
                                          "thread", "up", "handler"}
             /\ main' \in {"hw", "reset", "register", "control"}
                  => main \in {"create", "hw", "reset", "register", "control"}
    <3>1. Listed' = Listed
      BY <2>1 DEF Listed, listVars
    <3> QED
      BY <2>1, <3>1 DEF listVars
  <2>2. ASSUME NEW p \in Pipe, ListAddTail(p), \A q \in Listed : q < p, p <= calls',
               calls <= calls', UNCHANGED bound, main' \in {"open", "copy"}, p = calls'
        PROVE  (ListInOrder /\ NoneSkipped)'
    <3>1. /\ next' = [next EXCEPT ![last] = p, ![p] = Head] /\ last' = p
          /\ p \notin Listed /\ next[p] = Head /\ p # last
      BY <2>0, <2>2 DEF ListAddTail, Listed
    <3>2. /\ next'[p] = Head /\ next'[last] = p
          /\ \A q \in Pipe \cup {Head} : q # p /\ q # last => next'[q] = next[q]
      BY <2>0, <3>1
    <3>3. Listed' = Listed \cup {p}
      BY <2>0, <3>1, <3>2 DEF Listed
    <3>4. ListInOrder'
      <4>1. \A q \in Listed' : last' # Head /\ q <= last' /\ q <= calls'
        BY <2>0, <2>2, <3>1, <3>3
      <4>2. \A q \in Listed' \cup {Head} : next'[q] \in Pipe => next'[q] \in Listed'
        BY <2>0, <3>1, <3>2, <3>3 DEF Listed
      <4>3. next'[Head] # Head
        BY <2>0, <3>1, <3>2
      <4> QED
        BY <2>2, <3>1, <4>1, <4>2, <4>3
    <3>5. NoneSkipped'
      <4>1. bound' \subseteq Listed'
        BY <2>2, <3>3
      <4>2. ASSUME NEW q \in Listed' \cup {Head}, NEW r \in bound', q = Head \/ q < r
            PROVE  next'[q] = Junk \/ (next'[q] \in Pipe /\ next'[q] <= r)
        <5>1. r \in bound /\ r \in Listed /\ r < p /\ r <= last /\ last # Head
          BY <2>2
        <5>2. q # p /\ q # last /\ q \in Listed \cup {Head}
          BY <2>0, <3>3, <4>2, <5>1
        <5>3. next'[q] = next[q]
          BY <3>2, <5>2 DEF Listed
        <5>4. next[q] = Junk \/ (next[q] \in Pipe /\ next[q] <= r)
          BY <4>2, <5>1, <5>2
        <5> QED
          BY <5>3, <5>4
      <4> QED
        BY <4>1, <4>2
    <3> QED
      BY <3>4, <3>5
  <2>3. CASE ControlPipe
    <3>1. CASE UNCHANGED <<next, last>> /\ main' = "thread"
      BY <2>1, <2>3, <3>1 DEF ControlPipe, ControlPipeIn, listVars, boundVars
    <3>2. CASE ListAddTail(0) /\ main' = "open"
      <4>1. main = "control" /\ UNCHANGED <<calls, bound>>
        BY <2>3 DEF ControlPipe, ControlPipeIn, Goto, boundVars
      <4>2. Listed = {} /\ bound = {}
        BY <4>1
      <4>3. calls = 0
        BY <4>1 DEF BeforeThread, AfterThread
      <4> QED
        BY <2>2, <3>2, <4>1, <4>2, <4>3, PlacesInTheList
    <3> QED
      BY <2>3, <3>1, <3>2 DEF ControlPipe, ControlPipeIn, Goto
  <2>4. CASE ListPipe
    <3>1. /\ ListAddTail(calls + 1) /\ calls' = calls + 1 /\ calls + 1 \in Pipe
          /\ main' = "copy" /\ UNCHANGED bound
      BY <2>0, <2>4, PlacesInTheList DEF ListPipe, Goto, boundVars
    <3>2. \A q \in Listed : q < calls + 1
      BY <2>0 DEF Listed
    <3> QED
      BY <2>0, <2>2, <3>1, <3>2
  <2>5. CASE CopyPipe
    <3>1. /\ next' = [next EXCEPT ![calls] = Junk] /\ last' = last /\ calls = last
          /\ UNCHANGED <<calls, bound>> /\ main' = "open"
      BY <2>5 DEF CopyPipe, Goto, boundVars
    <3>2. /\ next'[calls] = Junk
          /\ \A q \in Pipe \cup {Head} : q # calls => next'[q] = next[q]
      BY <2>0, <3>1
    <3>3. Listed' = Listed
      BY <2>0, <3>1, <3>2 DEF Listed
    <3> QED
      BY <2>0, <3>1, <3>2, <3>3
  <2>6. CASE CreateFails
    <3>1. calls' = calls + 1 /\ main = "up" /\ main' = main /\ UNCHANGED <<next, last, bound>>
      BY <2>6 DEF CreateFails, listVars, boundVars
    <3>2. Listed' = Listed
      BY <3>1 DEF Listed
    <3> QED
      BY <2>0, <3>1, <3>2 DEF Listed
  <2>7. CASE OpenEndpoint
    <3>1. /\ main = "open" /\ main' \in {"thread", "handler"}
          /\ bound' = bound \cup {calls} /\ UNCHANGED <<next, last, calls>>
      BY <2>7 DEF OpenEndpoint, Goto, Bind, listVars
    <3>2. Listed' = Listed /\ last = calls /\ calls \in Listed
      BY <2>0, <3>1 DEF Listed
    <3>3. ASSUME NEW p \in Listed \cup {Head}, p = Head \/ p < calls
          PROVE  next[p] = Junk \/ (next[p] \in Pipe /\ next[p] <= calls)
      <4>1. next[p] # Head
        BY <2>0, <3>2, <3>3 DEF Listed
      <4>2. next[p] \in Pipe \cup {Head, Junk}
        BY <2>0 DEF Listed
      <4> QED
        BY <3>2, <4>1, <4>2
    <3> QED
      BY <3>1, <3>2, <3>3
  <2> QED
    BY <2>1, <2>3, <2>4, <2>5, <2>6, <2>7
       DEF Next, Main, Thread, CreateLink, HwInit, DeviceInit, RegisterHandler,
           CreateThread, SetHandler, AwaitSetup, Dispatch, NextPipe, PopPacket,
           CallHandler, Suspend, EarlyInterrupt, TxByChance, ResumeByChance,
           Interrupt, Goto, listVars, boundVars, vars
<1> QED
  BY <1>1, <1>2, TypeCorrect, OpeningKeepsItsOrder, PTL DEF Spec

\* A packet has been pushed for a bound pipe, when there was a thread.
LEMMA PacketsAreOfBoundPipes ==
  ASSUME TypeOK, BoundInOrder, UploadsSurviveOpening, NEW q \in Pipe, pending[q] > 0
  PROVE  q \in bound
<1>1. uploaded[q] = handled[q] + InCall(q) + pending[q]
  BY DEF UploadsSurviveOpening
<1>2. handled[q] \in Nat /\ InCall(q) \in Nat /\ pending[q] \in Nat
  BY DEF TypeOK, InCall
<1> QED
  BY <1>1, <1>2 DEF BoundInOrder

\* No packet is left to a thread that nothing resumes, whenever the interrupt
\* strikes, whatever it resumes by chance, and while pipes are opened.
THEOREM NothingSleeps == Spec => []PacketsDoNotSleep
<1> DEFINE IInv == WalksTheList /\ NothingPassed
<1>1. Init => IInv
  BY DEF Init, WalksTheList, NothingPassed
<1>2. /\ TypeOK /\ BeforeThread /\ BoundInOrder /\ UploadsSurviveOpening
      /\ ListInOrder /\ NoneSkipped /\ (ListInOrder /\ NoneSkipped)'
      /\ IInv /\ [Next]_vars
      => IInv'
  <2> SUFFICES ASSUME TypeOK, BeforeThread, BoundInOrder, UploadsSurviveOpening,
                      ListInOrder, NoneSkipped, ListInOrder', NoneSkipped',
                      IInv, [Next]_vars
               PROVE  IInv'
    OBVIOUS
  <2> USE DEF WalksTheList, NothingPassed
  <2>0. /\ next \in [Pipe \cup {Head} -> Pipe \cup {Head, Junk}]
        /\ pending \in [Pipe -> Nat] /\ wake \in BOOLEAN
        /\ Pipe \subseteq Nat /\ Head \notin Pipe /\ Junk \notin Pipe /\ Junk # Head
    BY OpenAssumption DEF TypeOK, Pipe, Head, Junk
  <2>1. CASE UNCHANGED <<listVars, threadVars, wake, pending>>
    <3>1. Listed' = Listed
      BY <2>1 DEF Listed, listVars
    <3> QED
      BY <2>1, <3>1 DEF threadVars
  <2>2. ASSUME NEW p \in Pipe, ListAddTail(p), UNCHANGED <<threadVars, wake, pending>>,
               \A q \in Listed : q # p
        PROVE  IInv'
    <3>1. Listed \subseteq Listed'
      <4>1. next' = [next EXCEPT ![last] = p, ![p] = Head] /\ last' = p
        BY <2>2 DEF ListAddTail
      <4>2. ASSUME NEW q \in Listed PROVE q \in Listed'
        <5>1. q \in Pipe /\ q # p /\ (q = last \/ next[q] # Head)
          BY <2>2 DEF Listed
        <5>2. next'[q] = IF q = last THEN p ELSE next[q]
          BY <2>0, <4>1, <5>1
        <5> QED
          BY <2>0, <5>1, <5>2 DEF Listed
      <4> QED
        BY <4>2
    <3> QED
      BY <2>2, <3>1 DEF threadVars
  <2>3. CASE ControlPipe
    <3>1. th = "none" \/ Listed = {}
      BY <2>3 DEF ControlPipe, ControlPipeIn, Goto, ListInOrder
    <3>2. UNCHANGED <<threadVars, wake, pending>>
      BY <2>3 DEF ControlPipe, ControlPipeIn, packetVars
    <3>3. (ListAddTail(0) \/ UNCHANGED listVars) /\ Listed = {}
      BY <2>3 DEF ControlPipe, ControlPipeIn, Goto, ListInOrder, listVars
    <3> QED
      BY <2>1, <2>2, <3>2, <3>3, PlacesInTheList
  <2>4. CASE ListPipe
    <3>1. /\ ListAddTail(calls + 1) /\ calls + 1 \in Pipe
          /\ UNCHANGED <<threadVars, wake, pending>>
      BY <2>4, PlacesInTheList DEF ListPipe, packetVars, TypeOK
    <3>2. \A q \in Listed : q # calls + 1
      BY <2>0 DEF ListInOrder, TypeOK, Listed
    <3> QED
      BY <2>2, <3>1, <3>2
  <2>5. CASE CopyPipe
    <3>1. /\ next' = [next EXCEPT ![calls] = Junk] /\ last' = last /\ calls = last
          /\ pending' = [pending EXCEPT ![calls] = 0] /\ calls \in Pipe
          /\ UNCHANGED <<th, at, wake>>
      BY <2>5 DEF CopyPipe, Goto, threadVars, ListInOrder, TypeOK
    <3>2. Listed' = Listed
      BY <2>0, <3>1 DEF Listed
    <3>3. \A q \in Pipe : pending'[q] > 0 => pending[q] > 0
      BY <2>0, <3>1
    <3> QED
      BY <3>1, <3>2, <3>3
  <2>6. CASE CreateThread
    <3>1. th' = "idle" /\ wake' = TRUE
      BY <2>6 DEF CreateThread
    <3> QED
      BY <3>1
  <2>7. CASE ResumeByChance
    <3>1. Listed' = Listed
      BY <2>7 DEF ResumeByChance, Listed, listVars
    <3>2. UNCHANGED <<th, at, pending>> /\ (wake' = (th # "none") \/ wake' = wake)
      BY <2>7 DEF ResumeByChance, Resume, threadVars
    <3>3. CASE wake' = wake
      BY <3>1, <3>2, <3>3
    <3>4. CASE wake' = (th # "none")
      <4>1. ~wake' => ~wake
        BY <3>4
      <4> QED
        BY <3>1, <3>2, <3>4, <4>1
    <3> QED
      BY <3>2, <3>3, <3>4
  <2>8. ASSUME NEW p \in Pipe, Interrupt(p) PROVE IInv'
    <3>1. /\ p \in bound /\ UNCHANGED <<listVars, th, at>> /\ wake' = (th # "none")
          /\ p = 0 => state = "EP0_SETUP_ST"
      BY <2>8 DEF Interrupt, Uploads, Resume, threadVars
    <3>2. th = "none" => p = 0
      BY <3>1, OpenAssumption DEF BeforeThread, BoundInOrder, Pipe
    <3>3. th # "none"
      BY <3>1, <3>2 DEF BeforeThread
    <3>4. Listed' = Listed
      BY <3>1 DEF Listed, listVars
    <3> QED
      BY <3>1, <3>3, <3>4
  <2>9. CASE Dispatch
    <3>1. /\ th' = "walk" /\ at' = next[Head] /\ UNCHANGED <<listVars, pending, bound>>
      BY <2>9 DEF Dispatch, packetVars, boundVars
    <3>2. Listed' = Listed
      BY <3>1 DEF Listed, listVars
    <3>3. at' \in Pipe => at' \in Listed
      BY <3>1 DEF ListInOrder
    <3>4. ASSUME NEW q \in Pipe, pending'[q] > 0
          PROVE  at' = Junk \/ (at' \in Pipe /\ at' <= q)
      <4>1. q \in bound
        BY <3>1, <3>4, PacketsAreOfBoundPipes
      <4> QED
        BY <3>1, <4>1 DEF NoneSkipped
    <3> QED
      BY <3>1, <3>2, <3>3, <3>4
  <2>10. CASE NextPipe
    <3>1. /\ th = "walk" /\ at \in Pipe /\ pending[at] = 0
          /\ (at' = next[at] /\ th' \in {"walk", "lost"}) \/ th' = "lost"
          /\ UNCHANGED <<listVars, pending, wake>>
      BY <2>10 DEF NextPipe, Step, packetVars
    <3>2. Listed' = Listed /\ at \in Listed
      BY <3>1 DEF Listed, listVars
    <3>3. CASE th' = "lost"
      BY <3>1, <3>3
    <3>4. CASE at' = next[at] /\ th' = "walk"
      <4>1. at' \in Pipe => at' \in Listed
        BY <3>2, <3>4 DEF ListInOrder
      <4>2. ASSUME ~wake, NEW q \in Pipe, pending'[q] > 0
            PROVE  at' = Junk \/ (at' \in Pipe /\ at' <= q)
        <5>1. q \in bound
          BY <3>1, <4>2, PacketsAreOfBoundPipes
        <5>2. at <= q /\ at # q /\ at \in Nat /\ q \in Nat
          BY <2>0, <3>1, <4>2
        <5> QED
          BY <3>2, <3>4, <5>1, <5>2 DEF NoneSkipped
      <4> QED
        BY <3>1, <3>2, <3>4, <4>1, <4>2
    <3> QED
      BY <3>1, <3>3, <3>4
  <2>11. CASE PopPacket
    <3>1. /\ th = "walk" /\ th' = "call" /\ at \in Pipe
          /\ UNCHANGED <<listVars, at, wake>>
          /\ pending' = [pending EXCEPT ![at] = @ - 1] /\ pending[at] > 0
      BY <2>11 DEF PopPacket
    <3>2. Listed' = Listed
      BY <3>1 DEF Listed, listVars
    <3>3. \A q \in Pipe : pending'[q] > 0 => pending[q] > 0
      BY <2>0, <3>1
    <3> QED
      BY <3>1, <3>2, <3>3
  <2>12. CASE CallHandler
    <3>1. th = "call" /\ th' = "walk" /\ UNCHANGED <<listVars, at, wake, pending>>
      BY <2>12 DEF CallHandler
    <3>2. Listed' = Listed
      BY <3>1 DEF Listed, listVars
    <3> QED
      BY <3>1, <3>2
  <2>13. CASE Suspend
    <3>1. /\ th = "walk" /\ at = Head /\ th' = "idle"
          /\ UNCHANGED <<listVars, at, wake, pending>>
      BY <2>13 DEF Suspend, packetVars
    <3>2. ~wake => \A q \in Pipe : ~(pending[q] > 0)
      BY <2>0, <3>1
    <3> QED
      BY <3>1, <3>2
  <2> QED
    BY <2>1, <2>3, <2>4, <2>5, <2>6, <2>7, <2>8, <2>9, <2>10, <2>11, <2>12, <2>13
       DEF Next, Main, Thread, CreateLink, HwInit, DeviceInit, RegisterHandler,
           CreateFails, OpenEndpoint, SetHandler, AwaitSetup, EarlyInterrupt,
           TxByChance, packetVars, vars
<1>3. TypeOK /\ IInv => PacketsDoNotSleep
  BY DEF TypeOK, NothingPassed, PacketsDoNotSleep
<1> QED
  BY <1>1, <1>2, <1>3, TypeCorrect, OpeningKeepsItsOrder, PacketsSurviveOpening,
     ListStaysInOrder, PTL DEF Spec

\* The list that usbd_pipe_open breaks is mended by the next one: the only link
\* that leads nowhere is the last pipe's.
THEOREM OnlyTheLastLinkBreaks == Spec => []OnlyLastLinkIsBroken
<1>1. Init => OnlyLastLinkIsBroken /\ OverwritesLast
  BY PlacesInTheList DEF Init, OnlyLastLinkIsBroken, OverwritesLast
<1>2. /\ TypeOK /\ OverwritesLast /\ OnlyLastLinkIsBroken /\ [Next]_vars
      => (OverwritesLast /\ OnlyLastLinkIsBroken)'
  <2> SUFFICES ASSUME TypeOK, OverwritesLast, OnlyLastLinkIsBroken, [Next]_vars
               PROVE  (OverwritesLast /\ OnlyLastLinkIsBroken)'
    OBVIOUS
  <2> USE PlacesInTheList DEF TypeOK, OverwritesLast, OnlyLastLinkIsBroken
  <2>1. CASE UNCHANGED <<next, last>> /\ main' # "copy"
    BY <2>1
  <2>2. CASE UNCHANGED <<next, last, main, calls>>
    BY <2>2
  <2>3. CASE ControlPipe
    BY <2>3 DEF ControlPipe, ControlPipeIn, Goto, ListAddTail
  <2>4. CASE ListPipe
    <3>1. /\ ListAddTail(calls + 1) /\ calls' = calls + 1
          /\ calls + 1 \in Pipe
      BY <2>4 DEF ListPipe
    <3> QED
      BY <3>1 DEF ListAddTail
  <2>5. CASE CopyPipe
    BY <2>5 DEF CopyPipe, Goto
  <2>6. CASE CreateFails
    BY <2>6 DEF CreateFails, listVars
  <2> QED
    BY <2>1, <2>2, <2>3, <2>4, <2>5, <2>6
       DEF Next, Main, Thread, CreateLink, HwInit, DeviceInit, RegisterHandler,
           CreateThread, OpenEndpoint, SetHandler, AwaitSetup, Dispatch, NextPipe,
           PopPacket, CallHandler, Suspend, EarlyInterrupt, TxByChance,
           ResumeByChance, Interrupt, Goto, listVars, vars
<1> QED
  BY <1>1, <1>2, TypeCorrect, PTL DEF Spec

\* Wherever the interrupt and the thread come into usbd_pipe_open: a packet meets a
\* handler that is not set after the endpoint was opened and before the handler
\* is, and at no other time but on the control pipe.
THEOREM HandlerIsMissingInOneWindow == Spec => []HandlerMissingInOneWindow
<1>1. Init => HandlerMissingInOneWindow
  BY DEF Init, HandlerMissingInOneWindow
<1>2. /\ TypeOK /\ HandsOverAPipes /\ BoundInOrder /\ UploadsSurviveOpening
      /\ HandlerMissingInOneWindow /\ [Next]_vars
      => HandlerMissingInOneWindow'
  <2> SUFFICES ASSUME TypeOK, HandsOverAPipes, BoundInOrder, UploadsSurviveOpening,
                      HandlerMissingInOneWindow, [Next]_vars
               PROVE  HandlerMissingInOneWindow'
    OBVIOUS
  <2>1. CASE UNCHANGED unset
    BY <2>1 DEF HandlerMissingInOneWindow
  <2>2. CASE CallHandler
    <3>1. th = "call" /\ at \in Pipe
      BY <2>2 DEF CallHandler, HandsOverAPipes
    <3>2. uploaded[at] # 0
      BY <3>1 DEF UploadsSurviveOpening, InCall, TypeOK
    <3>3. at = 0 \/ at \in handler \/ (at = calls /\ main = "handler")
      BY <3>1, <3>2 DEF BoundInOrder
    <3>4. CASE at \in handler
      BY <2>2, <3>4 DEF CallHandler, HandlerMissingInOneWindow
    <3>5. CASE at \notin handler
      <4> DEFINE call == <<at, IF at = calls THEN main ELSE "up">>
      <4>1. unset' = unset \cup {call}
        BY <2>2, <3>5 DEF CallHandler
      <4>2. call[1] = 0 \/ call[2] = "handler"
        BY <3>3, <3>5
      <4> HIDE DEF call
      <4> QED
        BY <4>1, <4>2 DEF HandlerMissingInOneWindow
    <3> QED
      BY <3>4, <3>5
  <2> QED
    BY <2>1, <2>2
       DEF Next, Main, Thread, CreateLink, HwInit, DeviceInit, RegisterHandler,
           ControlPipe, ControlPipeIn, CreateThread, CreateFails, ListPipe, CopyPipe,
           OpenEndpoint, SetHandler, AwaitSetup, Dispatch, NextPipe, PopPacket,
           Suspend, EarlyInterrupt, TxByChance, ResumeByChance, Interrupt,
           packetVars, vars
<1> QED
  BY <1>1, <1>2, TypeCorrect, OpeningKeepsItsOrder, PacketsSurviveOpening,
     PTL DEF Spec

\* Two of the three ways to initialize the hardware leave the controller in
\* reset for good: nothing is ever uploaded.
THEOREM DeafInReset == Spec => []DeafUnlessDeviceInit
<1> DEFINE IInv == InReset /\ DeafUnlessDeviceInit
<1>1. Init => IInv
  BY DEF Init, InReset, DeafUnlessDeviceInit
<1>2. TypeOK /\ IInv /\ [Next]_vars => IInv'
  <2> SUFFICES ASSUME TypeOK, IInv, [Next]_vars PROVE IInv'
    OBVIOUS
  <2> USE DEF InReset, DeafUnlessDeviceInit
  <2>1. CASE UNCHANGED <<path, nrst, stray, uploaded>> /\ (main' = "reset" => main = "reset")
    BY <2>1
  <2>2. CASE HwInit
    BY <2>2 DEF HwInit, Goto, packetVars
  <2>3. CASE DeviceInit
    BY <2>3 DEF DeviceInit, Goto, packetVars
  <2>4. CASE EarlyInterrupt \/ TxByChance \/ \E p \in Pipe : Interrupt(p)
    BY <2>4 DEF EarlyInterrupt, TxByChance, ResumeByChance, Interrupt, Uploads,
         driverVars
  <2> QED
    BY <2>1, <2>2, <2>3, <2>4
       DEF Next, Main, Thread, CreateLink, RegisterHandler, ControlPipe,
           ControlPipeIn, CreateThread, CreateFails, ListPipe, CopyPipe,
           OpenEndpoint, SetHandler, AwaitSetup, Dispatch, NextPipe, PopPacket,
           CallHandler, Suspend, Goto, driverVars, packetVars, vars
<1> QED
  BY <1>1, <1>2, TypeCorrect, PTL DEF Spec
=============================================================================
