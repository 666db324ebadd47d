----------------------------- MODULE MusbBridge -----------------------------
(***************************************************************************)
(* The register bridge of the controller driver (musb_phy.c).  The         *)
(* controller's registers are reached through one mailbox, CON1: an access *)
(* writes a command into it, waits for BIT(15), and a read then takes the  *)
(* data out of it.  The thread and the interrupt both use it, and the      *)
(* critical section around an access is commented out.                     *)
(***************************************************************************)
EXTENDS Naturals

CONSTANTS
  Addr,       \* register addresses
  Value,      \* what a register can hold
  MaxAccess   \* bound: accesses of the thread in a behaviour

ASSUME BridgeAssumption ==
  /\ 0 \in Value
  /\ MaxAccess \in Nat

\* What the accessors of musb_phy.h do, once or twice each.
Op == [kind : {"read", "write"}, addr : Addr, value : Value]

VARIABLES
  nrst,      \* CON0 BIT(2): the controller is out of reset
  reg,       \* the controller's registers
  con1,      \* the mailbox: the command, its progress and its data
  pc,        \* the thread: "idle", "poll", or "fetch" in an access
  op,        \* the access the thread is in, or the last one
  result,    \* what the last read of the thread returned
  accesses,  \* history: accesses the thread has begun
  answer,    \* history: what the controller answered to the thread's command
  disturbed  \* history: the interrupt has used the mailbox since it was issued

hwVars == <<nrst, reg, con1>>
histVars == <<accesses, answer, disturbed>>
vars == <<hwVars, pc, op, result, histVars>>

\* CON1: BIT(14) and the address are "cmd", the low byte is "data", and BIT(15)
\* is set in state "ready".
Con1 == [state : {"none", "issued", "ready"}, kind : {"read", "write"},
         addr : Addr, data : Value]

Init ==
  /\ nrst \in BOOLEAN
  /\ reg \in [Addr -> Value]
  /\ con1 \in {c \in Con1 : c.state = "none" /\ c.data = 0 /\ c.kind = "read"}
  /\ pc = "idle"
  /\ op \in {o \in Op : o.kind = "read" /\ o.value = 0 /\ o.addr = con1.addr}
  /\ result = 0
  /\ accesses = 0 /\ answer = 0 /\ disturbed = FALSE

-----------------------------------------------------------------------------
(* The thread: __musb_read_reg and __musb_write_reg.                       *)

\* A controller in reset is not accessed; a read returns 0.
AccessInReset(o) ==
  /\ pc = "idle" /\ ~nrst /\ accesses < MaxAccess
  /\ op' = o
  /\ result' = IF o.kind = "read" THEN 0 ELSE result
  /\ accesses' = accesses + 1
  /\ UNCHANGED <<hwVars, pc, answer, disturbed>>

\* The command is written to CON1.
Issue(o) ==
  /\ pc = "idle" /\ nrst /\ accesses < MaxAccess
  /\ con1' = [state |-> "issued", kind |-> o.kind, addr |-> o.addr,
              data |-> IF o.kind = "write" THEN o.value ELSE 0]
  /\ op' = o
  /\ pc' = "poll"
  /\ accesses' = accesses + 1
  /\ disturbed' = FALSE
  /\ UNCHANGED <<nrst, reg, result, answer>>

\* A slip: BIT(15) is not waited for.
PollOnce ==
  /\ pc = "poll"
  /\ pc' = IF op.kind = "read" THEN "fetch" ELSE "idle"
  /\ UNCHANGED <<hwVars, op, result, histVars>>

\* while ((musb->CON1 & BIT(15)) == 0);
Poll ==
  /\ pc = "poll" /\ con1.state = "ready"
  /\ pc' = IF op.kind = "read" THEN "fetch" ELSE "idle"
  /\ UNCHANGED <<hwVars, op, result, histVars>>

\* A slip: the whole of CON1 is taken, BIT(15) included.
FetchAll ==
  /\ pc = "fetch"
  /\ result' = 32768 + con1.data
  /\ pc' = "idle"
  /\ UNCHANGED <<hwVars, op, histVars>>

\* result = musb->CON1 & 0x00ff, of whatever command CON1 holds by now.
Fetch ==
  /\ pc = "fetch"
  /\ result' = con1.data
  /\ pc' = "idle"
  /\ UNCHANGED <<hwVars, op, histVars>>

-----------------------------------------------------------------------------
(* The controller (not in the repository).                                 *)

\* It carries out the command in CON1 and sets BIT(15).
Complete ==
  /\ con1.state = "issued"
  /\ IF con1.kind = "read"
       THEN /\ con1' = [con1 EXCEPT !.state = "ready", !.data = reg[con1.addr]]
            /\ answer' = reg[con1.addr]
            /\ UNCHANGED reg
       ELSE /\ con1' = [con1 EXCEPT !.state = "ready"]
            /\ reg' = [reg EXCEPT ![con1.addr] = con1.data]
            /\ UNCHANGED answer
  /\ UNCHANGED <<nrst, pc, op, result, accesses, disturbed>>

\* The USB side changes a register.
UsbChanges(a, v) ==
  /\ reg' = [reg EXCEPT ![a] = v]
  /\ UNCHANGED <<nrst, con1, pc, op, result, histVars>>

-----------------------------------------------------------------------------
(* The interrupt: one access of musb0_irq_handler or of what it calls, from *)
(* its command to its answer, at any point of the thread's access.  The     *)
(* thread's command has been carried out by then (Complete), or is dropped. *)

Interrupts(o, end) ==
  /\ nrst
  /\ IF o.kind = "read"
       THEN /\ con1' = [state |-> end, kind |-> "read", addr |-> o.addr,
                        data |-> reg[o.addr]]
            /\ UNCHANGED reg
       ELSE /\ con1' = [state |-> end, kind |-> "write", addr |-> o.addr,
                        data |-> o.value]
            /\ reg' = [reg EXCEPT ![o.addr] = o.value]
  /\ disturbed' = TRUE
  /\ UNCHANGED <<nrst, pc, op, result, accesses, answer>>

\* A slip: the interrupt clears CON1 when it is done.
InterruptClears(o) == Interrupts(o, "none")

Interrupt(o) == Interrupts(o, "ready")

-----------------------------------------------------------------------------
Next ==
  \/ \E o \in Op : AccessInReset(o)
  \/ \E o \in Op : Issue(o)
  \/ Poll
  \/ Fetch
  \/ Complete
  \/ \E a \in Addr, v \in Value : UsbChanges(a, v)
  \/ \E o \in Op : Interrupt(o)

Spec == Init /\ [][Next]_vars

\* The controller answers and the thread, which spins, gets on.
FairSpec == Spec /\ WF_vars(Complete) /\ WF_vars(Poll \/ Fetch)

-----------------------------------------------------------------------------
(* Properties.                                                             *)

\* Every variable has its type.
TypeOK ==
  /\ nrst \in BOOLEAN
  /\ reg \in [Addr -> Value]
  /\ con1 \in Con1
  /\ pc \in {"idle", "poll", "fetch"}
  /\ op \in Op
  /\ result \in Value
  /\ accesses \in 0..MaxAccess
  /\ answer \in Value
  /\ disturbed \in BOOLEAN

\* A read returns what the controller answered to it, unless the interrupt has
\* used the mailbox in between.
UndisturbedReadIsRight ==
  pc = "idle" /\ nrst /\ accesses > 0 /\ op.kind = "read" /\ ~disturbed
    => result = answer

\* A write that the thread has seen completed was carried out, unless the
\* interrupt has used the mailbox in between: its command is still in CON1 and
\* marked ready.
UndisturbedWriteIsDone ==
  pc = "idle" /\ nrst /\ accesses > 0 /\ op.kind = "write" /\ ~disturbed
    => con1.state = "ready" /\ con1.addr = op.addr /\ con1.data = op.value

\* The interrupt may take the mailbox from under a waiting thread, and the wait
\* still ends: what the interrupt leaves behind has BIT(15) set.
AccessEnds == pc # "idle" ~> pc = "idle"

\* "//ENTER_CRITICAL(int_sfr)" (musb_phy.c:93): an access to the bridge is a
\* critical section, so what a read fetches is the answer to its own command.
FetchesItsOwn ==
  pc = "fetch" => con1.kind = "read" /\ con1.addr = op.addr
=============================================================================
