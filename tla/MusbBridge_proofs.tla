-------------------------- MODULE MusbBridge_proofs --------------------------
(***************************************************************************)
(* Proofs about the register bridge, for any registers, any values and any *)
(* number of accesses, and about the registers behind it as the headers    *)
(* define them.                                                            *)
(***************************************************************************)
EXTENDS MusbBridge, MusbRegisters, TLAPS

\* The wait comes to an end only if what CON1 holds is under way or done: and
\* what is fetched is done.
MailboxInUse ==
  /\ pc = "poll" => con1.state \in {"issued", "ready"}
  /\ pc = "fetch" => con1.state = "ready" /\ op.kind = "read"

\* Until the interrupt uses it, the mailbox holds the thread's last command,
\* and its answer once there is one.
MailboxIsOurs ==
  nrst /\ accesses > 0 /\ ~disturbed =>
    /\ con1.kind = op.kind /\ con1.addr = op.addr
    /\ op.kind = "write" => con1.data = op.value
    /\ op.kind = "read" /\ con1.state = "ready" => con1.data = answer
    /\ pc = "idle" => con1.state = "ready"
    /\ pc = "idle" /\ op.kind = "read" => result = answer

\* A controller in reset stays there, and the thread does not wait for it.
NoWaitInReset == ~nrst => pc = "idle"

-----------------------------------------------------------------------------
\* The type invariant of the bridge: a result, an answer and the mailbox's data
\* are always values of a register.
THEOREM TypeCorrect == Spec => []TypeOK
<1>1. Init => TypeOK
  <2> SUFFICES ASSUME Init PROVE TypeOK
    OBVIOUS
  <2>1. con1 \in Con1
    BY DEF Init
  <2>2. op \in Op
    BY DEF Init
  <2>3. accesses \in 0..MaxAccess
    BY BridgeAssumption DEF Init
  <2> QED
    BY <2>1, <2>2, <2>3, BridgeAssumption DEF Init, TypeOK
<1> USE BridgeAssumption DEF TypeOK, Con1, Op
<1>2. TypeOK /\ [Next]_vars => TypeOK'
  <2> SUFFICES ASSUME TypeOK, [Next]_vars PROVE TypeOK'
    OBVIOUS
  <2>1. ASSUME NEW o \in Op, AccessInReset(o) PROVE TypeOK'
    BY <2>1 DEF AccessInReset, hwVars
  <2>2. ASSUME NEW o \in Op, Issue(o) PROVE TypeOK'
    <3>1. con1' \in Con1
      BY <2>2 DEF Issue
    <3>2. op' \in Op /\ accesses' \in 0..MaxAccess /\ pc' = "poll" /\ disturbed' = FALSE
      BY <2>2 DEF Issue
    <3> QED
      BY <2>2, <3>1, <3>2 DEF Issue
  <2>3. CASE Poll
    BY <2>3 DEF Poll, hwVars, histVars
  <2>4. CASE Fetch
    BY <2>4 DEF Fetch, hwVars, histVars
  <2>5. CASE Complete
    <3>1. reg[con1.addr] \in Value
      OBVIOUS
    <3>2. con1' \in Con1
      BY <2>5, <3>1 DEF Complete
    <3>3. reg' \in [Addr -> Value] /\ answer' \in Value
      BY <2>5, <3>1 DEF Complete
    <3> QED
      BY <2>5, <3>2, <3>3 DEF Complete
  <2>6. ASSUME NEW a \in Addr, NEW v \in Value, UsbChanges(a, v) PROVE TypeOK'
    BY <2>6 DEF UsbChanges, histVars
  <2>7. ASSUME NEW o \in Op, Interrupt(o) PROVE TypeOK'
    <3>1. con1' \in Con1
      BY <2>7 DEF Interrupt, Interrupts
    <3>2. reg' \in [Addr -> Value]
      BY <2>7 DEF Interrupt, Interrupts
    <3> QED
      BY <2>7, <3>1, <3>2 DEF Interrupt, Interrupts
  <2>8. CASE UNCHANGED vars
    BY <2>8 DEF vars, hwVars, histVars
  <2> QED
    BY <2>1, <2>2, <2>3, <2>4, <2>5, <2>6, <2>7, <2>8 DEF Next
<1> QED
  BY <1>1, <1>2, PTL DEF Spec

-----------------------------------------------------------------------------
\* The mailbox is the thread's own from its command on, until the interrupt
\* comes.
THEOREM MailboxHoldsTheCommand ==
  Spec => [](MailboxInUse /\ MailboxIsOurs /\ NoWaitInReset)
<1> DEFINE IInv == MailboxInUse /\ MailboxIsOurs /\ NoWaitInReset
<1> USE DEF MailboxInUse, MailboxIsOurs, NoWaitInReset
<1>1. Init => IInv
  BY DEF Init
<1>2. TypeOK /\ IInv /\ [Next]_vars => IInv'
  <2> SUFFICES ASSUME TypeOK, IInv, [Next]_vars PROVE IInv'
    OBVIOUS
  <2> USE DEF TypeOK, Con1, Op
  <2>1. ASSUME NEW o \in Op, AccessInReset(o) PROVE IInv'
    BY <2>1 DEF AccessInReset, hwVars
  <2>2. ASSUME NEW o \in Op, Issue(o) PROVE IInv'
    BY <2>2 DEF Issue
  <2>3. CASE Poll
    BY <2>3 DEF Poll, hwVars, histVars
  <2>4. CASE Fetch
    BY <2>4 DEF Fetch, hwVars, histVars
  <2>5. CASE Complete
    <3>1. CASE con1.kind = "read"
      BY <2>5, <3>1 DEF Complete
    <3>2. CASE con1.kind = "write"
      BY <2>5, <3>2 DEF Complete
    <3> QED
      BY <3>1, <3>2
  <2>6. ASSUME NEW a \in Addr, NEW v \in Value, UsbChanges(a, v) PROVE IInv'
    BY <2>6 DEF UsbChanges, histVars
  <2>7. ASSUME NEW o \in Op, Interrupt(o) PROVE IInv'
    <3>1. con1'.state = "ready" /\ disturbed' /\ nrst /\ nrst'
      BY <2>7 DEF Interrupt, Interrupts
    <3>2. UNCHANGED <<pc, op>>
      BY <2>7 DEF Interrupt, Interrupts
    <3> QED
      BY <3>1, <3>2
  <2>8. CASE UNCHANGED vars
    BY <2>8 DEF vars, hwVars, histVars
  <2> QED
    BY <2>1, <2>2, <2>3, <2>4, <2>5, <2>6, <2>7, <2>8 DEF Next
<1> QED
  BY <1>1, <1>2, TypeCorrect, PTL DEF Spec

\* A read the interrupt stays out of returns what the controller answered to it,
\* although the mailbox is shared and the access is not atomic.
THEOREM UndisturbedReads == Spec => []UndisturbedReadIsRight
<1>1. MailboxIsOurs => UndisturbedReadIsRight
  BY DEF MailboxIsOurs, UndisturbedReadIsRight
<1> QED
  BY <1>1, MailboxHoldsTheCommand, PTL

\* A write the interrupt stays out of has been carried out when the thread goes
\* on.
THEOREM UndisturbedWrites == Spec => []UndisturbedWriteIsDone
<1>1. MailboxIsOurs => UndisturbedWriteIsDone
  BY DEF MailboxIsOurs, UndisturbedWriteIsDone
<1> QED
  BY <1>1, MailboxHoldsTheCommand, PTL

-----------------------------------------------------------------------------
(* Registers behind the bridge.                                            *)

\* No two registers of musb_phy.h share an address, but those that are one
\* register for the control endpoint and another for the rest: which of the two an
\* access means is decided by INDEX.
THEOREM AddressesAreShared ==
  ASSUME NEW r \in DOMAIN Address, NEW s \in DOMAIN Address,
         r # s, Address[r] = Address[s]
  PROVE  {r, s} = {"CSR0", "TXCSR1"} \/ {r, s} = {"COUNT0", "RXCOUNT1"}
BY DEF Address

\* The bytes of a word follow each other, and no two words have one in common.
THEOREM WordsAreApart ==
  ASSUME NEW w \in Words
  PROVE  /\ w \in DOMAIN Address
         /\ Address[w] + 1 \in 0..27
         /\ \A v \in Words \ {w} :
              Address[v] # Address[w] /\ Address[v] + 1 # Address[w]
              /\ Address[v] # Address[w] + 1
BY DEF Words, Address

\* A word is its two bytes.
LEMMA Bytes ==
  ASSUME NEW value \in Word
  PROVE  Low(value) \in Byte /\ High(value) \in Byte
         /\ Low(value) + 256 * High(value) = value
BY DEF Word, Byte, Low, High

\* A word that was written byte by byte is read as it was written, and writing it
\* changes no other word.
THEOREM WordsAreKept ==
  ASSUME NEW regs \in [0..27 -> Byte], NEW w \in Words, NEW value \in Word
  PROVE  LET new == WriteWord(regs, Address[w], value)
         IN  /\ new \in [0..27 -> Byte]
             /\ ReadWord(new, Address[w]) = value
             /\ \A v \in Words \ {w} :
                  ReadWord(new, Address[v]) = ReadWord(regs, Address[v])
<1> DEFINE a   == Address[w]
           new == WriteWord(regs, a, value)
<1>1. /\ a \in 0..27 /\ a + 1 \in 0..27 /\ a # a + 1
      /\ \A v \in Words \ {w} :
           /\ Address[v] \in 0..27 /\ Address[v] + 1 \in 0..27
           /\ Address[v] # a /\ Address[v] + 1 # a /\ Address[v] # a + 1
           /\ Address[v] + 1 # a + 1
  BY DEF Words, Address
<1>2. Low(value) \in Byte /\ High(value) \in Byte
      /\ Low(value) + 256 * High(value) = value
  BY Bytes
<1> HIDE DEF a
<1>3. /\ new \in [0..27 -> Byte]
      /\ new[a] = Low(value) /\ new[a + 1] = High(value)
      /\ \A b \in (0..27) \ {a, a + 1} : new[b] = regs[b]
  BY <1>1, <1>2 DEF WriteWord
<1>4. ReadWord(new, a) = value
  BY <1>2, <1>3 DEF ReadWord
<1>5. ASSUME NEW v \in Words \ {w}
      PROVE  ReadWord(new, Address[v]) = ReadWord(regs, Address[v])
  <2>1. Address[v] \in (0..27) \ {a, a + 1} /\ Address[v] + 1 \in (0..27) \ {a, a + 1}
    BY <1>1
  <2> QED  BY <2>1, <1>3 DEF ReadWord
<1> QED  BY <1>3, <1>4, <1>5 DEF a

\* Of the sizes a packet may have, __musb_read_reg_rxcount gets one wrong: the 256
\* bytes an isochronous endpoint takes are read as 8.
THEOREM RxCountIsWrongAt256 ==
  ASSUME NEW regs \in [0..27 -> Byte], NEW size \in 0..256,
         regs[Address.RXCOUNT1] = Low(size), regs[Address.RXCOUNT2] = High(size)
  PROVE  ReadRxCount(regs) = IF size = 256 THEN 8 ELSE size
BY DEF ReadRxCount, Low, High

\* The driver calls the bits of its control and status registers what the maker
\* calls them, in one byte what he has in the low byte of a word and in another
\* what he has in the high byte, but for two: what it takes for SentStall of the
\* control endpoint, and stops the pipe for (musb_phy.c:160), is SendStall.
THEOREM BitsAreTheMakers ==
  /\ CSR0P.RxPktRdy = MUSB_CSR0.RXPKTRDY /\ CSR0P.TxPktRdy = MUSB_CSR0.TXPKTRDY
  /\ CSR0P.DataEnd = MUSB_CSR0.P_DATAEND /\ CSR0P.SetupEnd = MUSB_CSR0.P_SETUPEND
  /\ CSR0P.ClrRxPktRdy = MUSB_CSR0.P_SVDRXPKTRDY
  /\ CSR0P.ClrSetupEnd = MUSB_CSR0.P_SVDSETUPEND
  /\ CSR0P.SentStall = MUSB_CSR0.P_SENDSTALL
  /\ CSR0P.SendtStall = MUSB_CSR0.P_SENTSTALL
  /\ TXCSR1P.TxPktRdy = MUSB_TXCSR.TXPKTRDY
  /\ TXCSR1P.FIFONotEmpty = MUSB_TXCSR.FIFONOTEMPTY
  /\ TXCSR1P.UnderRun = MUSB_TXCSR.P_UNDERRUN
  /\ TXCSR1P.FlushFIFO = MUSB_TXCSR.FLUSHFIFO
  /\ TXCSR1P.SendStall = MUSB_TXCSR.P_SENDSTALL
  /\ TXCSR1P.SentStall = MUSB_TXCSR.P_SENTSTALL
  /\ TXCSR1P.ClrDataTog = MUSB_TXCSR.CLRDATATOG
  /\ TXCSR2.ISO + 8 = MUSB_TXCSR.P_ISO /\ TXCSR2.MODE + 8 = MUSB_TXCSR.MODE
  /\ TXCSR2.FrcDataTog + 8 = MUSB_TXCSR.FRCDATATOG
  /\ TXCSR2.DMAEnab + 8 = MUSB_TXCSR.DMAENAB /\ TXCSR2.AutoSet + 8 = MUSB_TXCSR.AUTOSET
  /\ RXCSR1P.RxPktRdy = MUSB_RXCSR.RXPKTRDY /\ RXCSR1P.FIFOFull = MUSB_RXCSR.FIFOFULL
  /\ RXCSR1P.OverRun = MUSB_RXCSR.P_OVERRUN
  /\ RXCSR1P.DataError = MUSB_RXCSR.DATAERROR
  /\ RXCSR1P.FlushFIFO = MUSB_RXCSR.FLUSHFIFO
  /\ RXCSR1P.SendStall = MUSB_RXCSR.P_SENDSTALL
  /\ RXCSR1P.SentStall = MUSB_RXCSR.P_SENTSTALL
  /\ RXCSR1P.ClrDataTog = MUSB_RXCSR.CLRDATATOG
  /\ RXCSR2.ISO + 8 = MUSB_RXCSR.P_ISO /\ RXCSR2.DMAEnable + 8 = MUSB_RXCSR.DMAENAB
  /\ RXCSR2.AutoClear + 8 = MUSB_RXCSR.AUTOCLEAR
BY DEF CSR0P, TXCSR1P, RXCSR1P, TXCSR2, RXCSR2, MUSB_CSR0, MUSB_TXCSR, MUSB_RXCSR

\* Nothing the driver writes spares the flags that a zero clears: whenever a packet
\* is made ready or an endpoint is opened, what the controller had to report of it,
\* SentStall on the control endpoint for one, is lost if it was not read before.
THEOREM WritesClearTheFlags ==
  /\ \A bits \in Csr0Writes : bits \cap MUSB_CSR0_P_WZC_BITS = {}
  /\ \A bits \in TxCsrWrites : bits \cap MUSB_TXCSR_P_WZC_BITS = {}
  /\ \A bits \in RxCsrWrites : bits \cap MUSB_RXCSR_P_WZC_BITS = {}
<1>1. \A bits \in Csr0Writes : bits \cap MUSB_CSR0_P_WZC_BITS = {}
  BY DEF Csr0Writes, CSR0P, MUSB_CSR0, MUSB_CSR0_P_WZC_BITS
<1>2. \A bits \in TxCsrWrites : bits \cap MUSB_TXCSR_P_WZC_BITS = {}
  BY DEF TxCsrWrites, TXCSR1P, MUSB_TXCSR, MUSB_TXCSR_P_WZC_BITS
<1>3. \A bits \in RxCsrWrites : bits \cap MUSB_RXCSR_P_WZC_BITS = {}
  BY DEF RxCsrWrites, RXCSR1P, MUSB_RXCSR, MUSB_RXCSR_P_WZC_BITS
<1> QED  BY <1>1, <1>2, <1>3

\* __musb_ep0_tx_flush tests CSR0P_TxPktRdy and __musbd_csr0_tx_end writes
\* CSR0P_DataEnd: with INDEX on another endpoint they are FIFONotEmpty and FlushFIFO.
THEOREM Csr0OfAnotherEndpoint ==
  /\ Address.CSR0 = Address.TXCSR1
  /\ CSR0P.TxPktRdy = TXCSR1P.FIFONotEmpty
  /\ CSR0P.DataEnd = TXCSR1P.FlushFIFO
  /\ CSR0P.TxPktRdy # TXCSR1P.TxPktRdy
BY DEF Address, CSR0P, TXCSR1P

-----------------------------------------------------------------------------
(* The maker's register model.                                             *)

\* For the sixteen endpoints there can be, the FIFOs, the target registers and the
\* flat registers lie apart from each other and from the common registers, and
\* where a register is says whose it is.
THEOREM RegistersAreApart ==
  ASSUME NEW e \in 0..15, NEW f \in 0..15,
         NEW r \in 0..15, NEW s \in 0..15, NEW t \in 0..7, NEW u \in 0..7
  PROVE  /\ MUSB_INDEXED_OFFSET(e, r) \in 16..31
         /\ MUSB_FIFO_OFFSET(e) + 3 < 96 /\ MUSB_FIFO_OFFSET(e) > 31
         /\ 127 < MUSB_BUSCTL_OFFSET(e, t) /\ MUSB_BUSCTL_OFFSET(e, t) < 256
         /\ MUSB_FLAT_OFFSET(e, r) > 255
         /\ MUSB_FIFO_OFFSET(e) = MUSB_FIFO_OFFSET(f) => e = f
         /\ MUSB_BUSCTL_OFFSET(e, t) = MUSB_BUSCTL_OFFSET(f, u) => e = f /\ t = u
         /\ MUSB_FLAT_OFFSET(e, r) = MUSB_FLAT_OFFSET(f, s) => e = f /\ r = s
BY DEF MUSB_INDEXED_OFFSET, MUSB_FIFO_OFFSET, MUSB_BUSCTL_OFFSET, MUSB_FLAT_OFFSET

\* No register of the model lies on another, nor on the second byte of a word.
THEOREM RegistersDoNotOverlap ==
  /\ \A r, s \in DOMAIN Common : r # s =>
       Common[r] # Common[s] /\ (r \in Wordwide => Common[s] # Common[r] + 1)
  /\ \A r, s \in DOMAIN Additional : r # s =>
       /\ Additional[r] # Additional[s]
       /\ r \in Wordwide => Additional[s] # Additional[r] + 1
  /\ \A r, s \in DOMAIN EndpointOffset : r # s =>
       /\ EndpointOffset[r] # EndpointOffset[s]
       /\ r \in Wordwide => EndpointOffset[s] # EndpointOffset[r] + 1
<1>1. \A r, s \in DOMAIN Common : r # s =>
        Common[r] # Common[s] /\ (r \in Wordwide => Common[s] # Common[r] + 1)
  BY DEF Common, Wordwide
<1>2. \A r, s \in DOMAIN Additional : r # s =>
        /\ Additional[r] # Additional[s]
        /\ r \in Wordwide => Additional[s] # Additional[r] + 1
  BY DEF Additional, Wordwide
<1>3. \A r, s \in DOMAIN EndpointOffset : r # s =>
        /\ EndpointOffset[r] # EndpointOffset[s]
        /\ r \in Wordwide => EndpointOffset[s] # EndpointOffset[r] + 1
  BY DEF EndpointOffset, Wordwide
<1> QED  BY <1>1, <1>2, <1>3

\* What is written to one of the additional registers is read from it, and the
\* others stay as they are.
THEOREM AdditionalAreKept ==
  ASSUME NEW regs \in [0..511 -> Byte], NEW n \in DOMAIN Additional,
         NEW m \in DOMAIN Additional, n # m,
         NEW value \in IF n \in Wordwide THEN Word ELSE Byte
  PROVE  /\ Read(Write(regs, n, value), n) = value
         /\ Read(Write(regs, n, value), m) = Read(regs, m)
<1> DEFINE a == Additional[n]
           b == Additional[m]
<1>1. /\ a \in 0..510 /\ b \in 0..510 /\ a # b
      /\ n \in Wordwide => b # a + 1
      /\ m \in Wordwide => a # b + 1
  <2>1. a \in 0..510 /\ b \in 0..510
    BY DEF Additional
  <2> QED  BY <2>1, RegistersDoNotOverlap
<1> HIDE DEF a, b
<1>2. CASE n \in Wordwide
  <2> DEFINE one == [regs EXCEPT ![a] = Low(value)]
             new == [one EXCEPT ![a + 1] = High(value)]
  <2>1. value \in Word /\ a \in 0..511 /\ a + 1 \in 0..511 /\ a # a + 1
    BY <1>1, <1>2
  <2>2. /\ DOMAIN one = 0..511 /\ one[a] = Low(value)
        /\ \A c \in (0..511) \ {a} : one[c] = regs[c]
    BY <2>1
  <2> HIDE DEF one
  <2>3. /\ new[a + 1] = High(value)
        /\ \A c \in (0..511) \ {a + 1} : new[c] = one[c]
    BY <2>1, <2>2
  <2>4. new = WriteWord(regs, a, value)
    BY DEF WriteWord, one
  <2> HIDE DEF new
  <2>5. new[a] = Low(value)
    BY <2>1, <2>2, <2>3
  <2>6. \A c \in (0..511) \ {a, a + 1} : new[c] = regs[c]
    BY <2>2, <2>3
  <2>7. ReadWord(new, a) = value
    BY <2>1, <2>3, <2>5, Bytes DEF ReadWord
  <2>8. b \in (0..511) \ {a, a + 1}
        /\ (m \in Wordwide => b + 1 \in (0..511) \ {a, a + 1})
    BY <1>1, <1>2
  <2>9. (IF m \in Wordwide THEN ReadWord(new, b) ELSE new[b])
          = IF m \in Wordwide THEN ReadWord(regs, b) ELSE regs[b]
    BY <2>6, <2>8 DEF ReadWord
  <2> QED  BY <1>2, <2>4, <2>7, <2>9 DEF Read, Write, a, b
<1>3. CASE n \notin Wordwide
  <2> DEFINE new == [regs EXCEPT ![a] = value]
  <2>1. new[a] = value /\ \A c \in (0..511) \ {a} : new[c] = regs[c]
    BY <1>1
  <2>2. b \in (0..511) \ {a} /\ (m \in Wordwide => b + 1 \in (0..511) \ {a})
    BY <1>1
  <2>3. (IF m \in Wordwide THEN ReadWord(new, b) ELSE new[b])
          = IF m \in Wordwide THEN ReadWord(regs, b) ELSE regs[b]
    BY <2>1, <2>2 DEF ReadWord
  <2> HIDE DEF new
  <2> QED  BY <1>3, <2>1, <2>3 DEF Read, Write, a, b, new
<1> QED  BY <1>2, <1>3

\* What is written to a target register, by its endpoint or by the target's base, is
\* what is read from it, and every other target register of every other endpoint
\* stays as it is.
THEOREM TargetsAreKept ==
  ASSUME NEW regs \in [0..511 -> Byte], NEW value \in Byte,
         NEW e \in 0..15, NEW f \in 0..15,
         NEW n \in DOMAIN TargetOffset, NEW m \in DOMAIN TargetOffset
  PROVE  /\ WriteAtBase(regs, TargetBase(e), n, value) = WriteTarget(regs, e, n, value)
         /\ ReadTarget(WriteTarget(regs, e, n, value), e, n) = value
         /\ <<f, m>> # <<e, n>> =>
              ReadTarget(WriteTarget(regs, e, n, value), f, m) = ReadTarget(regs, f, m)
<1>1. /\ TargetOffset[n] \in 0..7 /\ TargetOffset[m] \in 0..7
      /\ n # m => TargetOffset[n] # TargetOffset[m]
  BY DEF TargetOffset
<1> DEFINE a == MUSB_BUSCTL_OFFSET(e, TargetOffset[n])
           b == MUSB_BUSCTL_OFFSET(f, TargetOffset[m])
<1>2. a \in 0..511 /\ b \in 0..511 /\ TargetBase(e) + TargetOffset[n] = a
  BY <1>1 DEF MUSB_BUSCTL_OFFSET, TargetBase
<1>3. <<f, m>> # <<e, n>> => a # b
  BY <1>1 DEF MUSB_BUSCTL_OFFSET
<1> HIDE DEF a, b
<1>4. /\ [regs EXCEPT ![a] = value][a] = value
      /\ a # b => [regs EXCEPT ![a] = value][b] = regs[b]
  BY <1>2
<1> QED  BY <1>2, <1>3, <1>4 DEF WriteAtBase, WriteTarget, ReadTarget, a, b
=============================================================================
