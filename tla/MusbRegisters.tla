--------------------------- MODULE MusbRegisters ---------------------------
(***************************************************************************)
(* The controller's registers as data: their addresses behind the bridge   *)
(* and their bits (musb_phy.h), and those of the register model the driver *)
(* was derived from (musb_regs.h), which has another layout of the same    *)
(* controller and what the bits are called by its maker.                   *)
(*                                                                         *)
(* A bit is given by its position, a mask of several by the set of theirs. *)
(***************************************************************************)
EXTENDS Naturals

Byte == 0..255
Word == 0..65535

-----------------------------------------------------------------------------
(* musb_phy.h.                                                             *)

\* MUSB_FADDR .. MUSB_RXINTERVAL
Address ==
  [FADDR |-> 0, POWER |-> 1, INTRTX1 |-> 2, INTRTX2 |-> 3, INTRRX1 |-> 4,
   INTRRX2 |-> 5, INTRUSB |-> 6, INTRTX1E |-> 7, INTRTX2E |-> 8, INTRRX1E |-> 9,
   INTRRX2E |-> 10, INTRUSBE |-> 11, FRAME1 |-> 12, FRAME2 |-> 13, INDEX |-> 14,
   DEVCTL |-> 15, TXMAXP |-> 16, CSR0 |-> 17, TXCSR1 |-> 17, TXCSR2 |-> 18,
   RXMAXP |-> 19, RXCSR1 |-> 20, RXCSR2 |-> 21, COUNT0 |-> 22, RXCOUNT1 |-> 22,
   RXCOUNT2 |-> 23, TXTYPE |-> 24, TXINTERVAL |-> 25, RXTYPE |-> 26,
   RXINTERVAL |-> 27]

\* The bits of INTRUSB, and of the control and status registers in the role of a
\* device (P) and of a host (H).
INTRUSB ==
  [SUSPEND |-> 0, RESUME |-> 1, RESET_BABBLE |-> 2, SOF |-> 3, CON |-> 4,
   DISCON |-> 5, SESS_REQ |-> 6, VBUS_ERROR |-> 7]
CSR0P ==
  [RxPktRdy |-> 0, TxPktRdy |-> 1, SendtStall |-> 2, DataEnd |-> 3, SetupEnd |-> 4,
   SentStall |-> 5, ClrRxPktRdy |-> 6, ClrSetupEnd |-> 7]
TXCSR1P ==
  [TxPktRdy |-> 0, FIFONotEmpty |-> 1, UnderRun |-> 2, FlushFIFO |-> 3,
   SendStall |-> 4, SentStall |-> 5, ClrDataTog |-> 6]
RXCSR1P ==
  [RxPktRdy |-> 0, FIFOFull |-> 1, OverRun |-> 2, DataError |-> 3, FlushFIFO |-> 4,
   SendStall |-> 5, SentStall |-> 6, ClrDataTog |-> 7]
CSR0H ==
  [RxPktRdy |-> 0, TxPktRdy |-> 1, RxStall |-> 2, SetupPkt |-> 3, Error |-> 4,
   ReqPkt |-> 5, StatusPkt |-> 6]
TXCSR1H ==
  [TxPktRdy |-> 0, FIFONotEmpty |-> 1, Error |-> 2, FlushFIFO |-> 3, RxStall |-> 5,
   ClrDataTog |-> 6]
RXCSR1H ==
  [RxPktRdy |-> 0, FIFOFull |-> 1, Error |-> 2, DataError |-> 3, FlushFIFO |-> 4,
   ReqPkt |-> 5, RxStall |-> 6, ClrDataTog |-> 7]

\* The second bytes.
TXCSR2 == [FrcDataTog |-> 3, DMAEnab |-> 4, MODE |-> 5, ISO |-> 6, AutoSet |-> 7]
RXCSR2 == [AutoClear |-> 7, ISO |-> 6, DMAEnable |-> 5]

\* What the driver writes to CSR0, to TXCSR1 and to RXCSR1 (musb_device.c).
Csr0Writes ==
  {{CSR0P.TxPktRdy}, {CSR0P.DataEnd, CSR0P.TxPktRdy},
   {CSR0P.ClrRxPktRdy, CSR0P.DataEnd}, {CSR0P.ClrRxPktRdy, CSR0P.SentStall}}
TxCsrWrites == {{TXCSR1P.TxPktRdy}, {TXCSR1P.ClrDataTog, TXCSR1P.FlushFIFO}}
RxCsrWrites == {{RXCSR1P.FlushFIFO, RXCSR1P.ClrDataTog}}

\* A 16 bit register is read and written a byte at a time, low byte first.
\* (Writing sets all there is of a register here, reading has no effect.)
Low(value)  == value % 256
High(value) == value \div 256
ReadWord(reg, first) == reg[first] + 256 * reg[first + 1]
WriteWord(reg, first, value) ==
  [reg EXCEPT ![first] = Low(value), ![first + 1] = High(value)]

\* The registers that are accessed so.
Words == {"INTRTX1", "INTRRX1", "INTRTX1E", "INTRRX1E", "TXCSR1", "RXCSR1"}

\* __musb_read_reg_rxcount shifts the second byte by 3 only.  (The bits of a packet's
\* size of up to 256 do not meet.)
ReadRxCount(reg) == reg[Address.RXCOUNT1] + 8 * reg[Address.RXCOUNT2]

-----------------------------------------------------------------------------
(* musb_regs.h.                                                            *)

\* MUSB_EP0_FIFOSIZE
Ep0FifoSize == 64

\* The bits of POWER, INTRUSB, DEVCTL and TESTMODE.
MUSB_POWER ==
  [ISOUPDATE |-> 7, SOFTCONN |-> 6, HSENAB |-> 5, HSMODE |-> 4, RESET |-> 3,
   RESUME |-> 2, SUSPENDM |-> 1, ENSUSPEND |-> 0]
MUSB_INTR ==
  [SUSPEND |-> 0, RESUME |-> 1, RESET |-> 2, BABBLE |-> 2, SOF |-> 3, CONNECT |-> 4,
   DISCONNECT |-> 5, SESSREQ |-> 6, VBUSERROR |-> 7]
MUSB_DEVCTL ==
  [BDEVICE |-> 7, FSDEV |-> 6, LSDEV |-> 5, HM |-> 2, HR |-> 1, SESSION |-> 0]
MUSB_DEVCTL_VBUS == {3, 4}
MUSB_TEST ==
  [FORCE_HOST |-> 7, FIFO_ACCESS |-> 6, FORCE_FS |-> 5, FORCE_HS |-> 4, PACKET |-> 3,
   K |-> 2, J |-> 1, SE0_NAK |-> 0]

\* CSR0, TXCSR and RXCSR are words; those a device uses first.
MUSB_CSR0 ==
  [FLUSHFIFO |-> 8, TXPKTRDY |-> 1, RXPKTRDY |-> 0, P_SVDSETUPEND |-> 7,
   P_SVDRXPKTRDY |-> 6, P_SENDSTALL |-> 5, P_SETUPEND |-> 4, P_DATAEND |-> 3,
   P_SENTSTALL |-> 2, H_DIS_PING |-> 11, H_WR_DATATOGGLE |-> 10, H_DATATOGGLE |-> 9,
   H_NAKTIMEOUT |-> 7, H_STATUSPKT |-> 6, H_REQPKT |-> 5, H_ERROR |-> 4,
   H_SETUPPKT |-> 3, H_RXSTALL |-> 2]
MUSB_TXCSR ==
  [AUTOSET |-> 15, MODE |-> 13, DMAENAB |-> 12, FRCDATATOG |-> 11, DMAMODE |-> 10,
   CLRDATATOG |-> 6, FLUSHFIFO |-> 3, FIFONOTEMPTY |-> 1, TXPKTRDY |-> 0,
   P_ISO |-> 14, P_INCOMPTX |-> 7, P_SENTSTALL |-> 5, P_SENDSTALL |-> 4,
   P_UNDERRUN |-> 2, H_WR_DATATOGGLE |-> 9, H_DATATOGGLE |-> 8, H_NAKTIMEOUT |-> 7,
   H_RXSTALL |-> 5, H_ERROR |-> 2]
MUSB_RXCSR ==
  [AUTOCLEAR |-> 15, DMAENAB |-> 13, DISNYET |-> 12, PID_ERR |-> 12, DMAMODE |-> 11,
   INCOMPRX |-> 8, CLRDATATOG |-> 7, FLUSHFIFO |-> 4, DATAERROR |-> 3,
   FIFOFULL |-> 1, RXPKTRDY |-> 0, P_ISO |-> 14, P_SENTSTALL |-> 6,
   P_SENDSTALL |-> 5, P_OVERRUN |-> 2, H_AUTOREQ |-> 14, H_WR_DATATOGGLE |-> 10,
   H_DATATOGGLE |-> 9, H_RXSTALL |-> 6, H_REQPKT |-> 5, H_ERROR |-> 2]

\* The bits that are cleared by writing a zero.
MUSB_CSR0_P_WZC_BITS == {MUSB_CSR0.P_SENTSTALL}
MUSB_CSR0_H_WZC_BITS ==
  {MUSB_CSR0.H_NAKTIMEOUT, MUSB_CSR0.H_RXSTALL, MUSB_CSR0.RXPKTRDY}
MUSB_TXCSR_P_WZC_BITS ==
  {MUSB_TXCSR.P_INCOMPTX, MUSB_TXCSR.P_SENTSTALL, MUSB_TXCSR.P_UNDERRUN,
   MUSB_TXCSR.FIFONOTEMPTY}
MUSB_TXCSR_H_WZC_BITS ==
  {MUSB_TXCSR.H_NAKTIMEOUT, MUSB_TXCSR.H_RXSTALL, MUSB_TXCSR.H_ERROR,
   MUSB_TXCSR.FIFONOTEMPTY}
MUSB_RXCSR_P_WZC_BITS ==
  {MUSB_RXCSR.P_SENTSTALL, MUSB_RXCSR.P_OVERRUN, MUSB_RXCSR.RXPKTRDY}
MUSB_RXCSR_H_WZC_BITS ==
  {MUSB_RXCSR.H_RXSTALL, MUSB_RXCSR.H_ERROR, MUSB_RXCSR.DATAERROR,
   MUSB_RXCSR.RXPKTRDY}

\* CONFIGDATA, the registers for the size of a FIFO and for a hub's address, and
\* those of the ULPI.
MUSB_CONFIGDATA ==
  [MPRXE |-> 7, MPTXE |-> 6, BIGENDIAN |-> 5, HBRXE |-> 4, HBTXE |-> 3, DYNFIFO |-> 2,
   SOFTCONE |-> 1, UTMIDW |-> 0]
MUSB_FIFOSZ == [DPB |-> {4}, SIZE |-> 0..3]
MUSB_HUBADDR_MULTI_TT == 7
MUSB_ULPI ==
  [USE_EXTVBUS |-> 0, USE_EXTVBUSIND |-> 1, REG_REQ |-> 0, REG_CMPLT |-> 1, RDN_WR |-> 2]

\* TxType and RxType are three fields.
MUSB_TYPE ==
  [SPEED |-> {6, 7}, PROTO |-> {4, 5}, REMOTE_END |-> 0..3]

\* Where the registers are, and in an endpoint's or a target's, and which of them are
\* words.
Common ==
  [FADDR |-> 0, POWER |-> 1, INTRTX |-> 2, INTRRX |-> 4, INTRTXE |-> 6, INTRRXE |-> 8,
   INTRUSB |-> 10, INTRUSBE |-> 11, FRAME |-> 12, INDEX |-> 14, TESTMODE |-> 15]
Additional ==
  [DEVCTL |-> 96, TXFIFOSZ |-> 98, RXFIFOSZ |-> 99, TXFIFOADD |-> 100,
   RXFIFOADD |-> 102, HWVERS |-> 108, ULPI_BUSCONTROL |-> 112, ULPI_INT_MASK |-> 114,
   ULPI_INT_SRC |-> 115, ULPI_REG_DATA |-> 116, ULPI_REG_ADDR |-> 117,
   ULPI_REG_CONTROL |-> 118, ULPI_RAW_DATA |-> 119, EPINFO |-> 120, RAMINFO |-> 121,
   LINKINFO |-> 122, VPLEN |-> 123, HS_EOF1 |-> 124, FS_EOF1 |-> 125, LS_EOF1 |-> 126]
EndpointOffset ==
  [TXMAXP |-> 0, TXCSR |-> 2, RXMAXP |-> 4, RXCSR |-> 6, RXCOUNT |-> 8, TXTYPE |-> 10,
   TXINTERVAL |-> 11, RXTYPE |-> 12, RXINTERVAL |-> 13, FIFOSIZE |-> 15]
Wordwide ==
  {"INTRTX", "INTRRX", "INTRTXE", "INTRRXE", "FRAME", "TXFIFOADD", "RXFIFOADD", "HWVERS",
   "TXMAXP", "TXCSR", "RXMAXP", "RXCSR", "RXCOUNT"}
TargetOffset ==
  [TXFUNCADDR |-> 0, TXHUBADDR |-> 2, TXHUBPORT |-> 3, RXFUNCADDR |-> 4,
   RXHUBADDR |-> 6, RXHUBPORT |-> 7]

MUSB_FIFO_OFFSET(ep)            == 32 + 4 * ep
MUSB_INDEXED_OFFSET(ep, offset) == 16 + offset
MUSB_FLAT_OFFSET(ep, offset)    == 256 + 16 * ep + offset
MUSB_BUSCTL_OFFSET(ep, offset)  == 128 + 8 * ep + offset

\* The accessors of the additional registers; a word is one access of the library.
Write(reg, name, value) ==
  IF name \in Wordwide THEN WriteWord(reg, Additional[name], value)
  ELSE [reg EXCEPT ![Additional[name]] = value]
Read(reg, name) ==
  IF name \in Wordwide THEN ReadWord(reg, Additional[name]) ELSE reg[Additional[name]]

\* The accessors of the target registers: by the target's base, which is that of
\* an endpoint, to write what is received from it, and by the endpoint to do all
\* the rest.
TargetBase(ep) == MUSB_BUSCTL_OFFSET(ep, 0)
WriteAtBase(reg, base, name, value) == [reg EXCEPT ![base + TargetOffset[name]] = value]
WriteTarget(reg, ep, name, value) ==
  [reg EXCEPT ![MUSB_BUSCTL_OFFSET(ep, TargetOffset[name])] = value]
ReadTarget(reg, ep, name) == reg[MUSB_BUSCTL_OFFSET(ep, TargetOffset[name])]

\* musb_read_configdata selects endpoint 0, and leaves it selected.
ReadConfigData(reg) ==
  [result |-> reg[MUSB_INDEXED_OFFSET(0, EndpointOffset.FIFOSIZE)],
   reg    |-> [reg EXCEPT ![Common.INDEX] = 0]]
=============================================================================
