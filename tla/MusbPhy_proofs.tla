--------------------------- MODULE MusbPhy_proofs ---------------------------
(***************************************************************************)
(* Proofs about the driver's endpoints, for any pipes that may be opened,  *)
(* packets of any size an endpoint takes and any number of uploads.        *)
(***************************************************************************)
EXTENDS MusbPhy, SequenceTheorems, FiniteSetTheorems, TLAPS

\* One rx_handler call, as it is recorded.
Upload == [number : 1..(MaxNumber - 1), pipe : Kinds \cup {NoPipe}, size : 0..256,
           held : PktSizes \cup {0}, stands : BOOLEAN]
Called(s, n) == {i \in 1..Len(s) : s[i].number = n}

\* An endpoint that is being initialized is not the control endpoint, and INDEX
\* is not on that when a FIFO is flushed.
OpeningOK ==
  /\ pc # "idle" => number \in RxFifo
  /\ pc = "flush" => index \in RxFifo

\* A pipe is on the endpoint musb_hw_endpoint_init looks up.
OwnedAsLookedUp ==
  \A ep \in Place : owner[ep] # NoPipe => EndpointFor(owner[ep][1], owner[ep][2]) = ep

\* Only the endpoint enabled last has its interrupt enabled, and INDEX is on it
\* while it stands.
OnlyLatestEnabled ==
  /\ rxe \subseteq {latest}
  /\ stands => \A n \in rxe : index = n
  /\ pc = "select rx" => number = latest

\* What is latched has been received and not been uploaded.
LatchedIsUnseen ==
  \A n \in RxFifo :
    Cardinality(Called(uploads, n)) + (IF n \in latched THEN 1 ELSE 0) <= received[n]

\* A FIFO is given back by a flush only.
OneMorePerFlush ==
  \A n \in RxFifo : received[n] <= opens[n] + (IF fifo[n] = 0 THEN 0 ELSE 1)

-----------------------------------------------------------------------------
\* Where a pipe's endpoint is: in the struct, or just behind it.
LEMMA EndpointPlaces ==
  ASSUME NEW k \in Kinds
  PROVE  EndpointFor(k[1], k[2]) \in Place
<1>1. k[1] \in Type /\ k[2] \in Direction
  BY PhyAssumption
<1>2. NumberOf[k[1]] \in 0..3
  BY <1>1 DEF NumberOf, Type
<1> QED
  BY <1>1, <1>2 DEF EndpointFor, RxAt, TxAt, Place, MaxNumber

\* Every place of the struct holds an endpoint number.
LEMMA EndpointNumbers ==
  ASSUME NEW ep \in Place
  PROVE  NumbersAt(ep) \subseteq 0..MaxNumber
<1>0. CASE ep \notin Endpoint
  BY <1>0 DEF NumbersAt
<1>1. CASE ep = 0
  BY <1>1 DEF NumbersAt, TypeAt, NumberOf, Endpoint, MaxNumber
<1>2. CASE ep \in Endpoint /\ ep # 0
  <2> DEFINE Fits(t) == ep \in {RxAt(NumberOf[t] - 1), TxAt(NumberOf[t] - 1)}
  <2>1. \E t \in Type \ {"CONTROL"} : Fits(t)
    <3>1. /\ NumberOf["BULK"] = 1 /\ NumberOf["ISOC"] = 2 /\ NumberOf["INT"] = 3
          /\ {"BULK", "ISOC", "INT"} \subseteq Type \ {"CONTROL"}
      BY DEF NumberOf, Type
    <3>2. ep \in 1..6
      BY <1>2 DEF Endpoint, MaxNumber
    <3>3. Fits("BULK") \/ Fits("ISOC") \/ Fits("INT")
      BY <3>1, <3>2 DEF RxAt, TxAt, MaxNumber
    <3> QED
      BY <3>1, <3>3
  <2>2. TypeAt(ep) \in Type
    <3>1. TypeAt(ep) = CHOOSE t \in Type \ {"CONTROL"} : Fits(t)
      BY <1>2 DEF TypeAt
    <3> HIDE DEF Fits
    <3> QED
      BY <2>1, <3>1
  <2>3. NumberOf[TypeAt(ep)] \in 0..MaxNumber
    BY <2>2 DEF NumberOf, Type, MaxNumber
  <2> QED
    BY <1>2, <2>3 DEF NumbersAt
<1> QED
  BY <1>0, <1>1, <1>2

\* The index that is wrong by one and the inverted direction leave rx_endpoint[0]
\* to nobody, and rx_endpoint[1] to the bulk IN pipe.
LEMMA FirstRxEndpoints ==
  ASSUME NEW k \in Kinds
  PROVE  /\ EndpointFor(k[1], k[2]) # 1
         /\ EndpointFor(k[1], k[2]) = 2 => k = <<"BULK", "IN">>
<1>1. k = <<k[1], k[2]>> /\ k[1] \in Type /\ k[2] \in Direction
  BY PhyAssumption
<1>2. \A t \in Type : NumberOf[t] = IF t = "CONTROL" THEN 0 ELSE
                                    IF t = "BULK" THEN 1 ELSE
                                    IF t = "ISOC" THEN 2 ELSE 3
  BY DEF NumberOf, Type
<1>3. EndpointFor(k[1], k[2]) # 1
  BY <1>1, <1>2 DEF EndpointFor, RxAt, TxAt, MaxNumber, Type, Direction
<1>4. EndpointFor(k[1], k[2]) = 2 => k[1] = "BULK" /\ k[2] = "IN"
  BY <1>1, <1>2 DEF EndpointFor, RxAt, TxAt, MaxNumber, Type, Direction
<1> QED
  BY <1>1, <1>3, <1>4

\* What has been uploaded is a sequence of rx_handler calls.
LEMMA UploadsAreTyped ==
  ASSUME TypeOK
  PROVE  uploads \in Seq(Upload) /\ Len(uploads) \in Nat
<1>1. uploads \in Seq(Upload)
  BY Zenon DEF TypeOK, Upload
<1> QED
  BY <1>1, LenProperties

\* RXCOUNT as it is read is a number below 257, and right below 256.
LEMMA CountFits ==
  ASSUME TypeOK
  PROVE  /\ Count \in 0..256
         /\ index \in RxFifo /\ fifo[index] < 256 => Count = fifo[index]
<1> DEFINE size == IF index \in RxFifo THEN fifo[index] ELSE 0
<1>1. size \in 0..256
  <2>1. CASE index \in RxFifo
    <3>1. fifo[index] \in PktSizes \cup {0}
      BY <2>1 DEF TypeOK
    <3>2. PktSizes \cup {0} \subseteq 0..256
      BY PhyAssumption
    <3> QED
      BY <2>1, <3>1, <3>2
  <2>2. CASE index \notin RxFifo
    BY <2>2
  <2> QED
    BY <2>1, <2>2
<1>2. Count = (size % 256) + 8 * (size \div 256)
  BY DEF Count
<1> HIDE DEF size
<1>3. size < 256 => Count = size
  BY <1>1, <1>2
<1>4. size = 256 => Count = 8
  BY <1>2
<1> QED
  BY <1>1, <1>3, <1>4 DEF size

\* The rx_handler call that is recorded for endpoint n.
UploadNow(n) == [number |-> n, pipe |-> owner[RxAt(n - 1)], size |-> Count,
                 held |-> fifo[n], stands |-> stands]

\* It is a call as uploads records them, of this endpoint and its pipe.
LEMMA UploadNowIsTyped ==
  ASSUME TypeOK, NEW n \in 1..(MaxNumber - 1)
  PROVE  /\ UploadNow(n) \in Upload
         /\ UploadNow(n).number = n /\ UploadNow(n).size = Count
         /\ UploadNow(n).held = fifo[n] /\ UploadNow(n).stands = stands
         /\ UploadNow(n).pipe = owner[n]
<1>1. Count \in 0..256
  BY CountFits
<1>2. fifo[n] \in PktSizes \cup {0} /\ stands \in BOOLEAN
  <2>1. n \in RxFifo
    BY DEF RxFifo, MaxNumber
  <2>2. fifo \in [RxFifo -> PktSizes \cup {0}] /\ stands \in BOOLEAN
    BY Zenon DEF TypeOK
  <2> QED
    BY <2>1, <2>2
<1>3. RxAt(n - 1) = n /\ n \in Place
  BY DEF RxAt, Place, MaxNumber
<1>4. owner[RxAt(n - 1)] \in Kinds \cup {NoPipe}
  BY <1>3 DEF TypeOK
<1>5. UploadNow(n) \in Upload
  BY <1>1, <1>2, <1>4, Zenon DEF UploadNow, Upload
<1> QED
  BY <1>3, <1>5, Zenon DEF UploadNow

\* What one run of musb_rx_process uploads is one call after the other.
LEMMA UploadsAreOneByOne ==
  ASSUME TypeOK, NEW pending \in SUBSET RxFifo, NEW s \in Seq(Upload)
  PROVE  LET r == IF 1 \in pending THEN Append(s, UploadNow(1)) ELSE s
         IN  s \o UploadsOf(pending)
               = IF 2 \in pending THEN Append(r, UploadNow(2)) ELSE r
<1> DEFINE a == UploadOf(1, pending)
           b == UploadOf(2, pending)
<1>1. UploadNow(1) \in Upload /\ UploadNow(2) \in Upload
  BY UploadNowIsTyped DEF MaxNumber
<1>2. /\ a = IF 1 \in pending THEN <<UploadNow(1)>> ELSE << >>
      /\ b = IF 2 \in pending THEN <<UploadNow(2)>> ELSE << >>
  BY DEF UploadOf, UploadNow
<1>3. s \o UploadsOf(pending) = (s \o a) \o b
  <2>1. a \in Seq(Upload) /\ b \in Seq(Upload)
    <3>1. /\ <<UploadNow(1)>> \in Seq(Upload) /\ <<UploadNow(2)>> \in Seq(Upload)
          /\ << >> \in Seq(Upload)
      BY <1>1
    <3> HIDE DEF a, b
    <3> QED
      BY <1>2, <3>1, Zenon
  <2>2. UploadsOf(pending) = a \o b
    BY DEF UploadsOf
  <2>3. \A x, y, z \in Seq(Upload) : (x \o y) \o z = x \o (y \o z)
    BY ConcatAssociative
  <2> HIDE DEF a, b
  <2> QED
    BY <2>1, <2>2, <2>3
<1>4. s \o a = IF 1 \in pending THEN Append(s, UploadNow(1)) ELSE s
  <2> HIDE DEF a, b
  <2> QED
    BY <1>1, <1>2, AppendIsConcat, ConcatEmptySeq
<1> DEFINE r == s \o a
<1>5. r \in Seq(Upload)
  <2>1. Append(s, UploadNow(1)) \in Seq(Upload)
    BY <1>1, AppendProperties
  <2> QED
    BY <1>4, <2>1, Zenon
<1>6. r \o b = IF 2 \in pending THEN Append(r, UploadNow(2)) ELSE r
  <2> HIDE DEF a, b, r
  <2> QED
    BY <1>1, <1>2, <1>5, AppendIsConcat, ConcatEmptySeq
<1> QED
  BY <1>3, <1>4, <1>6

\* A call more is counted for its endpoint and for no other.
LEMMA CallsAreCounted ==
  ASSUME NEW s \in Seq(Upload), NEW u \in Upload, NEW n
  PROVE  /\ Cardinality(Called(s, n)) \in Nat
         /\ Cardinality(Called(Append(s, u), n))
              = Cardinality(Called(s, n)) + (IF u.number = n THEN 1 ELSE 0)
<1>1. Len(s) \in Nat /\ Len(s) + 1 \notin Called(s, n)
  BY LenProperties DEF Called
<1>2. IsFiniteSet(Called(s, n)) /\ Cardinality(Called(s, n)) \in Nat
  <2>1. Called(s, n) \in SUBSET (1..Len(s))
    BY DEF Called
  <2>2. IsFiniteSet(1..Len(s))
    BY <1>1, FS_Interval
  <2>3. IsFiniteSet(Called(s, n))
    BY <2>1, <2>2, FS_Subset, Zenon
  <2> QED
    BY <2>3, FS_CardinalityType, Zenon
<1>3. /\ Len(Append(s, u)) = Len(s) + 1
      /\ Append(s, u)[Len(s) + 1] = u
      /\ \A i \in 1..Len(s) : Append(s, u)[i] = s[i]
  BY AppendProperties
<1>4. Called(Append(s, u), n)
        = IF u.number = n THEN Called(s, n) \cup {Len(s) + 1} ELSE Called(s, n)
  BY <1>1, <1>3 DEF Called
<1>5. Cardinality(Called(s, n) \cup {Len(s) + 1}) = Cardinality(Called(s, n)) + 1
  BY <1>1, <1>2, FS_AddElement, Zenon
<1> QED
  BY <1>2, <1>4, <1>5

\* What is true of each call is true of what a run of musb_rx_process adds.
LEMMA OneCallMore ==
  ASSUME NEW s \in Seq(Upload), NEW u \in Upload
  PROVE  /\ Append(s, u) \in Seq(Upload)
         /\ Len(s) \in Nat /\ Len(Append(s, u)) = Len(s) + 1
         /\ \A i \in 1..Len(s) : Append(s, u)[i] = s[i]
         /\ Append(s, u)[Len(s) + 1] = u
  BY AppendProperties, LenProperties

\* A run of musb_rx_process adds calls for pending endpoints and changes none before.
LEMMA RunOfRxProcess ==
  ASSUME TypeOK, NEW pending \in SUBSET RxFifo
  PROVE  LET after == uploads \o UploadsOf(pending)
         IN  /\ after \in Seq(Upload)
             /\ Len(uploads) \in Nat /\ Len(after) \in Nat
             /\ \A i \in 1..Len(after) :
                  \/ i <= Len(uploads) /\ after[i] = uploads[i]
                  \/ /\ i > Len(uploads)
                     /\ \E n \in pending \cap (1..2) : after[i] = UploadNow(n)
             /\ \A n \in RxFifo :
                  Cardinality(Called(after, n))
                    <= Cardinality(Called(uploads, n)) + (IF n \in pending THEN 1 ELSE 0)
<1> DEFINE r == IF 1 \in pending THEN Append(uploads, UploadNow(1)) ELSE uploads
           after == IF 2 \in pending THEN Append(r, UploadNow(2)) ELSE r
<1>1. uploads \in Seq(Upload)
  BY DEF TypeOK, Upload
<1>2. /\ UploadNow(1) \in Upload /\ UploadNow(1).number = 1
      /\ UploadNow(2) \in Upload /\ UploadNow(2).number = 2
  BY UploadNowIsTyped DEF MaxNumber
<1>3. /\ r \in Seq(Upload) /\ Len(uploads) \in Nat /\ Len(r) \in Nat
      /\ \A i \in 1..Len(r) :
           \/ i <= Len(uploads) /\ r[i] = uploads[i]
           \/ i > Len(uploads) /\ 1 \in pending /\ r[i] = UploadNow(1)
  BY <1>1, <1>2, OneCallMore
<1>4. \A n : /\ Cardinality(Called(uploads, n)) \in Nat
             /\ Cardinality(Called(r, n)) = Cardinality(Called(uploads, n))
                  + (IF 1 \in pending /\ n = 1 THEN 1 ELSE 0)
  BY <1>1, <1>2, CallsAreCounted
<1> HIDE DEF r
<1>5. /\ after \in Seq(Upload) /\ Len(after) \in Nat
      /\ \A i \in 1..Len(after) :
           \/ i <= Len(r) /\ after[i] = r[i]
           \/ i > Len(r) /\ 2 \in pending /\ after[i] = UploadNow(2)
      /\ Len(uploads) <= Len(r)
  <2>1. Len(uploads) <= Len(r)
    BY <1>1, <1>2, OneCallMore DEF r
  <2> QED
    BY <1>2, <1>3, <2>1, OneCallMore
<1>6. \A n : Cardinality(Called(after, n)) = Cardinality(Called(r, n))
               + (IF 2 \in pending /\ n = 2 THEN 1 ELSE 0)
  BY <1>2, <1>3, CallsAreCounted
<1>7. uploads \o UploadsOf(pending) = after
  BY <1>1, UploadsAreOneByOne DEF r
<1> HIDE DEF after
<1>8. \A i \in 1..Len(after) :
        \/ i <= Len(uploads) /\ after[i] = uploads[i]
        \/ i > Len(uploads) /\ \E n \in pending \cap (1..2) : after[i] = UploadNow(n)
  <2> TAKE i \in 1..Len(after)
  <2>1. CASE i <= Len(r) /\ after[i] = r[i]
    BY <1>3, <1>5, <2>1
  <2>2. CASE i > Len(r) /\ 2 \in pending /\ after[i] = UploadNow(2)
    BY <1>3, <1>5, <2>2
  <2> QED
    BY <1>5, <2>1, <2>2
<1>9. \A n \in RxFifo : Cardinality(Called(after, n))
        <= Cardinality(Called(uploads, n)) + (IF n \in pending THEN 1 ELSE 0)
  BY <1>4, <1>6
<1> QED
  BY <1>3, <1>5, <1>7, <1>8, <1>9

-----------------------------------------------------------------------------
\* The type invariant: no opening leaves a pipe without an endpoint of the struct
\* or the place behind it, and rx_handler is called for endpoints 1 and 2 only.
THEOREM TypeCorrect == Spec => [](TypeOK /\ OpeningOK)
<1>1. Init => TypeOK /\ OpeningOK
  <2> SUFFICES ASSUME Init PROVE TypeOK /\ OpeningOK
    OBVIOUS
  <2>1. uploads \in Seq(Upload)
    BY EmptySeq DEF Init
  <2>2. index \in 0..MaxNumber /\ latest \in 0..MaxNumber /\ number \in 0..MaxNumber
    BY DEF Init, MaxNumber
  <2> QED
    BY <2>1, <2>2 DEF Init, TypeOK, OpeningOK, Upload
<1>2. TypeOK /\ OpeningOK /\ [Next]_vars => (TypeOK /\ OpeningOK)'
  <2> SUFFICES ASSUME TypeOK, OpeningOK, [Next]_vars PROVE (TypeOK /\ OpeningOK)'
    OBVIOUS
  <2> USE DEF OpeningOK
  <2>0. RxFifo \subseteq 0..MaxNumber /\ 0 \in 0..MaxNumber
    BY DEF RxFifo, MaxNumber
  <2>1. ASSUME NEW k \in Kinds, Open(k) PROVE (TypeOK /\ OpeningOK)'
    <3> DEFINE ep == EndpointFor(k[1], k[2])
    <3>1. ep \in Place
      BY EndpointPlaces
    <3>2. /\ number' \in 0..MaxNumber
          /\ \/ pc' = "idle"
             \/ number' # 0 /\ pc' \in {"enable", "select tx"}
      BY <2>1, <3>1, EndpointNumbers DEF Open
    <3>3. owner' = [owner EXCEPT ![ep] = k]
      BY <2>1 DEF Open
    <3> HIDE DEF ep
    <3>4. owner' \in [Place -> Kinds \cup {NoPipe}]
      BY <3>1, <3>3 DEF TypeOK
    <3>5. number' # 0 => number' \in RxFifo
      <4>1. number' \in 0..3
        BY <3>2 DEF MaxNumber
      <4> QED
        BY <4>1 DEF RxFifo, MaxNumber
    <3>6. UNCHANGED <<rxe, index, fifo, latched, histVars>>
      BY <2>1 DEF Open
    <3> QED
      BY <3>2, <3>4, <3>5, <3>6 DEF TypeOK, histVars
  <2>2. CASE Enable
    BY <2>0, <2>2 DEF Enable, EnableWith, TypeOK
  <2>3. CASE Select
    BY <2>0, <2>3 DEF Select, SelectWith, TypeOK
  <2>4. CASE Flush
    <3>1. index \in RxFifo
      BY <2>4 DEF Flush
    <3>2. /\ fifo' = [fifo EXCEPT ![index] = 0]
          /\ opens' = [opens EXCEPT ![index] = @ + 1]
          /\ fifo \in [RxFifo -> PktSizes \cup {0}] /\ opens \in [RxFifo -> Nat]
      BY <2>4, Zenon DEF Flush, TypeOK
    <3>3. fifo' \in [RxFifo -> PktSizes \cup {0}] /\ opens' \in [RxFifo -> Nat]
      BY <3>1, <3>2
    <3> QED
      BY <2>0, <2>4, <3>3 DEF Flush, TypeOK
  <2>5. ASSUME NEW n \in RxFifo, NEW size \in PktSizes, Receive(n, size)
        PROVE  (TypeOK /\ OpeningOK)'
    <3>1. /\ fifo' = [fifo EXCEPT ![n] = size]
          /\ received' = [received EXCEPT ![n] = @ + 1]
          /\ fifo \in [RxFifo -> PktSizes \cup {0}] /\ received \in [RxFifo -> Nat]
          /\ latched' = latched \cup {n} /\ latched \subseteq RxFifo
          /\ UNCHANGED <<openVars, rxe, index, opens, latest, stands, uploads>>
      BY <2>5, Zenon DEF Receive, TypeOK
    <3>2. /\ fifo' \in [RxFifo -> PktSizes \cup {0}] /\ received' \in [RxFifo -> Nat]
          /\ latched' \subseteq RxFifo
      BY <3>1
    <3> QED
      BY <3>1, <3>2 DEF TypeOK, openVars
  <2>6. CASE RxProcess
    <3>1. latched \cap rxe \in SUBSET RxFifo
      BY DEF TypeOK
    <3>2. uploads' \in Seq(Upload)
      BY <2>6, <3>1, RunOfRxProcess DEF RxProcess, RxProcessOf
    <3>3. UNCHANGED <<openVars, rxe, index, received, opens, latest, stands, fifo>>
          /\ latched' = {}
      BY <2>6 DEF RxProcess, RxProcessOf
    <3> QED
      BY <3>2, <3>3 DEF TypeOK, Upload, openVars
  <2>7. ASSUME NEW ep \in Place, SendPacket(ep) PROVE (TypeOK /\ OpeningOK)'
    <3>1. index' \in (0..MaxNumber) \ {0}
      BY <2>7, EndpointNumbers DEF SendPacket
    <3>2. index' \in 0..MaxNumber /\ index' \in RxFifo
      BY <3>1 DEF RxFifo, MaxNumber
    <3>3. stands' = FALSE
          /\ UNCHANGED <<openVars, rxe, fifo, latched, received, opens, latest, uploads>>
      BY <2>7 DEF SendPacket
    <3> QED
      BY <3>2, <3>3 DEF TypeOK, openVars
  <2>8. CASE UNCHANGED vars
    BY <2>8 DEF vars, openVars, histVars, TypeOK
  <2> QED
    BY <2>1, <2>2, <2>3, <2>4, <2>5, <2>6, <2>7, <2>8 DEF Next
<1> QED
  BY <1>1, <1>2, PTL DEF Spec

-----------------------------------------------------------------------------
\* Whatever pipes are opened, again or for the first time, and wherever in an
\* opening the interrupt strikes: it gives no packet to another than the bulk IN
\* pipe.
THEOREM OutPipesGetNothing == Spec => []OnlyBulkInIsServed
<1>1. Init => OwnedAsLookedUp /\ OnlyBulkInIsServed
  BY DEF Init, OwnedAsLookedUp, OnlyBulkInIsServed
<1>2. TypeOK /\ OwnedAsLookedUp /\ OnlyBulkInIsServed /\ [Next]_vars
        => (OwnedAsLookedUp /\ OnlyBulkInIsServed)'
  <2> SUFFICES ASSUME TypeOK, OwnedAsLookedUp, OnlyBulkInIsServed, [Next]_vars
               PROVE  (OwnedAsLookedUp /\ OnlyBulkInIsServed)'
    OBVIOUS
  <2>1. OwnedAsLookedUp'
    <3>1. ASSUME NEW k \in Kinds, Open(k) PROVE OwnedAsLookedUp'
      <4> DEFINE place == EndpointFor(k[1], k[2])
      <4>1. owner' = [owner EXCEPT ![place] = k]
        BY <3>1 DEF Open
      <4>2. \A ep \in Place : (owner'[ep] = k /\ ep = place) \/ owner'[ep] = owner[ep]
        BY <4>1 DEF TypeOK
      <4> QED
        BY <4>2 DEF OwnedAsLookedUp
    <3>2. CASE UNCHANGED owner
      BY <3>2 DEF OwnedAsLookedUp
    <3> QED
      BY <3>1, <3>2 DEF Next, Enable, EnableWith, Select, SelectWith, Flush, Receive,
           RxProcess, RxProcessOf, SendPacket, openVars, vars
  <2>2. CASE UNCHANGED uploads
    BY <2>1, <2>2 DEF OnlyBulkInIsServed
  <2>3. CASE RxProcess
    <3>1. /\ uploads' = uploads \o UploadsOf(latched \cap rxe)
          /\ latched \cap rxe \in SUBSET RxFifo
      BY <2>3 DEF RxProcess, RxProcessOf, TypeOK
    <3> SUFFICES ASSUME NEW i \in 1..Len(uploads')
                 PROVE  uploads'[i].pipe \in {<<"BULK", "IN">>, NoPipe}
      BY <2>1 DEF OnlyBulkInIsServed
    <3>2. CASE i <= Len(uploads) /\ uploads'[i] = uploads[i]
      <4>1. i \in 1..Len(uploads)
        BY <3>2, UploadsAreTyped
      <4> QED
        BY <3>2, <4>1 DEF OnlyBulkInIsServed
    <3>3. ASSUME NEW n \in (latched \cap rxe) \cap (1..2), uploads'[i] = UploadNow(n)
          PROVE  uploads'[i].pipe \in {<<"BULK", "IN">>, NoPipe}
      <4>1. n \in Place /\ n \in 1..(MaxNumber - 1)
        BY DEF Place, MaxNumber
      <4>2. uploads'[i].pipe = owner[n]
        BY <3>3, <4>1, UploadNowIsTyped
      <4>3. owner[n] \in Kinds \cup {NoPipe}
        BY <4>1 DEF TypeOK
      <4>4. CASE owner[n] # NoPipe
        <5>1. EndpointFor(owner[n][1], owner[n][2]) = n /\ owner[n] \in Kinds
          BY <4>1, <4>3, <4>4 DEF OwnedAsLookedUp
        <5>2. n = 1 \/ n = 2
          OBVIOUS
        <5>3. owner[n] = <<"BULK", "IN">>
          BY <5>1, <5>2, FirstRxEndpoints
        <5> QED
          BY <4>2, <5>3
      <4> QED
        BY <4>2, <4>4
    <3>4. \/ i <= Len(uploads) /\ uploads'[i] = uploads[i]
          \/ \E n \in (latched \cap rxe) \cap (1..2) : uploads'[i] = UploadNow(n)
      BY <3>1, RunOfRxProcess
    <3> QED
      BY <3>2, <3>3, <3>4, Zenon
  <2> QED
    BY <2>2, <2>3 DEF Next, Open, Enable, EnableWith, Select, SelectWith, Flush,
         Receive, SendPacket, vars, histVars
<1> QED
  BY <1>1, <1>2, TypeCorrect, PTL DEF Spec

-----------------------------------------------------------------------------
\* Nothing is uploaded that was not received: INTRRX1 forgets what it has told.
THEOREM NothingIsMadeUp == Spec => []UploadsWereReceived
<1>1. Init => LatchedIsUnseen
  <2> SUFFICES ASSUME Init, NEW n \in RxFifo
               PROVE  Cardinality(Called(uploads, n)) + (IF n \in latched THEN 1 ELSE 0)
                        <= received[n]
    BY DEF LatchedIsUnseen
  <2>1. Called(uploads, n) = {} /\ n \notin latched /\ received[n] = 0
    BY DEF Init, Called
  <2> QED
    BY <2>1, FS_EmptySet
<1>2. TypeOK /\ LatchedIsUnseen /\ [Next]_vars => LatchedIsUnseen'
  <2> SUFFICES ASSUME TypeOK, LatchedIsUnseen, [Next]_vars, NEW n \in RxFifo
               PROVE  Cardinality(Called(uploads', n))
                        + (IF n \in latched' THEN 1 ELSE 0) <= received'[n]
    BY DEF LatchedIsUnseen, Called
  <2>0. /\ Cardinality(Called(uploads, n)) + (IF n \in latched THEN 1 ELSE 0)
             <= received[n]
        /\ received[n] \in Nat
        /\ Cardinality(Called(uploads, n)) \in Nat
    <3>1. uploads \in Seq(Upload)
      BY DEF TypeOK, Upload
    <3>2. /\ IsFiniteSet(1..Len(uploads))
          /\ Called(uploads, n) \in SUBSET (1..Len(uploads))
      BY <3>1, LenProperties, FS_Interval DEF Called
    <3>3. Cardinality(Called(uploads, n)) \in Nat
      BY <3>2, FS_Subset, FS_CardinalityType, Zenon
    <3> QED
      BY <3>3 DEF LatchedIsUnseen, TypeOK
  <2>1. CASE UNCHANGED <<uploads, latched, received>>
    BY <2>0, <2>1
  <2>2. ASSUME NEW m \in RxFifo, NEW size \in PktSizes, Receive(m, size)
        PROVE  Cardinality(Called(uploads', n))
                 + (IF n \in latched' THEN 1 ELSE 0) <= received'[n]
    <3>1. /\ uploads' = uploads /\ latched' = latched \cup {m}
          /\ received'[n] = IF n = m THEN received[n] + 1 ELSE received[n]
      BY <2>2 DEF Receive, TypeOK
    <3> QED
      BY <2>0, <3>1
  <2>3. CASE RxProcess
    <3>1. /\ latched' = {} /\ UNCHANGED received
          /\ uploads' = uploads \o UploadsOf(latched \cap rxe)
      BY <2>3 DEF RxProcess, RxProcessOf
    <3>2. latched \cap rxe \in SUBSET RxFifo
      BY DEF TypeOK
    <3>3. Cardinality(Called(uploads', n))
            <= Cardinality(Called(uploads, n)) + (IF n \in latched \cap rxe THEN 1 ELSE 0)
          /\ uploads' \in Seq(Upload)
      BY <3>1, <3>2, RunOfRxProcess
    <3>4. Cardinality(Called(uploads', n)) \in Nat
      <4>1. /\ IsFiniteSet(1..Len(uploads'))
            /\ Called(uploads', n) \in SUBSET (1..Len(uploads'))
        BY <3>3, LenProperties, FS_Interval DEF Called
      <4> QED
        BY <4>1, FS_Subset, FS_CardinalityType, Zenon
    <3> QED
      BY <2>0, <3>1, <3>3, <3>4
  <2> QED
    BY <2>1, <2>2, <2>3 DEF Next, Open, Enable, EnableWith, Select, SelectWith, Flush,
         SendPacket, vars, histVars
<1>3. TypeOK /\ LatchedIsUnseen => UploadsWereReceived
  <2> SUFFICES ASSUME TypeOK, LatchedIsUnseen, NEW n \in RxFifo
               PROVE  Cardinality({i \in 1..Len(uploads) : uploads[i].number = n})
                        <= received[n]
    BY DEF UploadsWereReceived
  <2>1. uploads \in Seq(Upload)
    BY DEF TypeOK, Upload
  <2>2. /\ IsFiniteSet(1..Len(uploads))
        /\ Called(uploads, n) \in SUBSET (1..Len(uploads))
    BY <2>1, LenProperties, FS_Interval DEF Called
  <2>3. Cardinality(Called(uploads, n)) \in Nat
    BY <2>2, FS_Subset, FS_CardinalityType, Zenon
  <2>4. Cardinality(Called(uploads, n)) <= received[n]
    <3>1. /\ Cardinality(Called(uploads, n)) + (IF n \in latched THEN 1 ELSE 0)
               <= received[n]
          /\ received[n] \in Nat
      BY Zenon DEF LatchedIsUnseen, TypeOK
    <3> QED
      BY <2>3, <3>1
  <2> QED
    BY <2>4 DEF Called
<1> QED
  BY <1>1, <1>2, <1>3, TypeCorrect, PTL DEF Spec

\* An endpoint that is never given back takes one packet, and one more for each
\* time it is opened.
THEOREM EndpointsFillUp == Spec => []OnePacketPerOpen
<1>1. Init => OneMorePerFlush
  BY DEF Init, OneMorePerFlush
<1>2. TypeOK /\ OpeningOK /\ OneMorePerFlush /\ [Next]_vars => OneMorePerFlush'
  <2> SUFFICES ASSUME TypeOK, OpeningOK, OneMorePerFlush, [Next]_vars, NEW n \in RxFifo
               PROVE  received'[n] <= opens'[n] + (IF fifo'[n] = 0 THEN 0 ELSE 1)
    BY DEF OneMorePerFlush
  <2>0. /\ received[n] <= opens[n] + (IF fifo[n] = 0 THEN 0 ELSE 1)
        /\ received[n] \in Nat /\ opens[n] \in Nat
    BY DEF OneMorePerFlush, TypeOK
  <2>1. CASE UNCHANGED <<received, opens, fifo>>
    BY <2>0, <2>1
  <2>2. CASE Flush
    <3>1. /\ UNCHANGED received /\ index \in RxFifo
          /\ fifo'[n] = IF n = index THEN 0 ELSE fifo[n]
          /\ opens'[n] = IF n = index THEN opens[n] + 1 ELSE opens[n]
      BY <2>2 DEF Flush, TypeOK, OpeningOK
    <3> QED
      BY <2>0, <3>1
  <2>3. ASSUME NEW m \in RxFifo, NEW size \in PktSizes, Receive(m, size)
        PROVE  received'[n] <= opens'[n] + (IF fifo'[n] = 0 THEN 0 ELSE 1)
    <3>1. size # 0
      BY PhyAssumption
    <3>2. /\ fifo[m] = 0 /\ UNCHANGED opens
          /\ fifo'[n] = IF n = m THEN size ELSE fifo[n]
          /\ received'[n] = IF n = m THEN received[n] + 1 ELSE received[n]
      BY <2>3 DEF Receive, TypeOK
    <3> QED
      BY <2>0, <3>1, <3>2
  <2> QED
    BY <2>1, <2>2, <2>3 DEF Next, Open, Enable, EnableWith, Select, SelectWith,
         RxProcess, RxProcessOf, SendPacket, vars, histVars
<1>3. TypeOK /\ OneMorePerFlush => OnePacketPerOpen
  <2> SUFFICES ASSUME TypeOK, OneMorePerFlush, NEW n \in RxFifo
               PROVE  received[n] <= 1 + opens[n]
    BY DEF OnePacketPerOpen
  <2>1. received[n] \in Nat /\ opens[n] \in Nat
    BY DEF TypeOK
  <2> QED
    BY <2>1 DEF OneMorePerFlush
<1> QED
  BY <1>1, <1>2, <1>3, TypeCorrect, PTL DEF Spec

-----------------------------------------------------------------------------
\* Opening an endpoint turns the interrupt of every other one off.
LEMMA OnlyLatestIsEnabled == Spec => []OnlyLatestEnabled
<1>1. Init => OnlyLatestEnabled
  BY DEF Init, OnlyLatestEnabled
<1>2. TypeOK /\ OnlyLatestEnabled /\ [Next]_vars => OnlyLatestEnabled'
  <2> SUFFICES ASSUME TypeOK, OnlyLatestEnabled, [Next]_vars PROVE OnlyLatestEnabled'
    OBVIOUS
  <2> USE DEF OnlyLatestEnabled
  <2>1. CASE UNCHANGED <<rxe, latest, index, stands>>
             /\ (pc' # "select rx" \/ UNCHANGED <<pc, number>>)
    BY <2>1
  <2>2. CASE UNCHANGED <<rxe, latest, pc, number>> /\ stands' = FALSE
    BY <2>2
  <2>3. CASE Enable
    BY <2>3 DEF Enable, EnableWith
  <2>4. CASE Select
    BY <2>4 DEF Select, SelectWith
  <2> QED
    BY <2>1, <2>2, <2>3, <2>4
       DEF Next, Open, Flush, Receive, RxProcess, RxProcessOf, SendPacket, vars,
           openVars, histVars
<1> QED
  BY <1>1, <1>2, TypeCorrect, PTL DEF Spec

\* Of the endpoints that are open only the one enabled last uploads anything.
THEOREM OnlyTheLatestUploads == Spec => OnlyLatestUploads
<1>1. TypeOK /\ OnlyLatestEnabled /\ [Next]_vars
        => [\A i \in (Len(uploads) + 1)..Len(uploads') :
              uploads'[i].number = latest]_vars
  <2> SUFFICES ASSUME TypeOK, OnlyLatestEnabled, Next,
                      NEW i \in (Len(uploads) + 1)..Len(uploads')
               PROVE  uploads'[i].number = latest
    BY DEF vars
  <2>0. Len(uploads) \in Nat
    BY UploadsAreTyped
  <2>1. UNCHANGED uploads \/ RxProcess
    BY DEF Next, Open, Enable, EnableWith, Select, SelectWith, Flush, Receive,
           SendPacket, histVars
  <2>2. RxProcess
    BY <2>0, <2>1
  <2>3. /\ uploads' = uploads \o UploadsOf(latched \cap rxe)
        /\ latched \cap rxe \in SUBSET RxFifo
    BY <2>2 DEF RxProcess, RxProcessOf, TypeOK
  <2>4. i \in 1..Len(uploads') /\ i > Len(uploads)
    BY <2>0
  <2>5. PICK n \in (latched \cap rxe) \cap (1..2) : uploads'[i] = UploadNow(n)
    BY <2>0, <2>3, <2>4, RunOfRxProcess
  <2>6. n = latest
    BY <2>5 DEF OnlyLatestEnabled
  <2>7. uploads'[i].number = n
    BY <2>5, UploadNowIsTyped DEF MaxNumber
  <2> QED
    BY <2>6, <2>7
<1> QED
  BY <1>1, TypeCorrect, OnlyLatestIsEnabled, PTL DEF Spec, OnlyLatestUploads

\* RXCOUNT is read of the endpoint INDEX is left on, and that is the right one
\* from the end of an opening until something is sent or opened.
THEOREM CountIsRight == Spec => []CountIsRightWhileIndexStands
<1>1. Init => CountIsRightWhileIndexStands
  BY DEF Init, CountIsRightWhileIndexStands
<1>2. TypeOK /\ OnlyLatestEnabled /\ CountIsRightWhileIndexStands /\ [Next]_vars
        => CountIsRightWhileIndexStands'
  <2> SUFFICES ASSUME TypeOK, OnlyLatestEnabled, CountIsRightWhileIndexStands, [Next]_vars
               PROVE  CountIsRightWhileIndexStands'
    OBVIOUS
  <2>1. CASE UNCHANGED uploads
    BY <2>1 DEF CountIsRightWhileIndexStands
  <2>2. CASE RxProcess
    <3> SUFFICES ASSUME NEW i \in 1..Len(uploads'),
                        uploads'[i].stands, uploads'[i].held < 256
                 PROVE  uploads'[i].size = uploads'[i].held
      BY DEF CountIsRightWhileIndexStands
    <3>1. /\ uploads' = uploads \o UploadsOf(latched \cap rxe)
          /\ latched \cap rxe \in SUBSET RxFifo
      BY <2>2 DEF RxProcess, RxProcessOf, TypeOK
    <3>2. CASE i <= Len(uploads) /\ uploads'[i] = uploads[i]
      <4>1. i \in 1..Len(uploads)
        BY <3>2, UploadsAreTyped
      <4> QED
        BY <3>2, <4>1 DEF CountIsRightWhileIndexStands
    <3>3. ASSUME NEW n \in (latched \cap rxe) \cap (1..2), uploads'[i] = UploadNow(n)
          PROVE  uploads'[i].size = uploads'[i].held
      <4>1. uploads'[i].size = Count /\ uploads'[i].held = fifo[n] /\ stands
        BY <3>3 DEF UploadNow
      <4>2. index = n /\ n \in RxFifo
        BY <3>1, <4>1 DEF OnlyLatestEnabled
      <4> QED
        BY <4>1, <4>2, CountFits
    <3>4. \/ i <= Len(uploads) /\ uploads'[i] = uploads[i]
          \/ \E n \in (latched \cap rxe) \cap (1..2) : uploads'[i] = UploadNow(n)
      BY <3>1, RunOfRxProcess
    <3> QED
      BY <3>2, <3>3, <3>4, Zenon
  <2> QED
    BY <2>1, <2>2 DEF Next, Open, Enable, EnableWith, Select, SelectWith, Flush,
         Receive, SendPacket, vars, histVars
<1> QED
  BY <1>1, <1>2, TypeCorrect, OnlyLatestIsEnabled, PTL DEF Spec
=============================================================================
