--------------------------- MODULE MusbTx_proofs ---------------------------
(***************************************************************************)
(* Proofs about transmission in the driver, for any endpoints, any table   *)
(* of string descriptors and any number of packets.                        *)
(***************************************************************************)
EXTENDS MusbTx, SequenceTheorems, WellFoundedInduction, TLAPS

-----------------------------------------------------------------------------
(* The table of string descriptors.  Start and Walk are recursive: that    *)
(* they are what their equations say, and what they compute, is shown by   *)
(* looking at the smallest number for which it were not so.                *)

Length == Len(Strings)

\* The lengths in the table of strings are those the code can walk over.
LEMMA TableHasLengths ==
  /\ Length \in Nat /\ Strings \in Seq(2..255)
  /\ \A i \in 1..Length : Strings[i] \in 2..255
BY TxAssumption, LenProperties, ElementOfSeq DEF Length

\* A set of numbers that is not empty has a smallest one.
LEMMA Least ==
  ASSUME NEW T, T \subseteq Nat, T # {}
  PROVE  \E n \in T : \A m \in T : n <= m
<1> DEFINE R == OpToRel(<, Nat)
<1>1. IsWellFoundedOn(R, Nat)
  BY NatLessThanWellFounded
<1>2. \A x, y \in Nat : x < y => <<x, y>> \in R
  BY DEF OpToRel
<1> HIDE DEF R
<1>3. PICK n \in T : \A m \in T : ~ <<m, n>> \in R
  BY <1>1, WFMin
<1>4. n \in Nat /\ \A m \in T : m \in Nat
  OBVIOUS
<1>5. \A m \in T : ~(m < n)
  BY <1>2, <1>3, <1>4
<1>6. \A m \in T : n <= m
  BY <1>4, <1>5
<1> QED  BY <1>6

\* What holds of 0, and of a number's successor if of the number, holds up to N.
LEMMA CountingUp ==
  ASSUME NEW N \in Nat, NEW S, 0 \in S,
         \A n \in 0..N : n # N /\ n \in S => n + 1 \in S
  PROVE  \A n \in 0..N : n \in S
<1> DEFINE T == (0..N) \ S
<1> SUFFICES ASSUME T # {} PROVE FALSE
  OBVIOUS
<1>1. T \subseteq Nat /\ \A n \in T : n \in 0..N /\ n \notin S
  OBVIOUS
<1>2. \A n \in 0..N : n \notin S => n \in T
  OBVIOUS
<1> HIDE DEF T
<1>3. PICK n \in T : \A m \in T : n <= m
  BY <1>1, Least
<1>4. n \in 0..N /\ n \notin S /\ n # 0
  BY <1>1, <1>3
<1>5. n - 1 \in 0..N /\ n - 1 # N /\ n - 1 \notin T /\ (n - 1) + 1 = n
  <2>1. n - 1 \in 0..N /\ n - 1 # N /\ ~(n <= n - 1) /\ (n - 1) + 1 = n
    BY <1>4
  <2> QED  BY <1>3, <2>1
<1>6. n - 1 \in S
  BY <1>2, <1>5
<1> QED  BY <1>4, <1>5, <1>6

\* The table's offsets up to the n-th exist.
LEMMA OffsetsExist ==
  \A n \in 0..Length : \E f :
    f = [i \in 0..n |-> IF i = 0 THEN 0 ELSE f[i - 1] + Strings[i]]
<1> DEFINE Defines(f, n) == f = [i \in 0..n |-> IF i = 0 THEN 0 ELSE f[i - 1] + Strings[i]]
           S == {n \in 0..Length : \E f : Defines(f, n)}
<1>1. 0 \in S
  <2> DEFINE g == [i \in 0..0 |-> 0]
  <2>1. g = [i \in 0..0 |-> IF i = 0 THEN 0 ELSE g[i - 1] + Strings[i]]
    OBVIOUS
  <2> HIDE DEF g
  <2>2. 0 \in 0..Length
    BY TableHasLengths
  <2> QED  BY <2>1, <2>2
<1>2. ASSUME NEW n \in 0..Length, n # Length, n \in S PROVE n + 1 \in S
  <2>1. PICK f : f = [i \in 0..n |-> IF i = 0 THEN 0 ELSE f[i - 1] + Strings[i]]
    BY <1>2
  <2> DEFINE g == [i \in 0..(n + 1) |-> IF i = n + 1 THEN f[n] + Strings[n + 1] ELSE f[i]]
  <2>2. n \in Nat /\ n + 1 \in 0..Length
    BY <1>2, TableHasLengths
  <2>3. ASSUME NEW i \in 0..(n + 1)
        PROVE  g[i] = IF i = 0 THEN 0 ELSE g[i - 1] + Strings[i]
    <3>1. CASE i = n + 1
      BY <2>2, <3>1
    <3>2. CASE i # n + 1
      <4>1. i \in 0..n
        BY <2>2, <3>2
      <4>2. f[i] = IF i = 0 THEN 0 ELSE f[i - 1] + Strings[i]
        BY <2>1, <4>1
      <4> QED  BY <2>2, <4>1, <4>2
    <3> QED  BY <3>1, <3>2
  <2>4. g = [i \in 0..(n + 1) |-> IF i = 0 THEN 0 ELSE g[i - 1] + Strings[i]]
    BY <2>3
  <2> HIDE DEF g
  <2> QED  BY <2>2, <2>4
<1> HIDE DEF S
<1>3. \A n \in 0..Length : n \in S
  BY <1>1, <1>2, CountingUp, TableHasLengths
<1> QED  BY <1>3 DEF S

\* A string begins where the one before it ends.
LEMMA StartIsDefined ==
  /\ Start = [i \in 0..Length |-> IF i = 0 THEN 0 ELSE Start[i - 1] + Strings[i]]
  /\ Start[0] = 0
  /\ \A i \in 1..Length : Start[i] = Start[i - 1] + Strings[i]
<1>1. \E f : f = [i \in 0..Length |-> IF i = 0 THEN 0 ELSE f[i - 1] + Strings[i]]
  <2>1. Length \in 0..Length
    BY TableHasLengths
  <2> QED  BY <2>1, OffsetsExist, Zenon
<1>2. Start = [i \in 0..Length |-> IF i = 0 THEN 0 ELSE Start[i - 1] + Strings[i]]
  BY <1>1, Zenon DEF Start, Length
<1>3. Start[0] = 0
  BY <1>2, TableHasLengths
<1>4. \A i \in 1..Length : Start[i] = Start[i - 1] + Strings[i]
  BY <1>2, TableHasLengths
<1> QED  BY <1>2, <1>3, <1>4

\* No string is empty, so that no two begin at the same place.
LEMMA StartsAscend ==
  \A j \in 0..Length : Start[j] \in Nat /\ \A i \in 0..j : i # j => Start[i] < Start[j]
<1> DEFINE Rises(j) == \A i \in 0..j : Start[i] \in Nat /\ (i # j => Start[i] < Start[j])
           S == {j \in 0..Length : Rises(j)}
<1>1. 0 \in S
  BY StartIsDefined, TableHasLengths
<1>2. ASSUME NEW n \in 0..Length, n # Length, n \in S PROVE n + 1 \in S
  <2>1. n \in Nat /\ n + 1 \in 1..Length /\ n + 1 \in 0..Length /\ (n + 1) - 1 = n
    BY <1>2, TableHasLengths
  <2>2. Strings[n + 1] \in 2..255 /\ Start[n + 1] = Start[n] + Strings[n + 1]
    BY <2>1, StartIsDefined, TableHasLengths
  <2>3. \A i \in 0..n : Start[i] \in Nat /\ (i # n => Start[i] < Start[n])
    BY <1>2, Zenon
  <2>4. Start[n] \in Nat /\ Start[n + 1] \in Nat /\ Start[n] < Start[n + 1]
    BY <2>1, <2>2, <2>3
  <2>5. ASSUME NEW i \in 0..(n + 1)
        PROVE  Start[i] \in Nat /\ (i # n + 1 => Start[i] < Start[n + 1])
    <3>1. i \in 0..n \/ i = n + 1
      BY <2>1
    <3> QED  BY <2>3, <2>4, <3>1
  <2> QED  BY <2>1, <2>5
<1> HIDE DEF S
<1>3. \A n \in 0..Length : n \in S
  BY <1>1, <1>2, CountingUp, TableHasLengths
<1>4. ASSUME NEW j \in 0..Length
      PROVE  Start[j] \in Nat /\ \A i \in 0..j : i # j => Start[i] < Start[j]
  <2>1. \A i \in 0..j : Start[i] \in Nat /\ (i # j => Start[i] < Start[j])
    BY <1>3, Zenon DEF S
  <2>2. j \in 0..j
    BY TableHasLengths
  <2> QED  BY <2>1, <2>2
<1> QED  BY <1>4

\* At the start of a string is its length.
LEMMA LengthIsFirst ==
  \A i \in 1..Length : ByteAt(Start[i - 1]) = Strings[i]
<1> SUFFICES ASSUME NEW i \in 1..Length PROVE ByteAt(Start[i - 1]) = Strings[i]
  OBVIOUS
<1> DEFINE k == CHOOSE j \in 1..Len(Strings) : Start[j - 1] = Start[i - 1]
<1>1. k \in 1..Length /\ Start[k - 1] = Start[i - 1]
  BY Zenon DEF Length
<1>2. ByteAt(Start[i - 1]) = Strings[k]
  BY Zenon DEF ByteAt, Length
<1> HIDE DEF k
<1>3. /\ i \in Nat /\ k \in Nat /\ i - 1 \in 0..Length /\ k - 1 \in 0..Length
      /\ k < i => k - 1 \in 0..(i - 1) /\ k - 1 # i - 1
      /\ i < k => i - 1 \in 0..(k - 1) /\ i - 1 # k - 1
  BY <1>1, TableHasLengths
<1>4. Start[i - 1] \in Nat /\ Start[k - 1] \in Nat
  BY <1>3, StartsAscend
<1>5. ~(k < i) /\ ~(i < k)
  BY <1>1, <1>3, <1>4, StartsAscend
<1> QED  BY <1>2, <1>3, <1>5

\* The loop of __get_descriptor comes to where the string asked for begins, whatever
\* the strings' number and lengths.
THEOREM WalkFindsStart ==
  \A n \in 0..Length : Walk[n] = Start[n]
<1>1. Start = [n \in 0..Length |-> IF n = 0 THEN 0 ELSE Start[n - 1] + ByteAt(Start[n - 1])]
  <2>1. \A n \in 0..Length : n # 0 => n \in 1..Length
    BY TableHasLengths
  <2>2. \A n \in 0..Length : (IF n = 0 THEN 0 ELSE Start[n - 1] + Strings[n])
                           = (IF n = 0 THEN 0 ELSE Start[n - 1] + ByteAt(Start[n - 1]))
    BY <2>1, LengthIsFirst
  <2> QED  BY <2>2, StartIsDefined, Zenon
<1>2. Walk = [n \in 0..Length |-> IF n = 0 THEN 0 ELSE Walk[n - 1] + ByteAt(Walk[n - 1])]
  <2>1. \E f : f = [n \in 0..Length |-> IF n = 0 THEN 0 ELSE f[n - 1] + ByteAt(f[n - 1])]
    BY <1>1, Zenon
  <2> QED  BY <2>1, Zenon DEF Walk, Length
<1> DEFINE S == {n \in 0..Length : Walk[n] = Start[n]}
<1>3. 0 \in S
  BY <1>2, StartIsDefined, TableHasLengths
<1>4. ASSUME NEW n \in 0..Length, n # Length, n \in S PROVE n + 1 \in S
  <2>1. n + 1 \in 1..Length /\ n + 1 \in 0..Length /\ n + 1 # 0 /\ (n + 1) - 1 = n
    BY <1>4, TableHasLengths
  <2>2. Walk[n + 1] = Walk[n] + ByteAt(Walk[n])
    BY <1>2, <2>1
  <2>3. Start[n + 1] = Start[n] + ByteAt(Start[n])
    BY <1>1, <2>1
  <2>4. Walk[n] = Start[n]
    BY <1>4
  <2> QED  BY <2>1, <2>2, <2>3, <2>4
<1> HIDE DEF S
<1>5. \A n \in 0..Length : n \in S
  BY <1>3, <1>4, CountingUp, TableHasLengths
<1> QED  BY <1>5 DEF S

-----------------------------------------------------------------------------
Taken == [ep : Endpoint, data : Packet, count : 0..255, end : BOOLEAN]

\* The types.
Typed ==
  /\ buf \in [Endpoint -> Packet]
  /\ cnt \in [Endpoint -> 0..255]
  /\ rdy \subseteq Endpoint /\ dataEnd \in BOOLEAN /\ index \in Endpoint
  /\ strings \in BOOLEAN
  /\ pc \in {"idle", "test", "count", "index", "arm"}
  /\ pkt \in Packet /\ (pc = "test" => pkt.ep = 0) /\ (pc = "index" => pkt.ep # 0)
  /\ sends \in 0..MaxSends
  /\ wire \in Seq(Taken)
  /\ misuse \subseteq {"overrun", "overflow", "index"}

\* The packet in the buffer is endpoint e's, and the count register is its size.
Loaded(e) == buf[e].ep = e /\ cnt[e] = buf[e].size

\* What is ready can be taken.
ReadyIsLoaded ==
  \A e \in rdy : Loaded(e) /\ (e = 0 => dataEnd = (buf[0].size < SizeOf(0)))

\* The thread's packet is in its buffer and nobody else's is ready there; from the
\* step on that has written it, its count and its INDEX are in the registers.
ThreadIsAlone ==
  pc # "idle" =>
    /\ buf[pkt.ep] = pkt /\ pkt.ep \notin rdy
    /\ pc \in {"index", "arm"} => cnt[pkt.ep] = pkt.size
    /\ pc = "arm" /\ pkt.ep # 0 => index = pkt.ep

\* Until INDEX leaves endpoint 0, no other endpoint has sent.
OthersAreShutOut ==
  index = 0 => rdy \subseteq {0} /\ (pc = "arm" => pkt.ep = 0)

\* A packet that carries a string descriptor carries the one that was asked for.
Carries(p) ==
  p.text # << >> =>
    /\ p.text[1] \in 0..(Len(Strings) - 1)
    /\ p.text[2] = Start[p.text[1]]
    /\ p.size = Strings[p.text[1] + 1]

TextsAreFound ==
  /\ \A e \in Endpoint : Carries(buf[e])
  /\ Carries(pkt)
  /\ \A i \in 1..Len(wire) : Carries(wire[i].data)

IInv ==
  /\ Typed /\ OthersAreShutOut /\ TextsAreFound
  /\ misuse = {} =>
       ReadyIsLoaded /\ ThreadIsAlone /\ WireIsWhole /\ (index = 0 => NothingIsDropped)

-----------------------------------------------------------------------------
(* What is sent.                                                           *)

\* A send of the upper layer is a packet and carries no string.
LEMMA DataIsPacket ==
  ASSUME NEW e \in Endpoint, NEW size \in 0..255
  PROVE  Data(e, size) \in Packet /\ Carries(Data(e, size))
BY DEF Data, Packet, Carries

\* The packet that __get_descriptor makes of string i is that string.
LEMMA StringIsCarried ==
  ASSUME NEW i \in 0..Length, i < Length
  PROVE  /\ Text(i, Found(i), ByteAt(Found(i))) \in Packet
         /\ Carries(Text(i, Found(i), ByteAt(Found(i))))
<1>1. i \in 0..(Length - 1) /\ i + 1 \in 1..Length /\ (i + 1) - 1 = i /\ i \in Nat
  BY TableHasLengths
<1>2. Found(i) = Start[i] /\ Start[i] \in Nat
  BY WalkFindsStart, StartsAscend DEF Found
<1>3. ByteAt(Found(i)) = Strings[i + 1]
  <2>1. ByteAt(Start[(i + 1) - 1]) = Strings[i + 1]
    BY <1>1, LengthIsFirst
  <2> QED  BY <1>1, <1>2, <2>1
<1> DEFINE t == Text(i, Found(i), ByteAt(Found(i)))
<1>4. t = [ep |-> 0, size |-> Strings[i + 1], text |-> <<i, Start[i]>>]
  BY <1>2, <1>3, Zenon DEF Text
<1>5. Strings[i + 1] \in 0..255 /\ 0 \in Endpoint
  BY <1>1, TableHasLengths, TxAssumption
<1>6. <<i, Start[i]>> \in Nat \X Nat
  BY <1>1, <1>2
<1> HIDE DEF t
<1>7. t \in Packet
  BY <1>4, <1>5, <1>6 DEF Packet
<1>8. t.text[1] = i /\ t.text[2] = Start[i] /\ t.size = Strings[i + 1]
  BY <1>4
<1>9. Carries(t)
  BY <1>1, <1>8 DEF Carries, Length
<1> QED  BY <1>7, <1>9 DEF t

\* The copy: if it was no misuse, the packet alone has changed its buffer.
LEMMA CopyFillsBuffer ==
  ASSUME Typed, NEW p \in Packet, Copy(p)
  PROVE  /\ buf' \in [Endpoint -> Packet]
         /\ (\A e \in Endpoint : Carries(buf[e])) /\ Carries(p) =>
              \A e \in Endpoint : Carries(buf'[e])
         /\ sends' = sends + 1 /\ sends' \in 0..MaxSends
         /\ misuse' \subseteq {"overrun", "overflow", "index"}
         /\ misuse' = {} =>
              /\ misuse = {} /\ ~Overrun(p)
              /\ buf'[p.ep] = p
              /\ \A e \in Endpoint : e # p.ep => buf'[e] = buf[e]
              /\ pc = "arm" /\ pkt.ep # 0 => p.ep = 0
<1>1. p.ep \in Endpoint /\ p.size \in 0..255
  BY DEF Packet
<1>2. Nothing \in Packet /\ Carries(Nothing)
  BY TxAssumption DEF Nothing, Packet, Carries
<1>3. PICK e \in Endpoint \ {p.ep} :
        buf' = IF p.size <= SizeOf(p.ep) THEN [buf EXCEPT ![p.ep] = p]
               ELSE [buf EXCEPT ![p.ep] = p, ![e] = Nothing]
  BY DEF Copy
<1>4. buf \in [Endpoint -> Packet]
  BY DEF Typed
<1>5. sends' = sends + 1 /\ sends' \in 0..MaxSends
  BY TxAssumption DEF Copy, Typed
<1>6. /\ misuse' \subseteq {"overrun", "overflow", "index"}
      /\ misuse' = {} => /\ misuse = {} /\ ~Overrun(p) /\ ~(p.size > SizeOf(p.ep))
                         /\ pc = "arm" /\ pkt.ep # 0 => p.ep = 0
  <2> DEFINE a == IF Overrun(p) THEN {"overrun"} ELSE {}
             b == IF p.size > SizeOf(p.ep) THEN {"overflow"} ELSE {}
             c == IF pc = "arm" /\ pkt.ep # 0 /\ p.ep # 0 THEN {"index"} ELSE {}
  <2>1. misuse' = misuse \cup a \cup b \cup c
    BY Zenon DEF Copy
  <2>2. /\ a \subseteq {"overrun"} /\ b \subseteq {"overflow"} /\ c \subseteq {"index"}
        /\ a = {} => ~Overrun(p)
        /\ b = {} => ~(p.size > SizeOf(p.ep))
        /\ c = {} => (pc = "arm" /\ pkt.ep # 0 => p.ep = 0)
    OBVIOUS
  <2> HIDE DEF a, b, c
  <2>3. misuse \subseteq {"overrun", "overflow", "index"}
    BY DEF Typed
  <2> QED  BY <2>1, <2>2, <2>3
<1>7. CASE p.size <= SizeOf(p.ep)
  <2>1. /\ buf' \in [Endpoint -> Packet] /\ buf'[p.ep] = p
        /\ \A d \in Endpoint : d # p.ep => buf'[d] = buf[d]
    BY <1>1, <1>3, <1>4, <1>7
  <2>2. (\A d \in Endpoint : Carries(buf[d])) /\ Carries(p) =>
          \A d \in Endpoint : Carries(buf'[d])
    BY <2>1, Zenon
  <2> QED  BY <1>5, <1>6, <2>1, <2>2
<1>8. CASE ~(p.size <= SizeOf(p.ep))
  <2> DEFINE b == [buf EXCEPT ![p.ep] = p]
  <2>1. b \in [Endpoint -> Packet] /\ b[p.ep] = p
    BY <1>1, <1>4
  <2>2. \A d \in Endpoint : d # p.ep => b[d] = buf[d]
    BY <1>4
  <2>3. buf' = [b EXCEPT ![e] = Nothing]
    BY <1>3, <1>8
  <2> HIDE DEF b
  <2>4. buf' \in [Endpoint -> Packet] /\ buf'[e] = Nothing
    BY <1>2, <2>1, <2>3
  <2>5. \A d \in Endpoint : d # e => buf'[d] = b[d]
    BY <2>1, <2>3
  <2>6. (\A d \in Endpoint : Carries(buf[d])) /\ Carries(p) =>
          \A d \in Endpoint : Carries(buf'[d])
    BY <1>2, <2>1, <2>2, <2>4, <2>5, Zenon
  <2>7. p.size > SizeOf(p.ep)
    BY <1>1, <1>8 DEF SizeOf
  <2> QED  BY <1>5, <1>6, <2>4, <2>6, <2>7
<1> QED  BY <1>7, <1>8

-----------------------------------------------------------------------------
(* The steps.                                                              *)

\* The invariant holds before anything is sent.
LEMMA Initially == Init => IInv
<1> SUFFICES ASSUME Init PROVE IInv
  OBVIOUS
<1> USE DEF Init
<1>1. Nothing \in Packet /\ Carries(Nothing) /\ 0 \in Endpoint
  BY TxAssumption DEF Nothing, Packet, Carries
<1>2. wire = << >> /\ wire \in Seq(Taken) /\ Len(wire) = 0
  BY EmptySeq
<1>3. Typed
  <2>1. buf \in [Endpoint -> Packet] /\ cnt \in [Endpoint -> 0..255]
    BY <1>1
  <2>2. sends \in 0..MaxSends
    BY TxAssumption
  <2>3. pkt \in Packet /\ pc = "idle" /\ misuse = {} /\ rdy = {}
    BY <1>1
  <2> QED  BY <1>1, <1>2, <2>1, <2>2, <2>3 DEF Typed
<1>4. TextsAreFound
  BY <1>1, <1>2 DEF TextsAreFound
<1>5. ReadyIsLoaded /\ ThreadIsAlone /\ WireIsWhole /\ OthersAreShutOut
  BY <1>2 DEF ReadyIsLoaded, ThreadIsAlone, WireIsWhole, OthersAreShutOut
<1>6. NothingIsDropped
  BY <1>2 DEF NothingIsDropped
<1> QED  BY <1>3, <1>4, <1>5, <1>6 DEF IInv

\* The invariant is kept as the thread fills the buffer of its endpoint,
LEMMA SendInThreadKeeps ==
  ASSUME IInv, NEW p \in Packet, Carries(p), SendInThread(p)
  PROVE  IInv'
<1>1. /\ Typed /\ OthersAreShutOut /\ TextsAreFound /\ Copy(p)
      /\ pc = "idle" /\ pkt' = p /\ pc' = IF p.ep = 0 THEN "test" ELSE "count"
      /\ UNCHANGED <<cnt, rdy, dataEnd, index, strings, wire>>
  BY DEF IInv, SendInThread, regVars
<1>2. p.ep \in Endpoint /\ p.size \in 0..255
  BY DEF Packet
<1>3. Typed'
  <2>1. buf' \in [Endpoint -> Packet] /\ sends' \in 0..MaxSends
        /\ misuse' \subseteq {"overrun", "overflow", "index"}
    BY <1>1, CopyFillsBuffer
  <2> QED  BY <1>1, <2>1 DEF Typed
<1>4. OthersAreShutOut'
  BY <1>1 DEF OthersAreShutOut
<1>5. TextsAreFound'
  <2>1. \A e \in Endpoint : Carries(buf'[e])
    BY <1>1, CopyFillsBuffer DEF TextsAreFound
  <2> QED  BY <1>1, <2>1 DEF TextsAreFound, Carries
<1>6. ASSUME misuse' = {}
      PROVE  (ReadyIsLoaded /\ ThreadIsAlone /\ WireIsWhole)' /\ (index = 0 => NothingIsDropped)'
  <2>1. /\ misuse = {} /\ p.ep \notin rdy
        /\ buf'[p.ep] = p /\ \A e \in Endpoint : e # p.ep => buf'[e] = buf[e]
        /\ sends' = sends + 1
    BY <1>1, <1>6, CopyFillsBuffer DEF Overrun
  <2>2. ReadyIsLoaded /\ WireIsWhole /\ (index = 0 => NothingIsDropped)
    BY <2>1 DEF IInv
  <2>3. ReadyIsLoaded'
    <3> SUFFICES ASSUME NEW e \in rdy
                 PROVE  /\ buf'[e].ep = e /\ cnt[e] = buf'[e].size
                        /\ e = 0 => dataEnd = (buf'[0].size < SizeOf(0))
      BY <1>1 DEF ReadyIsLoaded, Loaded
    <3>1. buf'[e] = buf[e]
      BY <1>1, <2>1 DEF Typed
    <3> QED  BY <2>2, <3>1 DEF ReadyIsLoaded, Loaded
  <2>4. ThreadIsAlone'
    BY <1>1, <2>1 DEF ThreadIsAlone
  <2>5. WireIsWhole'
    BY <1>1, <2>1, <2>2 DEF WireIsWhole
  <2>6. (index = 0 => NothingIsDropped)'
    <3>1. Len(wire) \in Nat /\ sends \in Nat
      BY <1>1, LenProperties, TxAssumption DEF Typed
    <3> QED  BY <1>1, <2>1, <2>2, <3>1 DEF NothingIsDropped
  <2> QED  BY <2>3, <2>4, <2>5, <2>6
<1> QED  BY <1>3, <1>4, <1>5, <1>6 DEF IInv

\* What CSR0 is written for: endpoint 0, if INDEX is 0.
LEMMA SetCsr0Arms ==
  ASSUME Typed, NEW size, WriteCsr0(size)
  PROVE  /\ index' = index /\ rdy' \subseteq Endpoint /\ dataEnd' \in BOOLEAN
         /\ index = 0 => rdy' = rdy \cup {0} /\ dataEnd' = (size < SizeOf(0))
         /\ index # 0 => rdy' \subseteq rdy /\ dataEnd' = dataEnd
<1>1. rdy \subseteq Endpoint /\ dataEnd \in BOOLEAN /\ index' = index /\ 0 \in Endpoint
  BY TxAssumption DEF WriteCsr0, Typed
<1>2. CASE index = 0
  <2>1. rdy' = rdy \cup {0} /\ dataEnd' = (size < SizeOf(0))
    BY <1>2, Zenon DEF WriteCsr0, SetCsr0
  <2>2. (size < SizeOf(0)) \in BOOLEAN
    OBVIOUS
  <2> QED  BY <1>1, <1>2, <2>1, <2>2
<1>3. CASE index # 0
  <2>1. rdy' = (IF size < SizeOf(0) THEN rdy \ {index} ELSE rdy) /\ dataEnd' = dataEnd
    BY <1>3, Zenon DEF WriteCsr0, SetCsr0
  <2> QED  BY <1>1, <1>3, <2>1
<1> QED  BY <1>2, <1>3

\* as the interrupt sends a packet from the buffer to the ready flag,
LEMMA SendInInterruptKeeps ==
  ASSUME IInv, NEW p \in Packet, Carries(p), SendInInterrupt(p)
  PROVE  IInv'
<1>1. /\ Typed /\ OthersAreShutOut /\ TextsAreFound /\ Copy(p)
      /\ UNCHANGED <<strings, pc, pkt, wire>>
  BY DEF IInv, SendInInterrupt
<1>2. p.ep \in Endpoint /\ p.size \in 0..255
  BY DEF Packet
<1>3. buf' \in [Endpoint -> Packet] /\ sends' = sends + 1 /\ sends' \in 0..MaxSends
      /\ misuse' \subseteq {"overrun", "overflow", "index"}
  BY <1>1, CopyFillsBuffer
<1>4. TextsAreFound'
  <2>1. \A e \in Endpoint : Carries(buf'[e])
    BY <1>1, CopyFillsBuffer DEF TextsAreFound
  <2> QED  BY <1>1, <2>1 DEF TextsAreFound, Carries
<1>5. ASSUME misuse' = {}
      PROVE  /\ misuse = {} /\ p.ep \notin rdy /\ (pc # "idle" => pkt.ep # p.ep)
             /\ buf'[p.ep] = p /\ \A e \in Endpoint : e # p.ep => buf'[e] = buf[e]
             /\ pc = "arm" /\ pkt.ep # 0 => p.ep = 0
             /\ ReadyIsLoaded /\ ThreadIsAlone /\ WireIsWhole' /\ (index = 0 => NothingIsDropped)
  <2>1. /\ misuse = {} /\ ~Overrun(p) /\ (pc = "arm" /\ pkt.ep # 0 => p.ep = 0)
        /\ buf'[p.ep] = p /\ \A e \in Endpoint : e # p.ep => buf'[e] = buf[e]
    BY <1>1, <1>5, CopyFillsBuffer
  <2>2. ReadyIsLoaded /\ ThreadIsAlone /\ WireIsWhole /\ (index = 0 => NothingIsDropped)
    BY <2>1 DEF IInv
  <2>3. WireIsWhole'
    BY <1>1, <2>1, <2>2 DEF WireIsWhole
  <2> QED  BY <2>1, <2>2, <2>3 DEF Overrun
\* A buffer that was ready, and one the thread has filled, is another than p's.
<1>6. ASSUME misuse' = {}
      PROVE  /\ \A e \in rdy : e # p.ep /\ buf'[e] = buf[e] /\ buf[e].ep = e /\ cnt[e] = buf[e].size
             /\ 0 \in rdy => dataEnd = (buf[0].size < SizeOf(0))
             /\ pc # "idle" => buf'[pkt.ep] = pkt
  BY <1>1, <1>5, <1>6 DEF Typed, Packet, ReadyIsLoaded, ThreadIsAlone, Loaded
<1>7. Len(wire) \in Nat /\ sends \in Nat
  BY <1>1, LenProperties, TxAssumption DEF Typed
<1>8. CASE p.ep = 0 /\ Underrun
  <2>1. UNCHANGED <<cnt, rdy, dataEnd, index>> /\ index \in rdy
    BY <1>8 DEF SendInInterrupt, regVars, Underrun
  <2>2. Typed' /\ OthersAreShutOut'
    BY <1>1, <1>3, <2>1 DEF Typed, OthersAreShutOut
  <2>3. ASSUME misuse' = {}
        PROVE  (ReadyIsLoaded /\ ThreadIsAlone)' /\ (index = 0 => NothingIsDropped)'
    <3>1. ReadyIsLoaded'
      BY <1>6, <2>1, <2>3 DEF ReadyIsLoaded, Loaded
    <3>2. ThreadIsAlone'
      BY <1>1, <1>5, <1>6, <2>1, <2>3 DEF ThreadIsAlone
    <3>3. index' # 0
      BY <1>5, <1>8, <2>1, <2>3
    <3> QED  BY <3>1, <3>2, <3>3
  <2> QED  BY <1>4, <1>5, <2>2, <2>3 DEF IInv
<1>9. CASE p.ep = 0 /\ ~Underrun
  <2>1. cnt' = [cnt EXCEPT ![0] = p.size] /\ WriteCsr0(p.size) /\ index \notin rdy
    BY <1>9 DEF SendInInterrupt, Underrun
  <2>2. /\ index' = index /\ rdy' \subseteq Endpoint /\ dataEnd' \in BOOLEAN
        /\ index = 0 => rdy' = rdy \cup {0} /\ dataEnd' = (p.size < SizeOf(0))
        /\ index # 0 => rdy' \subseteq rdy /\ dataEnd' = dataEnd
    BY <1>1, <2>1, SetCsr0Arms
  <2>3. /\ cnt' \in [Endpoint -> 0..255] /\ cnt'[0] = p.size
        /\ \A e \in Endpoint : e # 0 => cnt'[e] = cnt[e]
    BY <1>1, <1>2, <1>9, <2>1 DEF Typed
  <2>4. Typed'
    BY <1>1, <1>3, <2>2, <2>3 DEF Typed
  <2>5. OthersAreShutOut'
    BY <1>1, <2>2 DEF OthersAreShutOut
  <2>6. ASSUME misuse' = {}
        PROVE  (ReadyIsLoaded /\ ThreadIsAlone)' /\ (index = 0 => NothingIsDropped)'
    <3>1. ReadyIsLoaded'
      <4>1. ASSUME NEW e \in rdy PROVE Loaded(e)' /\ e # 0
        BY <1>1, <1>6, <1>9, <2>3, <2>6 DEF Loaded, Typed
      <4>2. CASE index = 0
        BY <1>5, <1>9, <2>2, <2>3, <2>6, <4>1, <4>2 DEF ReadyIsLoaded, Loaded
      <4>3. CASE index # 0
        BY <2>2, <4>1, <4>3 DEF ReadyIsLoaded
      <4> QED  BY <4>2, <4>3
    <3>2. ThreadIsAlone'
      <4> SUFFICES ASSUME pc # "idle"
                   PROVE  /\ buf'[pkt.ep] = pkt /\ pkt.ep \notin rdy'
                          /\ pc \in {"index", "arm"} => cnt'[pkt.ep] = pkt.size
                          /\ pc = "arm" /\ pkt.ep # 0 => index' = pkt.ep
        BY <1>1 DEF ThreadIsAlone
      <4>1. pkt.ep # 0 /\ pkt.ep \in Endpoint
        BY <1>1, <1>5, <1>9, <2>6 DEF Typed, Packet
      <4> QED  BY <1>5, <1>6, <2>2, <2>3, <2>6, <4>1 DEF ThreadIsAlone
    <3>3. (index = 0 => NothingIsDropped)'
      <4> SUFFICES ASSUME index = 0
                   PROVE  NothingIsDropped'
        BY <2>2
      <4>1. 0 \notin rdy /\ 0 \in rdy' /\ NothingIsDropped /\ misuse = {}
        BY <1>5, <2>1, <2>2, <2>6
      <4> QED  BY <1>1, <1>3, <1>7, <4>1 DEF NothingIsDropped
    <3> QED  BY <3>1, <3>2, <3>3
  <2> QED  BY <1>4, <1>5, <2>4, <2>5, <2>6 DEF IInv
<1>10. CASE p.ep # 0
  <2>1. /\ cnt' = [cnt EXCEPT ![p.ep] = p.size] /\ index' = p.ep
        /\ rdy' = rdy \cup {p.ep} /\ dataEnd' = dataEnd
    BY <1>10 DEF SendInInterrupt
  <2>2. /\ cnt' \in [Endpoint -> 0..255] /\ cnt'[p.ep] = p.size
        /\ \A e \in Endpoint : e # p.ep => cnt'[e] = cnt[e]
    BY <1>1, <1>2, <2>1 DEF Typed
  <2>3. Typed'
    BY <1>1, <1>2, <1>3, <2>1, <2>2 DEF Typed
  <2>4. OthersAreShutOut' /\ index' # 0
    BY <1>10, <2>1 DEF OthersAreShutOut
  <2>5. ASSUME misuse' = {}
        PROVE  (ReadyIsLoaded /\ ThreadIsAlone)'
    <3>1. ReadyIsLoaded'
      <4>1. ASSUME NEW e \in rdy PROVE Loaded(e)' /\ (e = 0 => dataEnd' = (buf'[0].size < SizeOf(0)))
        BY <1>1, <1>6, <2>1, <2>2, <2>5 DEF Loaded, Typed
      <4>2. Loaded(p.ep)'
        BY <1>5, <2>2, <2>5 DEF Loaded
      <4> QED  BY <1>10, <2>1, <4>1, <4>2 DEF ReadyIsLoaded
    <3>2. ThreadIsAlone'
      <4> SUFFICES ASSUME pc # "idle"
                   PROVE  /\ buf'[pkt.ep] = pkt /\ pkt.ep \notin rdy'
                          /\ pc \in {"index", "arm"} => cnt'[pkt.ep] = pkt.size
                          /\ ~(pc = "arm" /\ pkt.ep # 0)
        BY <1>1 DEF ThreadIsAlone
      <4>1. pkt.ep # p.ep /\ pkt.ep \in Endpoint
        BY <1>1, <1>5, <2>5 DEF Typed, Packet
      <4> QED  BY <1>5, <1>6, <1>10, <2>1, <2>2, <2>5, <4>1 DEF ThreadIsAlone
    <3> QED  BY <3>1, <3>2
  <2> QED  BY <1>4, <1>5, <2>3, <2>4, <2>5 DEF IInv
<1> QED  BY <1>8, <1>9, <1>10

\* CSR0 is tested when the thread's packet is alone in its buffer: if INDEX is 0
\* the test lets it through.
LEMMA TestCsr0Keeps ==
  ASSUME IInv, TestCsr0
  PROVE  IInv'
<1>1. /\ Typed /\ OthersAreShutOut /\ TextsAreFound
      /\ pc = "test" /\ pc' = IF Underrun THEN "idle" ELSE "count"
      /\ UNCHANGED <<buf, cnt, rdy, dataEnd, index, strings, pkt, sends, wire, misuse>>
  BY DEF IInv, TestCsr0, regVars
<1>2. Typed' /\ OthersAreShutOut' /\ TextsAreFound'
  BY <1>1 DEF Typed, OthersAreShutOut, TextsAreFound, Carries
<1>3. ASSUME misuse = {}
      PROVE  (ReadyIsLoaded /\ ThreadIsAlone /\ WireIsWhole)' /\ (index = 0 => NothingIsDropped)'
  <2>1. ReadyIsLoaded /\ ThreadIsAlone /\ WireIsWhole /\ (index = 0 => NothingIsDropped)
    BY <1>3 DEF IInv
  <2>2. ReadyIsLoaded' /\ WireIsWhole'
    BY <1>1, <2>1 DEF ReadyIsLoaded, Loaded, WireIsWhole
  <2>3. ThreadIsAlone'
    BY <1>1, <2>1 DEF ThreadIsAlone
  <2>4. (index = 0 => NothingIsDropped)'
    <3>1. index = 0 => pc' = "count"
      BY <1>1, <2>1 DEF Typed, ThreadIsAlone, Underrun
    <3> QED  BY <1>1, <2>1, <3>1 DEF NothingIsDropped
  <2> QED  BY <2>2, <2>3, <2>4
<1> QED  BY <1>1, <1>2, <1>3 DEF IInv

\* as the thread writes the count,
LEMMA WriteCountKeeps ==
  ASSUME IInv, WriteCount
  PROVE  IInv'
<1>1. /\ Typed /\ OthersAreShutOut /\ TextsAreFound
      /\ pc = "count" /\ pc' = IF pkt.ep = 0 THEN "arm" ELSE "index"
      /\ cnt' = [cnt EXCEPT ![pkt.ep] = pkt.size]
      /\ UNCHANGED <<buf, rdy, dataEnd, index, strings, pkt, sends, wire, misuse>>
  BY DEF IInv, WriteCount
<1>2. /\ pkt.ep \in Endpoint /\ pkt.size \in 0..255
      /\ cnt' \in [Endpoint -> 0..255] /\ cnt'[pkt.ep] = pkt.size
      /\ \A e \in Endpoint : e # pkt.ep => cnt'[e] = cnt[e]
  BY <1>1 DEF Typed, Packet
<1>3. Typed' /\ OthersAreShutOut' /\ TextsAreFound'
  BY <1>1, <1>2 DEF Typed, OthersAreShutOut, TextsAreFound, Carries
<1>4. ASSUME misuse = {}
      PROVE  (ReadyIsLoaded /\ ThreadIsAlone /\ WireIsWhole)' /\ (index = 0 => NothingIsDropped)'
  <2>1. ReadyIsLoaded /\ ThreadIsAlone /\ WireIsWhole /\ (index = 0 => NothingIsDropped)
    BY <1>4 DEF IInv
  <2>2. ReadyIsLoaded'
    BY <1>1, <1>2, <2>1 DEF Typed, ReadyIsLoaded, Loaded, ThreadIsAlone
  <2>3. ThreadIsAlone'
    BY <1>1, <1>2, <2>1 DEF ThreadIsAlone
  <2>4. WireIsWhole' /\ (index = 0 => NothingIsDropped)'
    BY <1>1, <2>1 DEF WireIsWhole, NothingIsDropped
  <2> QED  BY <2>2, <2>3, <2>4
<1> QED  BY <1>1, <1>3, <1>4 DEF IInv

\* as it writes INDEX,
LEMMA WriteIndexKeeps ==
  ASSUME IInv, WriteIndex
  PROVE  IInv'
<1>1. /\ Typed /\ OthersAreShutOut /\ TextsAreFound
      /\ pc = "index" /\ index' = pkt.ep /\ pc' = "arm"
      /\ UNCHANGED <<buf, cnt, rdy, dataEnd, strings, pkt, sends, wire, misuse>>
  BY DEF IInv, WriteIndex
<1>2. pkt.ep \in Endpoint /\ pkt.ep # 0
  BY <1>1 DEF Typed, Packet
<1>3. Typed' /\ OthersAreShutOut' /\ TextsAreFound'
  BY <1>1, <1>2 DEF Typed, OthersAreShutOut, TextsAreFound, Carries
<1>4. ASSUME misuse = {}
      PROVE  (ReadyIsLoaded /\ ThreadIsAlone /\ WireIsWhole)'
  BY <1>1, <1>4 DEF IInv, ReadyIsLoaded, Loaded, ThreadIsAlone, WireIsWhole
<1> QED  BY <1>1, <1>2, <1>3, <1>4 DEF IInv

\* and as it makes the packet ready, or another endpoint's register is hit.
LEMMA ArmKeeps ==
  ASSUME IInv, Arm
  PROVE  IInv'
<1>1. /\ Typed /\ OthersAreShutOut /\ TextsAreFound
      /\ pc = "arm" /\ pc' = "idle"
      /\ UNCHANGED <<buf, cnt, strings, pkt, sends, wire, misuse>>
  BY DEF IInv, Arm
<1>2. pkt.ep \in Endpoint /\ pkt.size \in 0..255
  BY <1>1 DEF Typed, Packet
<1>3. /\ index' = index /\ rdy' \subseteq Endpoint /\ dataEnd' \in BOOLEAN
      /\ pkt.ep = 0 /\ index = 0 => rdy' = rdy \cup {0} /\ dataEnd' = (pkt.size < SizeOf(0))
      /\ pkt.ep = 0 /\ index # 0 => rdy' \subseteq rdy /\ dataEnd' = dataEnd
      /\ pkt.ep # 0 => rdy' = rdy \cup {index} /\ dataEnd' = dataEnd
  <2>1. CASE pkt.ep = 0
    <3>1. WriteCsr0(pkt.size)
      BY <2>1 DEF Arm
    <3> QED  BY <1>1, <2>1, <3>1, SetCsr0Arms
  <2>2. CASE pkt.ep # 0
    BY <1>1, <2>2 DEF Arm, Typed
  <2> QED  BY <2>1, <2>2
<1>4. Typed' /\ OthersAreShutOut' /\ TextsAreFound'
  BY <1>1, <1>3 DEF Typed, OthersAreShutOut, TextsAreFound, Carries
<1>5. ASSUME misuse = {}
      PROVE  (ReadyIsLoaded /\ ThreadIsAlone /\ WireIsWhole)' /\ (index = 0 => NothingIsDropped)'
  <2>1. ReadyIsLoaded /\ ThreadIsAlone /\ WireIsWhole /\ (index = 0 => NothingIsDropped)
    BY <1>5 DEF IInv
  <2>2. /\ buf[pkt.ep] = pkt /\ pkt.ep \notin rdy /\ cnt[pkt.ep] = pkt.size
        /\ pkt.ep # 0 => index = pkt.ep
    BY <1>1, <2>1 DEF ThreadIsAlone
  <2>3. Loaded(pkt.ep)
    BY <2>2 DEF Loaded
  <2>4. ReadyIsLoaded'
    <3>1. \A e \in Endpoint : Loaded(e)' = Loaded(e)
      BY <1>1 DEF Loaded
    <3>2. CASE pkt.ep = 0 /\ index = 0
      BY <1>1, <1>3, <2>1, <2>2, <2>3, <3>1, <3>2 DEF ReadyIsLoaded, Typed
    <3>3. CASE pkt.ep = 0 /\ index # 0
      BY <1>1, <1>3, <2>1, <3>1, <3>3 DEF ReadyIsLoaded, Typed
    <3>4. CASE pkt.ep # 0
      BY <1>1, <1>3, <2>1, <2>2, <2>3, <3>1, <3>4 DEF ReadyIsLoaded, Typed
    <3> QED  BY <3>2, <3>3, <3>4
  <2>5. ThreadIsAlone' /\ WireIsWhole'
    BY <1>1, <2>1 DEF ThreadIsAlone, WireIsWhole
  <2>6. (index = 0 => NothingIsDropped)'
    <3> SUFFICES ASSUME index = 0
                 PROVE  NothingIsDropped'
      BY <1>3
    <3>1. pkt.ep = 0 /\ 0 \notin rdy /\ 0 \in rdy' /\ index' = 0
      BY <1>1, <1>3, <2>2 DEF OthersAreShutOut
    <3>2. Len(wire) \in Nat /\ sends \in Nat
      BY <1>1, LenProperties, TxAssumption DEF Typed
    <3> QED  BY <1>1, <1>5, <2>1, <3>1, <3>2 DEF NothingIsDropped
  <2> QED  BY <2>4, <2>5, <2>6
<1> QED  BY <1>1, <1>4, <1>5 DEF IInv

\* What the host takes is what is ready.
LEMMA TransmitKeeps ==
  ASSUME IInv, NEW e \in Endpoint, Transmit(e)
  PROVE  IInv'
<1> DEFINE t == [ep |-> e, data |-> buf[e], count |-> cnt[e], end |-> e = 0 /\ dataEnd]
<1>1. /\ Typed /\ OthersAreShutOut /\ TextsAreFound
      /\ e \in rdy /\ rdy' = rdy \ {e} /\ wire' = Append(wire, t)
      /\ UNCHANGED <<buf, cnt, dataEnd, index, strings, pc, pkt, sends, misuse>>
  BY DEF IInv, Transmit
<1>2. buf[e] \in Packet /\ cnt[e] \in 0..255 /\ dataEnd \in BOOLEAN /\ wire \in Seq(Taken)
  BY <1>1 DEF Typed
<1>3. /\ t \in Taken
      /\ t.ep = e /\ t.data = buf[e] /\ t.count = cnt[e] /\ t.end = (e = 0 /\ dataEnd)
  BY <1>2 DEF Taken
<1> HIDE DEF t
<1>4. /\ wire' \in Seq(Taken) /\ Len(wire) \in Nat /\ Len(wire') = Len(wire) + 1
      /\ \A i \in 1..Len(wire) : wire'[i] = wire[i]
      /\ wire'[Len(wire) + 1] = t
  BY <1>1, <1>2, <1>3, AppendProperties, LenProperties
<1>5. \A i \in 1..Len(wire') : i \in 1..Len(wire) \/ i = Len(wire) + 1
  BY <1>4
<1>6. Typed' /\ OthersAreShutOut'
  BY <1>1, <1>4 DEF Typed, OthersAreShutOut
<1>7. TextsAreFound'
  <2>1. \A i \in 1..Len(wire') : Carries(wire'[i].data)
    BY <1>1, <1>3, <1>4, <1>5 DEF TextsAreFound
  <2> QED  BY <1>1, <2>1 DEF TextsAreFound, Carries
<1>8. ASSUME misuse = {}
      PROVE  (ReadyIsLoaded /\ ThreadIsAlone /\ WireIsWhole)' /\ (index = 0 => NothingIsDropped)'
  <2>1. ReadyIsLoaded /\ ThreadIsAlone /\ WireIsWhole /\ (index = 0 => NothingIsDropped)
    BY <1>8 DEF IInv
  <2>2. ReadyIsLoaded' /\ ThreadIsAlone'
    BY <1>1, <2>1 DEF ReadyIsLoaded, Loaded, ThreadIsAlone
  <2>3. t.data.ep = t.ep /\ t.count = t.data.size /\ t.end = (t.ep = 0 /\ t.count < SizeOf(0))
    BY <1>1, <1>2, <1>3, <2>1 DEF ReadyIsLoaded, Loaded
  <2>4. WireIsWhole'
    BY <1>4, <1>5, <1>8, <2>1, <2>3 DEF WireIsWhole
  <2>5. (index = 0 => NothingIsDropped)'
    <3> SUFFICES ASSUME index = 0 PROVE NothingIsDropped'
      BY <1>1
    <3>1. e = 0 /\ 0 \in rdy /\ 0 \notin rdy'
      BY <1>1 DEF OthersAreShutOut
    <3>2. sends \in Nat
      BY <1>1, TxAssumption DEF Typed
    <3> QED  BY <1>1, <1>4, <1>8, <2>1, <3>1, <3>2 DEF NothingIsDropped
  <2> QED  BY <2>2, <2>4, <2>5
<1> QED  BY <1>1, <1>6, <1>7, <1>8 DEF IInv

\* What touches no packet.
LEMMA OthersKeep ==
  ASSUME IInv,
         \/ RegisterStrings
         \/ \E e \in Endpoint : Open(e)
         \/ UNCHANGED vars
  PROVE  IInv'
<1>1. CASE RegisterStrings \/ UNCHANGED vars
  <2>1. /\ UNCHANGED <<buf, cnt, rdy, dataEnd, index, pc, pkt, sends, wire, misuse>>
        /\ strings' \in BOOLEAN
    BY <1>1 DEF RegisterStrings, vars, regVars, IInv, Typed
  <2> QED
    BY <2>1 DEF IInv, Typed, OthersAreShutOut, TextsAreFound, Carries, ReadyIsLoaded,
                Loaded, ThreadIsAlone, WireIsWhole, NothingIsDropped
<1>2. ASSUME NEW e \in Endpoint, Open(e) PROVE IInv'
  <2>1. /\ UNCHANGED <<buf, cnt, rdy, dataEnd, strings, pc, pkt, sends, wire, misuse>>
        /\ index' = e /\ e # 0 /\ pc = "idle"
    BY <1>2 DEF Open
  <2> QED
    BY <2>1 DEF IInv, Typed, OthersAreShutOut, TextsAreFound, Carries, ReadyIsLoaded,
                Loaded, ThreadIsAlone, WireIsWhole
<1> QED  BY <1>1, <1>2

-----------------------------------------------------------------------------
(* The theorems.                                                           *)

\* Whatever is sent, it is a packet, and a string if a string was asked for.
LEMMA WhatIsSent ==
  ASSUME \/ GetDevice
         \/ \E i \in 0..Length : GetString(i)
         \/ \E p \in Packets : SendInThread(p)
         \/ \E p \in Packets : p.ep \in Served /\ SendInInterrupt(p)
  PROVE  \E p \in Packet : Carries(p) /\ (SendInThread(p) \/ SendInInterrupt(p))
<1>1. 0 \in Endpoint /\ 18 \in 0..255 /\ AnyByte \subseteq 0..255 /\ Sizes \subseteq 0..255
  BY TxAssumption
<1>2. CASE GetDevice
  <2>1. PICK size \in 0..255 : SendInThread(Data(0, size))
    BY <1>1, <1>2 DEF GetDevice
  <2> QED  BY <1>1, <2>1, DataIsPacket
<1>3. CASE \E i \in 0..Length : GetString(i)
  <2>1. PICK i \in 0..Length : GetString(i)
    BY <1>3
  <2>2. CASE i < Length /\ SendInThread(Text(i, Found(i), ByteAt(Found(i))))
    BY <2>2, StringIsCarried
  <2>3. CASE \E size \in AnyByte : SendInThread(Data(0, size))
    <3>1. PICK size \in 0..255 : SendInThread(Data(0, size))
      BY <1>1, <2>3
    <3> QED  BY <1>1, <3>1, DataIsPacket
  <2> QED  BY <2>1, <2>2, <2>3 DEF GetString, Length
<1>4. ASSUME NEW p \in Packets PROVE p \in Packet /\ Carries(p)
  <2>1. PICK e \in Endpoint, size \in Sizes : p = Data(e, size)
    BY DEF Packets
  <2>2. size \in 0..255
    BY <1>1
  <2> QED  BY <2>1, <2>2, DataIsPacket
<1> QED  BY <1>2, <1>3, <1>4

\* The invariant that the thread, the interrupt and the host keep together.
THEOREM BuffersAreKept == Spec => []IInv
<1>1. IInv /\ [Next]_vars => IInv'
  <2> SUFFICES ASSUME IInv, [Next]_vars PROVE IInv'
    OBVIOUS
  <2>1. CASE TestCsr0
    BY <2>1, TestCsr0Keeps
  <2>2. CASE WriteCount
    BY <2>2, WriteCountKeeps
  <2>3. CASE WriteIndex
    BY <2>3, WriteIndexKeeps
  <2>4. CASE Arm
    BY <2>4, ArmKeeps
  <2>5. CASE \E e \in Endpoint : Transmit(e)
    BY <2>5, TransmitKeeps
  <2>6. CASE RegisterStrings \/ (\E e \in Endpoint : Open(e)) \/ UNCHANGED vars
    BY <2>6, OthersKeep
  <2>7. ASSUME NEW p \in Packet, Carries(p), SendInThread(p) \/ SendInInterrupt(p)
        PROVE  IInv'
    BY <2>7, SendInThreadKeeps, SendInInterruptKeeps
  <2> QED
    BY <2>1, <2>2, <2>3, <2>4, <2>5, <2>6, <2>7, WhatIsSent DEF Next, Length
<1> QED  BY <1>1, Initially, PTL DEF Spec

\* Every variable of musb_send_packet's model keeps its type.
THEOREM TypesAreKept == Spec => []TypeOK
<1>1. IInv => TypeOK
  <2> SUFFICES ASSUME IInv PROVE TypeOK
    OBVIOUS
  <2>1. \A i \in 1..Len(wire) : wire[i] \in Taken
    BY ElementOfSeq DEF IInv, Typed
  <2>2. \A i \in 1..Len(wire) : wire[i].ep \in Endpoint /\ wire[i].data \in Packet
    BY <2>1 DEF Taken
  <2> QED  BY <2>2 DEF IInv, Typed, TypeOK
<1> QED  BY <1>1, BuffersAreKept, PTL

\* For any number of endpoints, senders and packets: what the host takes is whole,
\* and of its endpoint, if nobody has sent on a busy endpoint, or more than its
\* buffer takes, or moved INDEX under the thread.
THEOREM PacketsAreWhole == Spec => []WireIsWhole
<1>1. IInv => WireIsWhole
  BY DEF IInv, WireIsWhole
<1> QED  BY <1>1, BuffersAreKept, PTL

\* As long as INDEX is 0, __musb_ep0_tx_flush drops a packet only if it was sent
\* before the last one had left.
THEOREM NoneIsDropped == Spec => []NothingIsDropped
<1>1. IInv => NothingIsDropped
  BY DEF IInv, NothingIsDropped
<1> QED  BY <1>1, BuffersAreKept, PTL

\* For any table of strings: the host gets the string it has asked for, as long as
\* its first byte says.
THEOREM StringsAreSent == Spec => []StringsAreTheOnesAskedFor
<1>1. IInv => StringsAreTheOnesAskedFor
  <2> SUFFICES ASSUME IInv, misuse = {}, NEW i \in 1..Len(wire),
                      wire[i].data.text # << >>
               PROVE  /\ wire[i].data.text[2] = Start[wire[i].data.text[1]]
                      /\ wire[i].count = Strings[wire[i].data.text[1] + 1]
    BY DEF StringsAreTheOnesAskedFor
  <2>1. Carries(wire[i].data)
    BY DEF IInv, TextsAreFound
  <2>2. wire[i].count = wire[i].data.size
    BY DEF IInv, WireIsWhole
  <2> QED  BY <2>1, <2>2 DEF Carries
<1> QED  BY <1>1, BuffersAreKept, PTL

-----------------------------------------------------------------------------
(* The driver implements EndpointBuffers.                                  *)

\* One step of an endpoint buffer that was not misused.
Buffered ==
  \/ \E e \in Endpoint : Buffers!Put(e) \/ Buffers!Take(e) \/ Buffers!Lose(e)
  \/ UNCHANGED <<Held, wire>>

\* What is held, endpoint by endpoint.
LEMMA HeldIs ==
  /\ Held = [e \in Endpoint |-> Held[e]] /\ Held' = [e \in Endpoint |-> Held'[e]]
  /\ \A e \in Endpoint :
       /\ Held[e] = IF e \in rdy \/ (pc # "idle" /\ pkt.ep = e) THEN <<buf[e]>> ELSE << >>
       /\ Held'[e] = IF e \in rdy' \/ (pc' # "idle" /\ pkt'.ep = e) THEN <<buf'[e]>> ELSE << >>
BY DEF Held

\* A send that is no misuse fills an endpoint that holds nothing.
LEMMA PutsPacket ==
  ASSUME NEW p \in Packet,
         Held[p.ep] = << >>, Held'[p.ep] = <<p>>,
         \A e \in Endpoint : e # p.ep => Held'[e] = Held[e],
         wire' = wire
  PROVE  Buffered
<1>1. p.ep \in Endpoint
  BY DEF Packet
<1>2. Held'[p.ep] = <<p>> /\ Len(<<p>>) = 1 /\ <<p>>[1] = p
  OBVIOUS
<1>3. [q \in Packet |-> q.ep][p] = p.ep
  OBVIOUS
<1>4. Held' = [Held EXCEPT ![p.ep] = Held'[p.ep]]
  BY <1>1, HeldIs
<1>5. Buffers!Put(p.ep)
  BY <1>2, <1>3, <1>4, Zenon DEF Buffers!Put
<1> QED  BY <1>1, <1>5 DEF Buffered

\* What leaves every endpoint and the wire as they are is a stutter of EndpointBuffers.
LEMMA HoldsTheSame ==
  ASSUME \A e \in Endpoint : Held'[e] = Held[e], wire' = wire
  PROVE  Buffered
<1>1. Held' = Held
  BY HeldIs, Zenon
<1> QED  BY <1>1 DEF Buffered

\* With INDEX away from 0 two endpoints may lose what they hold.
LEMMA LosesPackets ==
  ASSUME NEW i \in Endpoint, index # 0, wire' = wire,
         \A e \in Endpoint : Held'[e] = IF e \in {0, i} THEN << >> ELSE Held[e]
  PROVE  Buffered
<1>1. Held' = [e \in Endpoint |-> IF e \in {0, i} THEN << >> ELSE Held[e]]
  BY HeldIs, Zenon
<1>2. Buffers!Lose(i)
  BY <1>1 DEF Buffers!Lose
<1> QED  BY <1>2 DEF Buffered

\* Without misuse a send puts its packet on an endpoint that holds none.
LEMMA SendsArePuts ==
  ASSUME IInv, NEW p \in Packet, SendInThread(p) \/ SendInInterrupt(p), misuse' = {}
  PROVE  Buffered
<1>1. /\ Typed /\ Copy(p) /\ wire' = wire /\ p.ep \in Endpoint
  BY DEF IInv, SendInThread, SendInInterrupt, Packet
<1>2. /\ misuse = {} /\ p.ep \notin rdy /\ (pc # "idle" => pkt.ep # p.ep)
      /\ buf'[p.ep] = p /\ \A e \in Endpoint : e # p.ep => buf'[e] = buf[e]
  BY <1>1, CopyFillsBuffer DEF Overrun
<1>3. Held[p.ep] = << >>
  BY <1>1, <1>2, HeldIs
<1>4. CASE SendInThread(p)
  <2>1. pc = "idle" /\ pc' # "idle" /\ pkt' = p /\ rdy' = rdy
    BY <1>4 DEF SendInThread, regVars
  <2>2. Held'[p.ep] = <<p>> /\ \A e \in Endpoint : e # p.ep => Held'[e] = Held[e]
    BY <1>1, <1>2, <2>1, HeldIs
  <2> QED  BY <1>1, <1>3, <2>2, PutsPacket
<1>5. CASE SendInInterrupt(p) /\ p.ep \in rdy'
  <2>1. pc' = pc /\ pkt' = pkt
    BY <1>5 DEF SendInInterrupt
  <2>2. \A e \in Endpoint : e # p.ep => (e \in rdy' <=> e \in rdy)
    <3>1. CASE p.ep = 0 /\ Underrun
      BY <1>5, <3>1 DEF SendInInterrupt, regVars
    <3>2. CASE p.ep = 0 /\ ~Underrun
      <4>1. WriteCsr0(p.size)
        BY <1>5, <3>2 DEF SendInInterrupt
      <4> QED  BY <1>1, <1>2, <1>5, <3>2, <4>1, SetCsr0Arms
    <3>3. CASE p.ep # 0
      BY <1>5, <3>3 DEF SendInInterrupt
    <3> QED  BY <3>1, <3>2, <3>3
  <2>3. Held'[p.ep] = <<p>> /\ \A e \in Endpoint : e # p.ep => Held'[e] = Held[e]
    BY <1>1, <1>2, <1>5, <2>1, <2>2, HeldIs
  <2> QED  BY <1>1, <1>3, <2>3, PutsPacket
\* With INDEX elsewhere the packet is lost on the spot, and no other with it: what
\* INDEX selects was not ready.
<1>6. CASE SendInInterrupt(p) /\ p.ep \notin rdy'
  <2>1. pc' = pc /\ pkt' = pkt /\ p.ep = 0
    BY <1>6 DEF SendInInterrupt
  <2>2. rdy' = rdy
    <3>1. CASE Underrun
      BY <1>6, <2>1, <3>1 DEF SendInInterrupt, regVars
    <3>2. CASE ~Underrun
      <4>1. WriteCsr0(p.size) /\ index \notin rdy
        BY <1>6, <2>1, <3>2 DEF SendInInterrupt, Underrun
      <4>2. index # 0
        BY <1>1, <1>6, <2>1, <4>1, SetCsr0Arms
      <4>3. rdy' = (IF p.size < SizeOf(0) THEN rdy \ {index} ELSE rdy)
        BY <4>1, <4>2, Zenon DEF WriteCsr0, SetCsr0
      <4> QED  BY <4>1, <4>3
    <3> QED  BY <3>1, <3>2
  <2>3. \A e \in Endpoint : Held'[e] = Held[e]
    BY <1>1, <1>2, <2>1, <2>2, HeldIs
  <2> QED  BY <1>1, <2>3, HoldsTheSame
<1> QED  BY <1>4, <1>5, <1>6

\* The thread's further steps put and take nothing; one under another INDEX loses.
LEMMA ThreadsStepsAreBuffered ==
  ASSUME IInv, misuse = {},
         TestCsr0 \/ WriteCount \/ WriteIndex \/ Arm
  PROVE  Buffered
<1>1. /\ Typed /\ ThreadIsAlone /\ pc # "idle"
      /\ buf' = buf /\ pkt' = pkt /\ wire' = wire /\ 0 \in Endpoint
  BY TxAssumption DEF IInv, TestCsr0, WriteCount, WriteIndex, Arm
<1>2. pkt.ep \in Endpoint /\ pkt.ep \notin rdy /\ buf[pkt.ep] = pkt
  BY <1>1 DEF Typed, Packet, ThreadIsAlone
<1>3. CASE WriteCount \/ WriteIndex \/ (TestCsr0 /\ ~Underrun)
  <2>1. pc' # "idle" /\ rdy' = rdy
    BY <1>3 DEF WriteCount, WriteIndex, TestCsr0, regVars
  <2>2. \A e \in Endpoint : Held'[e] = Held[e]
    BY <1>1, <2>1, HeldIs
  <2> QED  BY <1>1, <2>2, HoldsTheSame
<1>4. CASE TestCsr0 /\ Underrun
  <2>1. pc' = "idle" /\ rdy' = rdy /\ pkt.ep = 0 /\ index \in rdy
    BY <1>1, <1>4 DEF TestCsr0, regVars, Typed, Underrun
  <2>2. \A e \in Endpoint : Held'[e] = IF e \in {0, 0} THEN << >> ELSE Held[e]
    BY <1>1, <1>2, <2>1, HeldIs
  <2>3. index # 0
    BY <1>2, <2>1
  <2> QED  BY <1>1, <2>2, <2>3, LosesPackets
<1>5. CASE Arm /\ pkt.ep = 0 /\ index # 0
  <2>1. WriteCsr0(pkt.size) /\ pc' = "idle"
    BY <1>5 DEF Arm
  <2>2. rdy' = (IF pkt.size < SizeOf(0) THEN rdy \ {index} ELSE rdy)
    BY <1>5, <2>1, Zenon DEF WriteCsr0, SetCsr0
  <2>3. index \in Endpoint
    BY <1>1 DEF Typed
  <2>4. CASE rdy' = rdy \ {index}
    <3>1. \A e \in Endpoint : Held'[e] = IF e \in {0, index} THEN << >> ELSE Held[e]
      BY <1>1, <1>2, <1>5, <2>1, <2>4, HeldIs
    <3> QED  BY <1>1, <1>5, <2>3, <3>1, LosesPackets
  <2>5. CASE rdy' = rdy
    <3>1. \A e \in Endpoint : Held'[e] = IF e \in {0, 0} THEN << >> ELSE Held[e]
      BY <1>1, <1>2, <1>5, <2>1, <2>5, HeldIs
    <3> QED  BY <1>1, <1>5, <3>1, LosesPackets
  <2> QED  BY <2>2, <2>4, <2>5
<1>6. CASE Arm /\ ~(pkt.ep = 0 /\ index # 0)
  <2>1. pc = "arm" /\ pc' = "idle"
    BY <1>6 DEF Arm
  <2>2. rdy' = rdy \cup {pkt.ep}
    <3>1. CASE pkt.ep = 0
      <4>1. WriteCsr0(pkt.size) /\ index = 0
        BY <1>6, <3>1 DEF Arm
      <4> QED  BY <1>1, <3>1, <4>1, SetCsr0Arms
    <3>2. CASE pkt.ep # 0
      BY <1>1, <1>6, <2>1, <3>2 DEF Arm, ThreadIsAlone
    <3> QED  BY <3>1, <3>2
  <2>3. \A e \in Endpoint : Held'[e] = Held[e]
    BY <1>1, <1>2, <2>1, <2>2, HeldIs
  <2> QED  BY <1>1, <2>3, HoldsTheSame
<1> QED  BY <1>3, <1>4, <1>5, <1>6

\* The host takes what the endpoint holds.
LEMMA TransmitTakes ==
  ASSUME IInv, misuse = {}, NEW e \in Endpoint, Transmit(e)
  PROVE  Buffered
<1>1. /\ Typed /\ ThreadIsAlone /\ ReadyIsLoaded
      /\ e \in rdy /\ rdy' = rdy \ {e} /\ UNCHANGED <<buf, pc, pkt>>
      /\ wire' = Append(wire, [ep |-> e, data |-> buf[e], count |-> cnt[e],
                               end |-> e = 0 /\ dataEnd])
  BY DEF IInv, Transmit
<1>2. pc # "idle" => pkt.ep # e
  BY <1>1 DEF ThreadIsAlone
<1>3. Held[e] = <<buf[e]>> /\ Held'[e] = << >>
  BY <1>1, <1>2, HeldIs
<1>4. \A d \in Endpoint : d # e => Held'[d] = Held[d]
  BY <1>1, HeldIs
<1>5. Held' = [Held EXCEPT ![e] = << >>]
  BY <1>3, <1>4, HeldIs
<1> DEFINE Seen == [p \in Packet |-> [ep |-> p.ep, data |-> p, count |-> p.size,
                                      end |-> p.ep = 0 /\ p.size < SizeOf(0)]]
           q == buf[e]
<1>6. q \in Packet /\ q.ep = e /\ cnt[e] = q.size
      /\ (e = 0 /\ dataEnd) = (e = 0 /\ q.size < SizeOf(0))
  BY <1>1 DEF Typed, ReadyIsLoaded, Loaded
<1>7. Seen[q] = [ep |-> q.ep, data |-> q, count |-> q.size,
                 end |-> q.ep = 0 /\ q.size < SizeOf(0)]
  BY <1>6, Zenon
<1>8. Seen[q] = [ep |-> e, data |-> q, count |-> cnt[e], end |-> e = 0 /\ dataEnd]
  BY <1>6, <1>7, Zenon
<1>9. Held[e] # << >> /\ Held[e][1] = q
  BY <1>3
<1>10. wire' = Append(wire, Seen[Held[e][1]])
  BY <1>1, <1>8, <1>9, Zenon
<1>11. Buffers!Take(e)
  BY <1>5, <1>9, <1>10, Zenon DEF Buffers!Take
<1> QED  BY <1>11 DEF Buffered

\* INDEX does not come back to endpoint 0, and a misuse is not forgotten.
LEMMA NothingIsMended ==
  ASSUME IInv, [Next]_vars
  PROVE  /\ index # 0 => index' # 0
         /\ misuse # {} => misuse' # {}
<1>1. ASSUME NEW p, Copy(p) PROVE misuse # {} => misuse' # {}
  BY <1>1 DEF Copy
<1>2. ASSUME NEW p, SendInThread(p) PROVE index' = index /\ (misuse # {} => misuse' # {})
  BY <1>1, <1>2 DEF SendInThread, regVars
<1>3. ASSUME NEW p, SendInInterrupt(p)
      PROVE  (index # 0 => index' # 0) /\ (misuse # {} => misuse' # {})
  BY <1>1, <1>3 DEF SendInInterrupt, regVars, WriteCsr0
<1>4. CASE WriteIndex
  BY <1>4 DEF WriteIndex, IInv, Typed
<1>5. CASE Arm
  BY <1>5 DEF Arm, WriteCsr0
<1>6. CASE \E e \in Endpoint : Open(e) \/ Transmit(e)
  BY <1>6 DEF Open, Transmit
<1>7. CASE RegisterStrings \/ TestCsr0 \/ WriteCount \/ UNCHANGED vars
  BY <1>7 DEF RegisterStrings, TestCsr0, WriteCount, regVars, vars
<1> QED  BY <1>2, <1>3, <1>4, <1>5, <1>6, <1>7, WhatIsSent DEF Next, Length

\* Register by register, for any interleaving of thread, interrupt and host, the
\* driver is to its callers what EndpointBuffers says.
THEOREM DriverImplementsBuffers == Spec => RefinesBuffers
<1>1. Init => Buffers!Init
  <2> SUFFICES ASSUME Init PROVE Buffers!Init
    OBVIOUS
  <2>1. \A e \in Endpoint : Held[e] = << >>
    BY HeldIs DEF Init
  <2>2. Held = [e \in Endpoint |-> << >>]
    BY <2>1, HeldIs, Zenon
  <2>3. wire = << >> /\ index = 0 /\ misuse = {}
    BY DEF Init
  <2> QED  BY <2>2, <2>3 DEF Buffers!Init
<1>2. IInv /\ [Next]_vars => [Buffers!Next]_Buffers!bufferVars
  <2> SUFFICES ASSUME IInv, [Next]_vars PROVE Buffers!Next
    BY DEF Buffers!bufferVars
  <2>1. /\ index # 0 => index' # 0
        /\ misuse # {} => misuse' # {}
    BY NothingIsMended
  <2>2. ASSUME misuse' = {} PROVE Buffered
    <3>1. misuse = {}
      BY <2>1, <2>2
    <3>2. CASE TestCsr0 \/ WriteCount \/ WriteIndex \/ Arm
      BY <3>1, <3>2, ThreadsStepsAreBuffered
    <3>3. CASE \E e \in Endpoint : Transmit(e)
      BY <3>1, <3>3, TransmitTakes
    <3>4. CASE RegisterStrings \/ (\E e \in Endpoint : Open(e)) \/ UNCHANGED vars
      <4>1. buf' = buf /\ rdy' = rdy /\ pc' = pc /\ pkt' = pkt /\ wire' = wire
        BY <3>4 DEF RegisterStrings, Open, vars, regVars
      <4>2. \A e \in Endpoint : Held'[e] = Held[e]
        BY <4>1, HeldIs
      <4> QED  BY <4>1, <4>2, HoldsTheSame
    <3>5. CASE \E p \in Packet : SendInThread(p) \/ SendInInterrupt(p)
      BY <2>2, <3>5, SendsArePuts
    <3> QED  BY <3>2, <3>3, <3>4, <3>5, WhatIsSent DEF Next, Length
  <2>3. \/ misuse' # {}
        \/ \E e \in Endpoint : Buffers!Put(e) \/ Buffers!Take(e) \/ Buffers!Lose(e)
        \/ UNCHANGED <<Held, wire>>
    BY <2>2 DEF Buffered
  <2> QED  BY <2>1, <2>3, Zenon DEF Buffers!Next
<1> QED
  BY <1>1, <1>2, BuffersAreKept, PTL DEF Spec, RefinesBuffers, Buffers!Spec

-----------------------------------------------------------------------------
\* With INDEX anywhere but at 0, neither the thread nor the interrupt makes a packet
\* of the control endpoint ready.
THEOREM NoControlPacketIsReady == Spec => ControlIsShutOut
<1> DEFINE A == index # 0 /\ 0 \in rdy' => 0 \in rdy
<1>1. Next => A
  <2> SUFFICES ASSUME Next, index # 0 PROVE 0 \in rdy' => 0 \in rdy
    OBVIOUS
  <2>1. ASSUME NEW size, WriteCsr0(size) PROVE rdy' \subseteq rdy
    BY <2>1, Zenon DEF WriteCsr0, SetCsr0
  <2>2. ASSUME NEW p, SendInInterrupt(p) PROVE 0 \in rdy' => 0 \in rdy
    BY <2>1, <2>2 DEF SendInInterrupt, regVars
  <2>3. CASE Arm
    BY <2>1, <2>3 DEF Arm
  <2>4. ASSUME NEW p, SendInThread(p) PROVE rdy' = rdy
    BY <2>4 DEF SendInThread, regVars
  <2>5. ASSUME NEW e \in Endpoint, Transmit(e) PROVE rdy' \subseteq rdy
    BY <2>5 DEF Transmit
  <2>6. ASSUME TestCsr0 \/ WriteCount \/ WriteIndex \/ RegisterStrings
               \/ \E e \in Endpoint : Open(e)
        PROVE  rdy' = rdy
    BY <2>6 DEF TestCsr0, WriteCount, WriteIndex, RegisterStrings, Open, regVars
  <2>7. ASSUME GetDevice \/ \E i \in 0..Len(Strings) : GetString(i)
        PROVE  rdy' = rdy
    BY <2>4, <2>7 DEF GetDevice, GetString
  <2> QED
    BY <2>2, <2>3, <2>4, <2>5, <2>6, <2>7 DEF Next
<1>2. [Next]_vars => [A]_vars
  BY <1>1
<1> HIDE DEF A
<1>3. Spec => [][A]_vars
  BY <1>2, PTL DEF Spec
<1> QED  BY <1>3 DEF A, ControlIsShutOut
=============================================================================
