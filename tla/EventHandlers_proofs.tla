------------------------ MODULE EventHandlers_proofs ------------------------
(***************************************************************************)
(* Proofs about the lists of callbacks, for any handlers and any number of *)
(* contexts that emit events at the same time.                             *)
(***************************************************************************)
EXTENDS EventHandlers, SequenceTheorems, FiniteSetTheorems, TLAPS

\* The types, as far as they are not in the invariants below.
Typed ==
  /\ handlers \in Seq(Handler) /\ registered \in Seq(Handler)
  /\ emitting \subseteq Context
  /\ it \in [Context -> Seq(Handler)]
  /\ called \in [Context -> Seq(Handler)]
  /\ owed \in [Context -> Nat]

\* The list is as it was registered, and the library has linked no item twice.
ListIsRegistered ==
  /\ handlers = registered
  /\ \A i, j \in 1..Len(handlers) : handlers[i] = handlers[j] => i = j

\* A walk has called the first handlers of the list, as it is by now, and its
\* iterator is at the last of them.
WalkIsPrefix ==
  \A c \in Context :
    /\ Len(called[c]) <= Len(handlers)
    /\ \A i \in 1..Len(called[c]) : called[c][i] = handlers[i]
    /\ called[c] = << >> => it[c] = << >>
    /\ called[c] # << >> => it[c] = <<handlers[Len(called[c])]>>

\* Nobody is owed a call who is not in the list; a walk that is over has called
\* them all.
OwedAreListed ==
  \A c \in Context :
    /\ owed[c] <= Len(handlers)
    /\ c \notin emitting => Len(called[c]) >= owed[c]

IInv == Typed /\ ListIsRegistered /\ WalkIsPrefix /\ OwedAreListed

-----------------------------------------------------------------------------
\* Although it is found by the item it is at, in a list that may have grown, the
\* iterator of ucd_emit_event goes on to the first handler not yet called.
LEMMA FollowingIsNext ==
  ASSUME Typed, ListIsRegistered, WalkIsPrefix, NEW c \in Context
  PROVE  Following(c) = Len(called[c]) + 1
<1>1. /\ called[c] \in Seq(Handler) /\ Len(called[c]) \in Nat
      /\ handlers \in Seq(Handler) /\ Len(handlers) \in Nat
  BY LenProperties DEF Typed
<1>2. CASE called[c] = << >>
  <2>1. it[c] = << >> /\ Len(called[c]) = 0
    BY <1>2 DEF WalkIsPrefix
  <2> QED  BY <2>1 DEF Following
<1>3. CASE called[c] # << >>
  <2> DEFINE n == Len(called[c])
             at == CHOOSE i \in 1..Len(handlers) : <<handlers[i]>> = it[c]
  <2>1. n \in 1..Len(handlers) /\ it[c] = <<handlers[n]>>
    BY <1>1, <1>3, EmptySeq DEF WalkIsPrefix
  <2>2. at \in 1..Len(handlers) /\ <<handlers[at]>> = it[c]
    BY <2>1
  <2>3. handlers[at] = handlers[n]
    BY <2>1, <2>2
  <2>4. at = n
    BY <2>1, <2>2, <2>3 DEF ListIsRegistered
  <2>5. it[c] # << >>
    BY <2>1
  <2>6. Following(c) = 1 + at
    BY <2>5 DEF Following
  <2> HIDE DEF at
  <2> QED  BY <1>1, <2>4, <2>6
<1> QED  BY <1>2, <1>3

\* Adding a handler leaves what was in the list where it was.
LEMMA LinkedBehind ==
  ASSUME Typed, ListIsRegistered, NEW h \in Handler, AddEventHandler(h)
  PROVE  /\ handlers' \in Seq(Handler) /\ registered' = handlers'
         /\ Len(handlers) \in Nat /\ Len(handlers') = Len(handlers) + 1
         /\ \A i \in 1..Len(handlers) : handlers'[i] = handlers[i] /\ handlers[i] # h
         /\ handlers'[Len(handlers) + 1] = h
<1>1. /\ handlers' = Append(handlers, h) /\ registered' = Append(registered, h)
      /\ \A i \in 1..Len(handlers) : handlers[i] # h
  BY DEF AddEventHandler, Link
<1>2. handlers \in Seq(Handler) /\ registered = handlers
  BY DEF Typed, ListIsRegistered
<1> QED  BY <1>1, <1>2, AppendProperties, LenProperties

\* ucd_emit_event and usb_contoller_add_event_hander keep to it, from any number
\* of contexts.
THEOREM WalksKeepToTheList == Spec => []IInv
<1>1. Init => IInv
  <2> SUFFICES ASSUME Init PROVE IInv
    OBVIOUS
  <2>1. /\ << >> \in Seq(Handler) /\ Len(<< >>) = 0
    BY EmptySeq
  <2> QED
    BY <2>1 DEF Init, IInv, Typed, ListIsRegistered, WalkIsPrefix, OwedAreListed
<1>2. IInv /\ [Next]_vars => IInv'
  <2> SUFFICES ASSUME IInv, [Next]_vars PROVE IInv'
    OBVIOUS
  <2> USE DEF IInv
  <2>0. Len(handlers) \in Nat
    BY LenProperties DEF Typed
  <2>1. ASSUME NEW h \in Handler, AddEventHandler(h) PROVE IInv'
    <3>1. UNCHANGED <<it, emitting, called, owed>>
      BY <2>1 DEF AddEventHandler, Link
    <3>2. /\ handlers' \in Seq(Handler) /\ registered' = handlers'
          /\ Len(handlers') = Len(handlers) + 1
          /\ \A i \in 1..Len(handlers) : handlers'[i] = handlers[i] /\ handlers[i] # h
          /\ handlers'[Len(handlers) + 1] = h
      BY <2>1, LinkedBehind
    <3>3. Typed'
      BY <3>1, <3>2 DEF Typed
    <3>4. ListIsRegistered'
      BY <2>0, <3>2 DEF ListIsRegistered
    <3>5. WalkIsPrefix'
      <4> SUFFICES ASSUME NEW c \in Context
                   PROVE  /\ Len(called[c]) <= Len(handlers')
                          /\ \A i \in 1..Len(called[c]) : called[c][i] = handlers'[i]
                          /\ called[c] = << >> => it[c] = << >>
                          /\ called[c] # << >> => it[c] = <<handlers'[Len(called[c])]>>
        BY <3>1 DEF WalkIsPrefix
      <4>1. Len(called[c]) \in Nat /\ (called[c] # << >> => Len(called[c]) # 0)
        BY EmptySeq, LenProperties DEF Typed
      <4>2. \A i \in 1..Len(called[c]) : i \in 1..Len(handlers)
        BY <2>0, <4>1 DEF WalkIsPrefix
      <4> QED
        BY <2>0, <3>2, <4>1, <4>2 DEF WalkIsPrefix
    <3>6. OwedAreListed'
      BY <2>0, <3>1, <3>2 DEF OwedAreListed, Typed
    <3> QED  BY <3>3, <3>4, <3>5, <3>6
  <2>2. ASSUME NEW c \in Context, EmitEvent(c) PROVE IInv'
    <3>1. /\ it' = [it EXCEPT ![c] = << >>] /\ called' = [called EXCEPT ![c] = << >>]
          /\ owed' = [owed EXCEPT ![c] = Len(handlers)]
          /\ emitting' = emitting \cup {c}
          /\ UNCHANGED <<handlers, registered>>
      BY <2>2 DEF EmitEvent
    <3>2. << >> \in Seq(Handler) /\ Len(<< >>) = 0
      BY EmptySeq
    <3>3. Typed'
      BY <2>0, <3>1, <3>2 DEF Typed
    <3>4. ListIsRegistered'
      BY <3>1 DEF ListIsRegistered
    <3>5. \A d \in Context : d # c => called'[d] = called[d] /\ it'[d] = it[d]
                                      /\ owed'[d] = owed[d]
      BY <3>1 DEF Typed
    <3>6. called'[c] = << >> /\ it'[c] = << >> /\ owed'[c] = Len(handlers)
      BY <3>1 DEF Typed
    <3>7. WalkIsPrefix'
      BY <2>0, <3>1, <3>2, <3>5, <3>6 DEF WalkIsPrefix
    <3>8. OwedAreListed'
      BY <2>0, <3>1, <3>5, <3>6 DEF OwedAreListed
    <3> QED  BY <3>3, <3>4, <3>7, <3>8
  <2>3. ASSUME NEW c \in Context, CallNext(c) PROVE IInv'
    <3> DEFINE n == Len(called[c]) + 1
    <3>1. /\ n \in 1..Len(handlers)
          /\ it' = [it EXCEPT ![c] = <<handlers[n]>>]
          /\ called' = [called EXCEPT ![c] = Append(called[c], handlers[n])]
          /\ UNCHANGED <<handlers, emitting, owed, registered>>
      <4>1. Following(c) = n /\ Len(called[c]) \in Nat
        BY FollowingIsNext, LenProperties DEF Typed
      <4> QED  BY <2>0, <2>3, <4>1 DEF CallNext, HasNext
    <3>2. /\ handlers[n] \in Handler
          /\ called[c] \in Seq(Handler) /\ Len(called[c]) \in Nat
      BY <3>1, ElementOfSeq, LenProperties DEF Typed
    <3>3. /\ called'[c] \in Seq(Handler) /\ called'[c] # << >>
          /\ Len(called'[c]) = n
          /\ \A i \in 1..Len(called[c]) : called'[c][i] = called[c][i]
          /\ called'[c][n] = handlers[n]
          /\ it'[c] = <<handlers[n]>>
      <4>1. /\ called'[c] = Append(called[c], handlers[n])
            /\ it'[c] = <<handlers[n]>>
        BY <3>1 DEF Typed
      <4>2. n = Len(called[c]) + 1
        OBVIOUS
      <4> HIDE DEF n
      <4>3. \A i \in 1..Len(called[c]) :
               /\ Append(called[c], handlers[n])[i] = called[c][i]
               /\ i \in 1..n
        BY <3>2, <4>2, AppendProperties
      <4> QED  BY <3>2, <4>1, <4>2, <4>3, AppendProperties
    <3>4. \A d \in Context : d # c => called'[d] = called[d] /\ it'[d] = it[d]
      BY <3>1 DEF Typed
    <3>5. Typed'
      BY <3>1, <3>2, <3>3 DEF Typed
    <3>6. ListIsRegistered'
      BY <3>1 DEF ListIsRegistered
    <3>7. WalkIsPrefix'
      <4>1. ASSUME NEW i \in 1..Len(called'[c]) PROVE called'[c][i] = handlers[i]
        <5>1. i = n \/ i \in 1..Len(called[c])
          BY <3>2, <3>3
        <5> QED  BY <3>3, <5>1 DEF WalkIsPrefix
      <4> HIDE DEF n
      <4> QED  BY <2>0, <3>1, <3>3, <3>4, <4>1 DEF WalkIsPrefix
    <3>8. OwedAreListed'
      <4> HIDE DEF n
      <4>1. Len(called'[c]) >= Len(called[c])
        BY <3>2, <3>3 DEF n
      <4>2. \A d \in Context : owed[d] \in Nat /\ Len(called[d]) \in Nat
        BY LenProperties DEF Typed
      <4>3. Len(called'[c]) \in Nat
        BY <3>3, LenProperties
      <4> QED  BY <2>0, <3>1, <3>4, <4>1, <4>2, <4>3 DEF OwedAreListed
    <3> QED  BY <3>5, <3>6, <3>7, <3>8
  <2>4. ASSUME NEW c \in Context, Return(c) PROVE IInv'
    <3>1. emitting' = emitting \ {c} /\ UNCHANGED <<handlers, it, called, owed, registered>>
      BY <2>4 DEF Return
    <3>2. Len(called[c]) >= owed[c]
      <4>1. Following(c) = Len(called[c]) + 1 /\ Len(called[c]) \in Nat /\ owed[c] \in Nat
        BY FollowingIsNext, LenProperties DEF Typed
      <4>2. owed[c] <= Len(handlers)
        BY DEF OwedAreListed
      <4> QED  BY <2>0, <2>4, <4>1, <4>2 DEF Return, HasNext
    <3>3. OwedAreListed'
      BY <3>1, <3>2 DEF OwedAreListed
    <3> QED  BY <3>1, <3>3 DEF Typed, ListIsRegistered, WalkIsPrefix
  <2>5. CASE UNCHANGED vars
    BY <2>5 DEF vars, Typed, ListIsRegistered, WalkIsPrefix, OwedAreListed
  <2> QED
    BY <2>1, <2>2, <2>3, <2>4, <2>5 DEF Next
<1> QED
  BY <1>1, <1>2, PTL DEF Spec

\* Whatever is registered during a walk, and whoever else walks the list, the walk
\* calls the handlers in the order of their registration, none twice.
THEOREM HandlersAreCalledInOrder == Spec => []InRegistrationOrder
<1>1. IInv => InRegistrationOrder
  <2> SUFFICES ASSUME IInv, NEW c \in Context
               PROVE  called[c] = SubSeq(registered, 1, Len(called[c]))
    BY DEF InRegistrationOrder
  <2>1. /\ called[c] \in Seq(Handler) /\ Len(called[c]) \in Nat
        /\ Len(called[c]) <= Len(registered)
        /\ registered \in Seq(Handler) /\ Len(registered) \in Nat
        /\ \A i \in 1..Len(called[c]) : called[c][i] = registered[i]
    BY LenProperties DEF IInv, Typed, ListIsRegistered, WalkIsPrefix
  <2> DEFINE n == Len(called[c])
             first == SubSeq(registered, 1, n)
  <2>2. \A i \in 1..n : registered[i] \in Handler
    BY <2>1, ElementOfSeq
  <2>3. /\ first \in Seq(Handler) /\ Len(first) = n
        /\ \A i \in 1..n : first[i] = registered[i]
    <3> HIDE DEF n
    <3>1. n \in Nat
      BY <2>1 DEF n
    <3>2. /\ SubSeq(registered, 1, n) \in Seq(Handler)
          /\ Len(SubSeq(registered, 1, n)) = IF 1 <= n THEN n - 1 + 1 ELSE 0
          /\ \A i \in 1..(n - 1 + 1) : SubSeq(registered, 1, n)[i] = registered[1 + i - 1]
      BY <2>2, <3>1, SubSeqProperties
    <3> QED  BY <3>1, <3>2
  <2> HIDE DEF first
  <2>4. called[c] = first
    BY <2>1, <2>3, SeqEqual
  <2> QED  BY <2>4 DEF first
<1> QED  BY <1>1, WalksKeepToTheList, PTL

\* Whoever was registered when ucd_emit_event was called has had the event when it
\* returns.
THEOREM EverybodyIsCalled == Spec => []NobodyIsLeftOut
<1>1. IInv => NobodyIsLeftOut
  BY DEF IInv, OwedAreListed, NobodyIsLeftOut
<1> QED  BY <1>1, WalksKeepToTheList, PTL

-----------------------------------------------------------------------------
(* What is left of EmissionEnds without fairness: a walk makes a step at   *)
(* most once for each handler there can be, whoever keeps adding them.     *)

NobodyTwice ==
  \A c \in Context : \A i, j \in 1..Len(called[c]) :
    called[c][i] = called[c][j] => i = j
BoundedWalk == \A c \in Context : Len(called[c]) <= Cardinality(Handler)

\* However the list grows in front of it, ucd_emit_event calls no handler twice, and
\* so no more than there are.
THEOREM WalksAreBounded ==
  ASSUME IsFiniteSet(Handler)
  PROVE  Spec => [](NobodyTwice /\ BoundedWalk)
<1>1. IInv => NobodyTwice /\ BoundedWalk
  <2> SUFFICES ASSUME IInv, NEW c \in Context
               PROVE  /\ \A i, j \in 1..Len(called[c]) :
                           called[c][i] = called[c][j] => i = j
                      /\ Len(called[c]) <= Cardinality(Handler)
    BY DEF NobodyTwice, BoundedWalk
  <2> DEFINE n == Len(called[c])
  <2>1. /\ n \in Nat /\ n <= Len(handlers) /\ Len(handlers) \in Nat
        /\ called[c] \in Seq(Handler)
        /\ \A i \in 1..n : called[c][i] = handlers[i] /\ i \in 1..Len(handlers)
    BY LenProperties DEF IInv, Typed, WalkIsPrefix
  <2>2. called[c] \in [1..n -> Handler]
    BY <2>1, LenProperties
  <2>3. \A i, j \in 1..n : called[c][i] = called[c][j] => i = j
    BY <2>1 DEF IInv, ListIsRegistered
  <2> HIDE DEF n
  <2>4. called[c] \in Injection(1..n, Handler)
    BY <2>2, <2>3 DEF Injection, IsInjective
  <2>5. Cardinality(1..n) <= Cardinality(Handler)
    BY <2>4, FS_Injection
  <2>6. Cardinality(1..n) = n
    <3>1. n \in Nat /\ 1 \in Int /\ n \in Int
      BY <2>1 DEF n
    <3>2. Cardinality(1..n) = IF 1 > n THEN 0 ELSE n - 1 + 1
      BY <3>1, FS_Interval
    <3> QED  BY <3>1, <3>2
  <2> QED  BY <2>3, <2>5, <2>6 DEF n
<1> QED  BY <1>1, WalksKeepToTheList, PTL
=============================================================================
