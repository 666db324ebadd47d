--------------------------- MODULE EventHandlers ---------------------------
(***************************************************************************)
(* The lists of callbacks by which events reach the upper layer.  The same *)
(* code stands three times: for the events of the protocol layer           *)
(* (usbd_protocol_layer.c), for those of the controller driver             *)
(* (usb_controller_driver.c) and for the packets of the USB classes        *)
(* (usbd_class_dispatch.c).                                                *)
(*                                                                         *)
(* Whoever has an event walks the list and calls one callback after the    *)
(* other, without a lock: others may walk it at the same time, and         *)
(* handlers are registered during a walk, by the callbacks among others.   *)
(* The list and its iterator are a library's: an item is linked once.      *)
(***************************************************************************)
EXTENDS Naturals, Sequences

CONSTANTS
  Handler,   \* the callback registrations
  Context    \* the contexts that emit events

VARIABLES
  handlers,   \* the list, in its order
  it,         \* it[c]: the item c's iterator is at, << >> before the first
  emitting,   \* the contexts in ucd_emit_event
  called,     \* history: the callbacks of the event c is at, or emitted last
  owed,       \* history: the length of the list when that event was emitted
  registered  \* history: the handlers in the order of their registration

vars == <<handlers, it, emitting, called, owed, registered>>

Init ==
  /\ handlers = << >> /\ registered = << >> /\ emitting = {}
  /\ it     = [c \in Context |-> << >>]
  /\ called = [c \in Context |-> << >>]
  /\ owed   = [c \in Context |-> 0]

\* The library links an item once.
Link(h, longer) ==
  /\ \A i \in 1..Len(handlers) : handlers[i] # h
  /\ handlers' = longer
  /\ registered' = Append(registered, h)
  /\ UNCHANGED <<it, emitting, called, owed>>

\* usb_contoller_add_event_hander, and the slip of adding at the other end.
AddHeadHandler(h)  == Link(h, <<h>> \o handlers)
AddEventHandler(h) == Link(h, Append(handlers, h))

\* ucd_emit_event: the iterator stands before the first item.
EmitEvent(c) ==
  /\ c \notin emitting
  /\ emitting' = emitting \cup {c}
  /\ it' = [it EXCEPT ![c] = << >>]
  /\ called' = [called EXCEPT ![c] = << >>]
  /\ owed' = [owed EXCEPT ![c] = Len(handlers)]
  /\ UNCHANGED <<handlers, registered>>

\* The place in the list behind the iterator's item, as the list is now.
Following(c) ==
  IF it[c] = << >> THEN 1
  ELSE 1 + CHOOSE i \in 1..Len(handlers) : <<handlers[i]>> = it[c]
HasNext(c) == Following(c) <= Len(handlers)

\* A slip: the iterator is not advanced (what it calls again is not recorded).
CallAgain(c) ==
  /\ c \in emitting /\ HasNext(c)
  /\ called' = [called EXCEPT ![c] = <<handlers[1]>>]
  /\ UNCHANGED <<handlers, it, emitting, owed, registered>>

\* linked_list_iterator_next() and entry->callback().
CallNext(c) ==
  /\ c \in emitting /\ HasNext(c)
  /\ it' = [it EXCEPT ![c] = <<handlers[Following(c)]>>]
  /\ called' = [called EXCEPT ![c] = Append(@, handlers[Following(c)])]
  /\ UNCHANGED <<handlers, emitting, owed, registered>>

\* A slip: the last item ends the loop before its callback is called.
ReturnBeforeLast(c) ==
  /\ c \in emitting /\ Following(c) >= Len(handlers)
  /\ emitting' = emitting \ {c}
  /\ UNCHANGED <<handlers, it, called, owed, registered>>

Return(c) ==
  /\ c \in emitting /\ ~HasNext(c)
  /\ emitting' = emitting \ {c}
  /\ UNCHANGED <<handlers, it, called, owed, registered>>

Next ==
  \/ \E h \in Handler : AddEventHandler(h)
  \/ \E c \in Context : EmitEvent(c) \/ CallNext(c) \/ Return(c)

Spec == Init /\ [][Next]_vars

\* A walk goes on: callbacks return, and the context is run.
FairSpec == Spec /\ \A c \in Context : WF_vars(CallNext(c) \/ Return(c))

-----------------------------------------------------------------------------
(* Properties.                                                             *)

\* However the list grows under a walk of ucd_emit_event, and whoever else walks
\* it, the walk calls the handlers in the order of their registration, from the
\* first on, none twice and none left out.
InRegistrationOrder ==
  \A c \in Context : called[c] = SubSeq(registered, 1, Len(called[c]))

\* When ucd_emit_event returns, whoever was registered when it was called has
\* had the event.
NobodyIsLeftOut == \A c \in Context \ emitting : Len(called[c]) >= owed[c]

\* ucd_emit_event returns, although handlers are added in front of the walk.
EmissionEnds == \A c \in Context : c \in emitting ~> c \notin emitting
=============================================================================
