----------------------------- MODULE PacketQueue -----------------------------
(***************************************************************************)
(* What the upload half of the protocol layer promises the owner of a      *)
(* pipe: the packets it has accepted for the pipe are handed to the pipe's *)
(* handler once each, in the order they were accepted, and each of them is *)
(* handed over in the end, unless the reader has gone for good before.  A  *)
(* packet the layer has no memory for is not accepted, and nothing is      *)
(* promised about it.                                                      *)
(***************************************************************************)
EXTENDS Naturals, Sequences

CONSTANTS
  Pipe,      \* the pipes packets are received on
  Packet     \* what the hardware can receive

VARIABLES
  accepted,  \* accepted[p]: everything accepted for pipe p so far
  delivered, \* delivered[p]: everything handed to p's handler so far
  gone       \* the reader has left and does not come back

queueVars == <<accepted, delivered, gone>>

Init ==
  /\ accepted  = [p \in Pipe |-> << >>]
  /\ delivered = [p \in Pipe |-> << >>]
  /\ gone = FALSE

Accept(p) ==
  /\ \E pkt \in Packet : accepted' = [accepted EXCEPT ![p] = Append(@, pkt)]
  /\ UNCHANGED <<delivered, gone>>

Deliver(p) ==
  /\ ~gone
  /\ Len(delivered[p]) < Len(accepted[p])
  /\ delivered' = [delivered EXCEPT
                     ![p] = Append(@, accepted[p][Len(delivered[p]) + 1])]
  /\ UNCHANGED <<accepted, gone>>

Leave ==
  /\ ~gone /\ gone' = TRUE
  /\ UNCHANGED <<accepted, delivered>>

Next == Leave \/ \E p \in Pipe : Accept(p) \/ Deliver(p)

Spec == Init /\ [][Next]_queueVars

FairSpec == Spec /\ \A p \in Pipe : WF_queueVars(Deliver(p))
=============================================================================
