----------------------------- MODULE Transfers -----------------------------
(***************************************************************************)
(* What the send half of the protocol layer promises an upper layer that   *)
(* sends one transfer at a time: the host gets the packets the transfers   *)
(* were cut into, once each and in order, and the upper layer is told of   *)
(* no more transfers than the host has the last packet of.                 *)
(***************************************************************************)
EXTENDS Naturals, Sequences, FiniteSets

CONSTANTS
  Packet,  \* what transfers are cut into; p.xfer is the transfer of packet p
  Last     \* the packets that are the last of their transfer

VARIABLES
  queued,  \* the packets of all transfers, as they were cut off
  wire,    \* the packets the host has
  told     \* the number of transfers the upper layer was told are over

transferVars == <<queued, wire, told>>

Init == queued = << >> /\ wire = << >> /\ told = 0

Cut ==
  /\ Len(queued') = Len(queued) + 1
  /\ queued' = Append(queued, queued'[Len(queued')])
  /\ queued'[Len(queued')] \in Packet
  /\ UNCHANGED <<wire, told>>

Take ==
  /\ Len(wire) < Len(queued)
  /\ wire' = Append(wire, queued[Len(wire) + 1])
  /\ UNCHANGED <<queued, told>>

\* The transfers the host has the last packet of.
Over == {wire[i].xfer : i \in {j \in 1..Len(wire) : wire[j] \in Last}}

Tell ==
  /\ told < Cardinality(Over)
  /\ told' = told + 1
  /\ UNCHANGED <<queued, wire>>

Next == Cut \/ Take \/ Tell

Spec == Init /\ [][Next]_transferVars
=============================================================================
