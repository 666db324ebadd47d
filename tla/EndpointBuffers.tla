-------------------------- MODULE EndpointBuffers --------------------------
(***************************************************************************)
(* What musb_send_packet is to those who call it, if they use it rightly:  *)
(* an endpoint holds one packet at a time, from the call on and unchanged, *)
(* until the host has taken it.  It is where the protocol layer and the    *)
(* driver meet: the driver is to keep it, and who sends is to keep to it.  *)
(***************************************************************************)
EXTENDS Sequences

CONSTANTS
  Endpoint,  \* endpoint numbers
  Packet,    \* what is sent
  Of,        \* Of[p]: the endpoint packet p is for
  Seen       \* Seen[p]: what the host sees when it takes p

VARIABLES
  held,      \* held[e]: << >>, or the packet endpoint e holds
  wire,      \* what the host has taken
  astray,    \* INDEX has left endpoint 0
  misused    \* the driver was used as it must not be

bufferVars == <<held, wire, astray, misused>>

Init ==
  /\ held = [e \in Endpoint |-> << >>] /\ wire = << >>
  /\ ~astray /\ ~misused

\* An endpoint that holds nothing is given a packet of its own.
Put(e) ==
  /\ held[e] = << >>
  /\ Len(held'[e]) = 1 /\ held'[e][1] \in Packet /\ Of[held'[e][1]] = e
  /\ held' = [held EXCEPT ![e] = held'[e]]
  /\ UNCHANGED wire

\* The host takes all of what an endpoint holds.
Take(e) ==
  /\ held[e] # << >>
  /\ wire' = Append(wire, Seen[held[e][1]])
  /\ held' = [held EXCEPT ![e] = << >>]

\* When INDEX has left it, the control endpoint loses what it is given, and may
\* flush what another one holds.
Lose(e) ==
  /\ astray
  /\ held' = [d \in Endpoint |-> IF d \in {0, e} THEN << >> ELSE held[d]]
  /\ UNCHANGED wire

\* Nothing is promised from a misuse on.  INDEX may leave endpoint 0 with any step
\* and does not come back.
Next ==
  /\ misused => misused'
  /\ astray => astray'
  /\ \/ misused'
     \/ \E e \in Endpoint : Put(e) \/ Take(e) \/ Lose(e)
     \/ UNCHANGED <<held, wire>>

Spec == Init /\ [][Next]_bufferVars
=============================================================================
