------------------------------ MODULE MCBridge ------------------------------
(***************************************************************************)
(* Two registers, so that the interrupt can touch the thread's register or *)
(* the other one, with two values, so that a wrong one shows.              *)
(***************************************************************************)
EXTENDS MusbBridge

CONSTANTS CSR0, INTRTX1

Registers == {CSR0, INTRTX1}
Symmetry  == {[a \in Registers |-> a],
              [a \in Registers |-> IF a = CSR0 THEN INTRTX1 ELSE CSR0]}
=============================================================================
