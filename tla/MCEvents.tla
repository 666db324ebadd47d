------------------------------ MODULE MCEvents ------------------------------
(***************************************************************************)
(* Four handlers and two contexts, a thread and the interrupt, so that    *)
(* both walk a list that grows in front of the one and behind the other.   *)
(***************************************************************************)
EXTENDS EventHandlers
=============================================================================
