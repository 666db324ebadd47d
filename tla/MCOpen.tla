------------------------------- MODULE MCOpen -------------------------------
(***************************************************************************)
(* The control pipe and up to three others, so that a link broken by one   *)
(* opening is mended by the next while a third is still to come.           *)
(***************************************************************************)
EXTENDS UsbdOpen
=============================================================================
