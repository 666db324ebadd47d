----------------------------- MODULE MCControl -----------------------------
(***************************************************************************)
(* The control pipe with two packets from the host and one packet of a     *)
(* reply, so that both directions meet in the lbuf.                        *)
(***************************************************************************)
EXTENDS UsbdControl

Standard == {"standard"}
Any      == {"standard", "class", "data"}
=============================================================================
