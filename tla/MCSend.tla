------------------------------- MODULE MCSend -------------------------------
(***************************************************************************)
(* Packets of two bytes and transfers of up to three of them, and in       *)
(* AnySizes the empty one, ones that end in a short packet, and ones of    *)
(* more packets than an lbuf of three can take.                            *)
(***************************************************************************)
EXTENDS UsbdSend

WholeSizes == {2, 4, 6}
AnySizes   == 0..8
=============================================================================
