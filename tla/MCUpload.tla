------------------------------ MODULE MCUpload ------------------------------
(***************************************************************************)
(* Three pipes: the control pipe first, as usbd_protocol_init opens it,    *)
(* and two OUT pipes, so that the walk passes a pipe with nothing to       *)
(* upload and one OUT pipe can be fed while the thread is at the other.    *)
(***************************************************************************)
EXTENDS UsbdUpload

MCOutPipes == {2, 3}
=============================================================================
