------------------------------- MODULE MCPhy -------------------------------
(***************************************************************************)
(* The two bulk pipes, which get the same number, one with another number, *)
(* and one that gets the place behind the struct, and with it any number   *)
(* and direction; and packets of two sizes, one that needs both bytes of   *)
(* RXCOUNT.                                                                *)
(***************************************************************************)
EXTENDS MusbPhy

FewKinds == {<<"BULK", "OUT">>, <<"BULK", "IN">>, <<"ISOC", "IN">>, <<"INT", "OUT">>}
TwoSizes == {8, 256}
=============================================================================
