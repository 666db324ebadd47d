-------------------------------- MODULE MCTx --------------------------------
(***************************************************************************)
(* The control endpoint and two others, packets that fill it and packets   *)
(* that do not, and a table of three strings: one behind another that fits *)
(* the endpoint, and a third that is longer than the endpoint's buffer.    *)
(***************************************************************************)
EXTENDS MusbTx

ThreeStrings == <<4, 6, 100>>
=============================================================================
