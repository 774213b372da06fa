----------------------------- MODULE MCCellBuffer -----------------------------
(***************************************************************************)
(* A small instance of CellBuffer: a letter, an LF and a CR LF; a lone CR  *)
(* comes of deleting the LF after it.                                      *)
(***************************************************************************)
EXTENDS CellBuffer

MCStrings == {<<97>>, <<10>>, <<13, 10>>}
MCComposed == {<<97>>}
=============================================================================
