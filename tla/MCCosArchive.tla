---------------------------- MODULE MCCosArchive ----------------------------
(* Two publishers of one commit id and a source of up to two files, the    *)
(* second of which may be created while it is listed.                      *)
EXTENDS CosArchive, TLC

Interchangeable == Permutations(Publishers)
=============================================================================
