---------------------------- MODULE MCWgpuWindow ----------------------------
(* A window of three sizes, one of them none.                              *)
EXTENDS WgpuWindow

CONSTANTS Small, Large
=============================================================================
