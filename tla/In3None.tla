------------------------------ MODULE In3None ------------------------------
(***************************************************************************)
(* What the parts of the in3 client that are checked together have in        *)
(* common: the value that stands for a NULL pointer or an absent field.      *)
(***************************************************************************)
CONSTANT None
=============================================================================
