------------------------------ MODULE Optional ------------------------------
(* What a place holds that holds nothing: undefined in the code.           *)
CONSTANT None
=============================================================================
