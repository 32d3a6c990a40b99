------------------------------ MODULE Nothing -------------------------------
(* The constant that modules checked together share.                       *)
CONSTANT None   \* Python's None
=============================================================================
