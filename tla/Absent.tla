------------------------------- MODULE Absent -------------------------------
(* The value of what is not there: Python's None, a file that is missing.   *)
CONSTANT None
=============================================================================
