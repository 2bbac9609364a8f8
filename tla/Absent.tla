------------------------------- MODULE Absent -------------------------------
(* The value of an Option that is None, shared by the modules that use it.  *)
CONSTANT Null
=============================================================================
