--------------------------- MODULE MCLoginThrottle ---------------------------
(* Model-checking instance of LoginThrottle. *)
EXTENDS LoginThrottle
=============================================================================
