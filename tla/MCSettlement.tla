---------------------------- MODULE MCSettlement ----------------------------
(* Model checking Settlement: every constant is a number or a Boolean, given *)
(* in the configuration files.                                               *)
EXTENDS Settlement
=============================================================================
