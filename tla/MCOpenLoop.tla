----------------------------- MODULE MCOpenLoop -----------------------------
(* Values for model checking OpenLoop.                                      *)
EXTENDS OpenLoop
=============================================================================
