---------------------------- MODULE MCModelCall ----------------------------
(* Values for model checking ModelCall.                                    *)
EXTENDS ModelCall
=============================================================================
