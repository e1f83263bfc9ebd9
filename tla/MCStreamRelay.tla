--------------------------- MODULE MCStreamRelay ---------------------------
(* Values for model checking StreamRelay.                                   *)
EXTENDS StreamRelay

BothFramings == {"lf", "crlf"}
=============================================================================
