---------------------------- MODULE MCRunResume ----------------------------
(* Values for model checking RunResume.                                    *)
EXTENDS RunResume

CONSTANTS q1, q2, c1, c2

MCQuestions == <<q1, q2>>
=============================================================================
