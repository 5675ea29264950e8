--------------------------- MODULE MCLogStreams ---------------------------
(* Constants for checking LogStreams.                                      *)
EXTENDS LogStreams

CONSTANTS s1, q1, q2, q3, q4

MCOneServer == {s1}
MCReqs == {q1, q2, q3, q4}
=============================================================================
