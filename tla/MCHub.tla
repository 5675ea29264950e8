------------------------------- MODULE MCHub -------------------------------
(***************************************************************************)
(* Constants for checking Hub.  c1 and c2 are two connections of one       *)
(* agent: the one it had, still half open, and the one it came back with.  *)
(***************************************************************************)
EXTENDS Hub, TLC

CONSTANTS c1, c2, n1, r1, r2, u1

MCConns == {c1, c2}
MCNames == {n1}
MCNameOf == [c \in MCConns |-> n1]
MCRequests == {r1, r2}
MCTarget == [r \in MCRequests |-> n1]
MCOneRequest == {r1}
MCOneTarget == [r \in MCOneRequest |-> n1]
MCUIs == {u1}
MCNoUIs == {}

MCSymmetryConns == Permutations(MCConns)
=============================================================================
