------------------------ MODULE MCServerLifecycle ------------------------
(***************************************************************************)
(* Constants for checking ServerLifecycle: one server and one name.        *)
(***************************************************************************)
EXTENDS ServerLifecycle, TLC

CONSTANTS s1, a, k1, k2, k3

MCOneServer == {s1}
MCNames == {a}
MCOneName == [s \in MCOneServer |-> a]
MCExact == [n \in MCNames |-> {n}]
MCThreeCmds == {k1, k2, k3}

MCSymmetry3 == Permutations(MCThreeCmds)
=============================================================================
