---------------------------- MODULE MCAdmission ----------------------------
(* Constants for checking Admission.                                       *)
EXTENDS Admission, TLC

CONSTANTS c1, c2, p1, p2

MCConns == {c1, c2}
MCApprovals == {p1, p2}
MCOneApproval == {p1}

MCSymmetry == Permutations(MCConns) \cup Permutations(MCApprovals)
=============================================================================
