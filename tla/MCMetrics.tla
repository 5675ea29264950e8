----------------------------- MODULE MCMetrics -----------------------------
EXTENDS Metrics, TLC

Symmetry == Permutations(Agents) \cup Permutations(Fetches)
=============================================================================
