------------------------------ MODULE MCPanel ------------------------------
EXTENDS Panel
=============================================================================
