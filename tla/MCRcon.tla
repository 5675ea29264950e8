------------------------------- MODULE MCRcon -------------------------------
EXTENDS Rcon
=============================================================================
