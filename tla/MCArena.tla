------------------------------- MODULE MCArena -------------------------------
EXTENDS Arena
=============================================================================
