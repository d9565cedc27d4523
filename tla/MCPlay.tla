------------------------------- MODULE MCPlay -------------------------------
EXTENDS Play

MCGuns == {"small", "big"}
=============================================================================
