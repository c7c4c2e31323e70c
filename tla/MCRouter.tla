------------------------------ MODULE MCRouter ------------------------------
EXTENDS Router
=============================================================================
