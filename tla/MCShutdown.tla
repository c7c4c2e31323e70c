---------------------------- MODULE MCShutdown ----------------------------
EXTENDS Shutdown
=============================================================================
