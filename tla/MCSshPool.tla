------------------------------ MODULE MCSshPool ------------------------------
EXTENDS SshPool
=============================================================================
