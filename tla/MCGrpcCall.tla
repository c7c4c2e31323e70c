----------------------------- MODULE MCGrpcCall -----------------------------
EXTENDS GrpcCall
MCAddresses == [s \in Static |-> 1]
=============================================================================
