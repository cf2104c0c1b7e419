-------------------------- MODULE MCSessionRouting --------------------------
EXTENDS SessionRouting
=============================================================================
