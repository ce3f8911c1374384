----------------------------- MODULE MCPersist -----------------------------
EXTENDS FrothyPersist
=============================================================================
