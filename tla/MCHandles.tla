----------------------------- MODULE MCHandles -----------------------------
EXTENDS FrothyHandles
=============================================================================
