------------------------------- MODULE MCHost -------------------------------
EXTENDS FrothyHost
=============================================================================
