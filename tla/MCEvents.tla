------------------------------ MODULE MCEvents ------------------------------
EXTENDS FrothyEvents
=============================================================================
