----------------------------- MODULE MCBleRadio -----------------------------
(* Three starts: one that is interrupted, one that finds its remains and one *)
(* that runs over whatever the second one left.                              *)
EXTENDS FrothyBleRadio

Lives == 3
=============================================================================
