-------------------------------- MODULE MCBle --------------------------------
(* A build that advertises, accepts and serves, one that scans, connects and  *)
(* asks, one that only scans and advertises, and one that advertises, accepts *)
(* and connects: esp32_plain.h enables all six roles, and these builds take   *)
(* them in the groups that share the controller or the connection slot.       *)
EXTENDS FrothyBleGatt

Peripheral == {"broadcaster", "peripheral", "server"}
Central == {"observer", "central", "client"}
Broadcast == {"observer", "broadcaster"}
EitherEnd == {"broadcaster", "peripheral", "central"}
BuildsChecked == {Peripheral, Central, Broadcast, EitherEnd}
Lives == 2
=============================================================================
