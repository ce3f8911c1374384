------------------------------- MODULE BlePower -------------------------------
(***************************************************************************)
(* What the radio of the ESP32 boards promises the rest of the firmware:   *)
(* one Bluetooth host at a time, and the five states a program can read    *)
(* with `ble.status`.  A power cycle may fail at any point, and then what   *)
(* is left of the host stays owned until a later call has released it.      *)
(***************************************************************************)
EXTENDS Naturals

VARIABLES
  radio,   \* the state the status native reports
  hosts    \* how many NimBLE ports are initialised

bpvars == <<radio, hosts>>

RadioStates == {"OFF", "STARTING", "READY", "FAILED", "STOPPING"}

BpInit == radio = "OFF" /\ hosts = 0

\* A start is only ever begun with no host left over.
BpStart == radio \in {"OFF", "FAILED"} /\ hosts = 0 /\ radio' = "STARTING" /\ UNCHANGED hosts

\* The host comes into being during a start, and nowhere else.
BpUp == radio = "STARTING" /\ hosts = 0 /\ hosts' = 1 /\ UNCHANGED radio

BpReady == radio = "STARTING" /\ hosts = 1 /\ radio' = "READY" /\ UNCHANGED hosts

BpFail == radio \in {"STARTING", "READY", "STOPPING"} /\ radio' = "FAILED" /\ UNCHANGED hosts

BpStop == radio \in {"STARTING", "READY", "FAILED"} /\ radio' = "STOPPING" /\ UNCHANGED hosts

\* The host is released by a stop, or by a start that could not be finished.
BpDown == radio \in {"STARTING", "FAILED", "STOPPING"} /\ hosts = 1 /\ hosts' = 0 /\ UNCHANGED radio

\* ... before a host task exists in one go, as nothing else can look.
BpGiveBack == radio \in {"STARTING", "FAILED"} /\ hosts = 1 /\ hosts' = 0 /\ radio' = "OFF"

BpOff == hosts = 0 /\ radio # "READY" /\ radio' = "OFF" /\ UNCHANGED hosts

BpNext == BpStart \/ BpUp \/ BpReady \/ BpFail \/ BpStop \/ BpDown \/ BpGiveBack \/ BpOff

BpSpec == BpInit /\ [][BpNext]_bpvars
=============================================================================
