----------------------------- MODULE FrothyHost -----------------------------
(***************************************************************************)
(* The host program runs one command at a time on a port                   *)
(* (cmd/frothy-session/main.go): one that sends lines, or a session at the *)
(* terminal.  The other's variables keep their initial values.             *)
(***************************************************************************)
EXTENDS FrothySend, FrothyConnect

VARIABLE command

hostRun == <<sendVars, connectVars, command>>

HostInit ==
    /\ command \in {"lines", "connect"}
    /\ SendInit /\ ConnectInit
    /\ command = "connect" => verb = "wipe-user" /\ board = "prompt" /\ tx = <<>>

OfLines(A) == command = "lines" /\ A /\ UNCHANGED <<connectVars, command>>

HostNextStep ==
    \/ command = "lines" /\ SendNext /\ UNCHANGED <<connectVars, command>>
    \/ command = "connect" /\ ConnectNext /\ UNCHANGED <<sendVars, command>>

\* The board goes on and a line it evaluates ends; a wait of the host ends by
\* its time-out if by nothing else.
HostFairness == WF_hostRun(OfLines(BoardNext)) /\ WF_hostRun(OfLines(HostNext))

HostSpec == HostInit /\ [][HostNextStep]_hostRun /\ HostFairness

=============================================================================
