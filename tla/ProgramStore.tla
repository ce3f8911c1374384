---------------------------- MODULE ProgramStore ----------------------------
(***************************************************************************)
(* What a board promises about saved programs, with no flash in it.  It    *)
(* stores up to two programs.  A new one is taken whole or not at all, it  *)
(* displaces one that is not in use, and the program in use is lost only   *)
(* by a wipe.  Only a program in store is ever used.                       *)
(***************************************************************************)
CONSTANTS Programs, NoProgram

VARIABLES
    newest,     \* the program a start finds first
    older,      \* the one it falls back to
    inUse,      \* the program the runtime runs from
    wiping      \* a wipe is under way

store == <<newest, older, inUse, wiping>>
Stored == Programs \cup {NoProgram}

Init ==
    /\ newest \in Stored /\ older = NoProgram
    /\ inUse = NoProgram /\ wiping = FALSE

\* Room for a new program: the other one stays.
MakeRoom ==
    /\ ~wiping
    /\ \/ older' = NoProgram /\ UNCHANGED newest
       \/ /\ inUse \in {older} \ {NoProgram}
          /\ newest' = older /\ older' = NoProgram
    /\ UNCHANGED <<inUse, wiping>>

Take(p) ==
    /\ ~wiping /\ older = NoProgram
    /\ newest' = p /\ older' = newest
    /\ UNCHANGED <<inUse, wiping>>

Use ==
    /\ ~wiping
    /\ inUse' \in {newest, older} \ {NoProgram}
    /\ UNCHANGED <<newest, older, wiping>>

\* Power goes: what is stored stays, and a save that was under way is taken
\* or is not.
Stop ==
    /\ inUse' = NoProgram /\ wiping' = FALSE
    /\ \/ UNCHANGED <<newest, older>>
       \/ older' = NoProgram /\ UNCHANGED newest
       \/ inUse \in {older} \ {NoProgram} /\ newest' = older /\ older' = NoProgram
       \/ older = NoProgram /\ newest' \in Programs /\ older' = newest
       \/ wiping /\ newest' \in {older, NoProgram} /\ older' = NoProgram

StartWipe ==
    /\ inUse' = NoProgram /\ wiping' = TRUE
    /\ UNCHANGED <<newest, older>>

\* A wipe loses the programs one at a time, in either order.
Lose ==
    /\ wiping
    /\ newest' \in {newest, older, NoProgram} /\ older' = NoProgram
    /\ wiping' \in BOOLEAN
    /\ UNCHANGED inUse

Next ==
    \/ MakeRoom \/ (\E p \in Programs : Take(p)) \/ Use \/ Stop
    \/ StartWipe \/ Lose

Spec == Init /\ [][Next]_store
=============================================================================
