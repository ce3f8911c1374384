---------------------------- MODULE Capabilities ----------------------------
(***************************************************************************)
(* What user code may rely on when it holds handles: a reference stands    *)
(* for one resource, a resource has at most one reference that is live,    *)
(* and a reference that has died stays dead until everything restarts.     *)
(***************************************************************************)
CONSTANTS Refs, Resources

VARIABLES
    live,   \* the references that work, each with its resource
    given   \* every reference ever given out, with its resource

Init == live = {} /\ given = {}

Give(ref, res) ==
    /\ \A x \in given : x.ref # ref
    /\ \A x \in live : x.target # res
    /\ live' = live \cup {[ref |-> ref, target |-> res]}
    /\ given' = given \cup {[ref |-> ref, target |-> res]}

Die == live' \subseteq live /\ UNCHANGED given

Restart == live' = {} /\ given' = {}

Next == (\E ref \in Refs, res \in Resources : Give(ref, res)) \/ Die \/ Restart

Spec == Init /\ [][Next]_<<live, given>>
=============================================================================
