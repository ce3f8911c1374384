----------------------------- MODULE FrothyCode -----------------------------
(* Values and instructions: what the compiler writes and the machine reads.   *)
(* A value is a tuple that starts with its type; an instruction is            *)
(* <<operation, a, b>>, and a jump holds the distance to its target, so that  *)
(* a fragment means the same wherever it is put (the C code writes a          *)
(* placeholder and patches the absolute offset in).                           *)
EXTENDS Integers, Sequences

CONSTANTS MaxLocals,    \* FR_PARSE_MAX_LOCALS: locals of one frame
          MaxStack      \* FR_PROFILE_MAX_STACK_DEPTH

ASSUME CodeLimits == MaxLocals \in Nat \ {0} /\ MaxStack \in Nat \ {0}

Nil == <<"nil">>
Truth(b) == <<"bool", b>>
Num(n) == <<"int", n>>
Op1(op, a) == <<op, a, 0>>
Op2(op, a, b) == <<op, a, b>>
Push(v) == Op1("push", v)
Drop == Op1("drop", 0)

\* The errors of fr_err_t that are raised here, from 1: what error.code answers.
Errors == <<"RANGE", "TYPE", "DOMAIN", "CAPACITY", "OVERFLOW", "UNDERFLOW",
            "NOT_FOUND", "INVALID", "UNSUPPORTED", "INTERRUPTED", "CORRUPT",
            "IO", "VOLATILE">>
ErrorNumber(e) == CHOOSE n \in DOMAIN Errors : Errors[n] = e
=============================================================================
