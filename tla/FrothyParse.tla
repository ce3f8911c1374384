---------------------------- MODULE FrothyParse ----------------------------
(* The parser of Frothy source, src/src/parse.c: a recursive-descent parser   *)
(* with one token of look-ahead and a bounded depth.  A line is a sequence    *)
(* of tokens <<type, spelling>>: "name" (keywords are names too), "int",      *)
(* "text", "op", the brackets, "@[" for a bracket that touches the name       *)
(* before it, and "nl" before a token that starts a new line.  A tree is      *)
(* <<kind, value, children>>.                                                 *)
(*                                                                            *)
(* Every refusal is the same Bad: which diagnostic a refused line gets is     *)
(* not modelled, that it is refused is.                                       *)
EXTENDS Integers, Sequences, FiniteSets, SequencesExt

CONSTANTS MaxDepth,     \* FR_PARSE_MAX_EXPR_DEPTH
          MaxBody,      \* FR_PARSE_MAX_BODY_EXPRS: children of one node
          MaxNodes,     \* FR_PARSE_MAX_EXPR_NODES: nodes of one line
          MaxParams,    \* FR_PARSE_MAX_PARAMS: parameters of one line
          MaxFields     \* FR_PARSE_MAX_RECORD_FIELDS

ASSUME ParseLimits == {MaxDepth, MaxBody, MaxNodes, MaxParams, MaxFields}
                          \subseteq Nat \ {0}

Node(kind, value, kids) == <<kind, value, kids>>
Leaf(kind) == Node(kind, "", <<>>)
Nm(w) == <<"name", w>>
Eof == <<"eof", "">>

\* Keywords of event forms, names a parameter or local may not take, names a
\* definition may not take.
EventWords == {"on", "every", "after", "cancel", "rising", "falling",
               "changes", "debounce"}
ReservedNames == EventWords \cup
    {"nil", "true", "false", "fn", "with", "is", "if", "else", "and", "or",
     "not", "when", "unless", "repeat", "while", "forever", "cells", "buffer",
     "record", "set", "to", "here"}
ReservedIs == EventWords \cup {"is", "true", "false", "and", "or", "not"}
ReservedTo == ReservedIs \cup {"to", "with"}
Dotted == {"error.code", "error.name", "wifi.disconnected", "wifi.reconnected"}

\* The current token, the position after it, and whether it starts a line.
\* The sequence ends with Eof, and reading past it stays on it.
Tok(s, i) == IF s[i][1] = "nl" THEN s[i + 1] ELSE s[i]
After(s, i) == LET j == IF s[i][1] = "nl" THEN i + 2 ELSE i + 1
               IN  IF j > Len(s) THEN Len(s) ELSE j
NewLine(s, i) == s[i][1] = "nl"
Is(s, i, w) == Tok(s, i) = Nm(w)
IsA(s, i, type) == Tok(s, i)[1] = type

Got(e, i) == [ok |-> TRUE, e |-> e, i |-> i]
Bad == [ok |-> FALSE, e |-> <<>>, i |-> 0]
Then(r, F(_)) == IF r.ok THEN F(r) ELSE Bad
Wrap(r, kind, value) == Then(r, LAMBDA x : Got(Node(kind, value, x.e), x.i))
Expect(s, r, type) == IF r.ok /\ IsA(s, r.i, type)
                      THEN Got(r.e, After(s, r.i)) ELSE Bad

\* What the parser carries down: the depth, whether an infix operator before a
\* call ends the expression and at which depth, whether `as` ends a repeat
\* count, and whether error.code and error.name are in scope.
Top == [depth |-> 0, stop |-> FALSE, at |-> 0, as |-> FALSE, rescue |-> FALSE]

\* A call's arguments end where the next call begins.
StartsCall(s, i) == IsA(s, i, "name") /\ IsA(s, After(s, i), ":")
ArgEnds(s, i, q) == q.stop /\ q.depth = q.at /\ StartsCall(s, After(s, i))

WordArgument(s, i) ==
    ~NewLine(s, i) /\ \/ IsA(s, i, "int") \/ IsA(s, i, "text") \/ IsA(s, i, "(")
                      \/ IsA(s, i, "name") /\ Tok(s, i)[2] \notin ReservedNames

FieldPostfix(s, e, i) ==
    IF ~IsA(s, i, "->") \/ NewLine(s, i) THEN Got(e, i)
    ELSE LET j == After(s, i) IN
         IF IsA(s, j, "name") /\ Tok(s, j)[2] \notin Dotted
         THEN Got(Node("field", Tok(s, j)[2], <<e>>), After(s, j)) ELSE Bad

Ops == << {Nm("or")}, {Nm("and")}, {},
          {<<"op", "<">>, <<"op", ">">>, <<"op", "<=">>, <<"op", ">=">>,
           <<"op", "=">>, <<"op", "<>">>},
          {<<"op", "+">>, <<"op", "-">>},
          {<<"op", "*">>, <<"op", "/">>, <<"op", "%">>} >>
Compare == 4
InnerLevel == 7

RECURSIVE Expr(_, _, _), Level(_, _, _, _), Infix(_, _, _, _), Inner(_, _, _),
          Statements(_, _, _, _), Parts(_, _, _, _), Args(_, _, _, _),
          Else(_, _, _), Params(_, _, _), Fields(_, _, _), Weight(_), Arity(_)

Expr(s, i, q) ==
    IF q.depth >= MaxDepth THEN Bad
    ELSE Level(s, i, [q EXCEPT !.depth = @ + 1], 1)

\* 1 or, 2 and, 3 not, 4 comparison, 5 additive, 6 multiplicative, 7 the rest.
Level(s, i, q, n) ==
    CASE n = InnerLevel -> Inner(s, i, q)
      [] n = 3 /\ Is(s, i, "not") ->
           Then(Level(s, After(s, i), q, 3),
                LAMBDA r : Got(Node("not", "", <<r.e>>), r.i))
      [] OTHER -> Then(Level(s, i, q, n + 1), LAMBDA r : Infix(s, r, q, n))

\* Comparison does not associate; the other infix operators do, to the left.
Infix(s, l, q, n) ==
    LET op == Tok(s, l.i) IN
    IF op \notin Ops[n] \/ NewLine(s, l.i) \/ ArgEnds(s, l.i, q) THEN l
    ELSE Then(Level(s, After(s, l.i), q, n + 1), LAMBDA r :
           LET both == Got(Node("bin", op[2], <<l.e, r.e>>), r.i) IN
           IF n # Compare THEN Infix(s, both, q, n)
           ELSE IF Tok(s, r.i) \in Ops[n] /\ ~NewLine(s, r.i) THEN Bad ELSE both)

NameIs(s, i) == /\ IsA(s, i, "name") /\ Tok(s, i)[2] \notin ReservedNames
                /\ Is(s, After(s, i), "is")
LocalBind(s, i, q) ==
    IF ~NameIs(s, i) THEN Bad
    ELSE Then(Expr(s, After(s, After(s, i)), q),
              LAMBDA r : Got(Node("bind", Tok(s, i)[2], <<r.e>>), r.i))

\* One statement after the other: a semicolon or a new line separates them, a
\* semicolon before the closing bracket is eaten, anything else ends the list.
Statements(s, i, q, list) ==
    IF IsA(s, i, "]") \/ IsA(s, i, "eof")
    THEN IF list = <<>> THEN Bad ELSE Got(Node("list", "", list), i)
    ELSE IF Len(list) >= MaxBody THEN Bad
    ELSE Then(IF NameIs(s, i) THEN LocalBind(s, i, q) ELSE Expr(s, i, q),
         LAMBDA r : LET more == Append(list, r.e) IN
           CASE IsA(s, r.i, ";") ->
                  IF IsA(s, After(s, r.i), "eof") THEN Bad
                  ELSE Statements(s, After(s, r.i), q, more)
             [] NewLine(s, r.i) -> Statements(s, r.i, q, more)
             [] OTHER -> Got(Node("list", "", more), r.i))

Block(s, i, q) == IF IsA(s, i, "[") \/ IsA(s, i, "@[")
                  THEN Expect(s, Statements(s, After(s, i), q, <<>>), "]") ELSE Bad

\* The pieces of a keyword form, in order.  A count stops before `as`; a
\* detached block is another word's body, where error.code is out of scope.
Parts(s, i, q, ps) ==
    IF ps = <<>> THEN Got(<<>>, i)
    ELSE LET p == Head(ps)
             r == CASE p = "expr" -> Expr(s, i, q)
                    [] p = "count" -> Expr(s, i, [q EXCEPT !.as = TRUE])
                    [] p = "block" -> Block(s, i, q)
                    [] p = "detached" -> Block(s, i, [q EXCEPT !.rescue = FALSE])
                    [] p = "rescued" -> Block(s, i, [q EXCEPT !.rescue = TRUE])
                    [] OTHER -> IF Is(s, i, p) THEN Got(<<>>, After(s, i)) ELSE Bad
         IN Then(r, LAMBDA x :
              Then(Parts(s, x.i, q, Tail(ps)), LAMBDA y :
                Got(IF x.e = <<>> THEN y.e ELSE <<x.e>> \o y.e, y.i)))
Form(s, i, q, kind, value, ps) == Wrap(Parts(s, i, q, ps), kind, value)

\* if, with `else if` arms chained into the same node.
Else(s, r, q) ==
    IF ~r.ok THEN Bad
    ELSE IF ~Is(s, r.i, "else") THEN Got(Node("if", "", r.e), r.i)
    ELSE LET j == After(s, r.i)
             elseif == Is(s, j, "if")
             x == Parts(s, IF elseif THEN After(s, j) ELSE j, q,
                        IF elseif THEN <<"expr", "block">> ELSE <<"block">>)
             arms == r.e \o x.e
         IN  IF ~x.ok \/ Len(arms) > MaxBody THEN Bad
             ELSE IF elseif THEN Else(s, Got(arms, x.i), q)
             ELSE Got(Node("if", "", arms), x.i)
NoElse(s, r) == IF r.ok /\ Is(s, r.i, "else") THEN Bad ELSE r
Unless(r) == Then(r, LAMBDA x :
    Got(Node("if", "", <<x.e[3][1], Leaf("nil"), x.e[3][2]>>), x.i))

Repeat(s, i, q) ==
    Then(Parts(s, i, q, <<"count">>), LAMBDA c :
      LET as == Is(s, c.i, "as")
          j == IF as THEN After(s, c.i) ELSE c.i
          named == IsA(s, j, "name") /\ Tok(s, j)[2] \notin ReservedNames
          k == IF as THEN After(s, j) ELSE c.i
      IN  IF as /\ ~named THEN Bad
          ELSE Then(Block(s, k, q), LAMBDA b :
                 Got(Node("repeat", IF as THEN Tok(s, j)[2] ELSE "",
                          <<c.e[1], b.e>>), b.i)))

\* set TARGET to VALUE: what the target parsed as decides the write.
Set(s, i, q) == Then(Parts(s, i, q, <<"expr", "to", "expr">>), LAMBDA r :
    LET target == r.e[1]  value == r.e[2] IN
    CASE target[1] = "name" -> Got(Node("write", target[2], <<value>>), r.i)
      [] target[1] = "cell" ->
           Got(Node("cellwrite", target[2], <<target[3][1], value>>), r.i)
      [] target[1] = "field" ->
           Got(Node("fieldwrite", target[2], <<target[3][1], value>>), r.i)
      [] OTHER -> Bad)

Wifi == {"wifi.disconnected", "wifi.reconnected"}
Edges == {"rising", "falling", "changes"}
On(s, i, q) ==
    IF IsA(s, i, "name") /\ Tok(s, i)[2] \in Wifi
    THEN Form(s, After(s, i), q, "event", Tok(s, i)[2], <<"detached">>)
    ELSE Then(Expr(s, i, q), LAMBDA pin :
           LET j == After(s, pin.i)
               late == Is(s, j, "debounce") IN
           IF ~IsA(s, pin.i, "name") \/ Tok(s, pin.i)[2] \notin Edges THEN Bad
           ELSE Then(Parts(s, j, q, IF late THEN <<"debounce", "expr", "detached">>
                                    ELSE <<"detached">>), LAMBDA r :
             Got(Node("event", Tok(s, pin.i)[2], IF late THEN <<pin.e, r.e[2], r.e[1]>>
                                           ELSE <<pin.e, r.e[1]>>), r.i)))
Cancel(s, i, q) ==
    LET w == Tok(s, i) IN
    CASE w[1] = "name" /\ w[2] \in Wifi -> Got(Node("cancel", w[2], <<>>), After(s, i))
      [] w[1] = "name" /\ w[2] \in {"every", "after"} ->
           Form(s, After(s, i), q, "cancel", w[2], <<"expr">>)
      [] OTHER -> Form(s, i, q, "cancel", "changes", <<"expr">>)

Sized(s, i, kind) ==
    LET j == After(s, i) IN
    IF IsA(s, i, ":") /\ IsA(s, j, "int") /\ Tok(s, j)[2] > 0
    THEN Got(Node(kind, Tok(s, j)[2], <<>>), After(s, j)) ELSE Bad

Params(s, i, ps) ==
    IF ~IsA(s, i, "name") \/ Tok(s, i)[2] \in ReservedNames \cup ToSet(ps) THEN Bad
    ELSE LET more == Append(ps, Tok(s, i)[2])  j == After(s, i) IN
         IF IsA(s, j, ",") THEN Params(s, After(s, j), more) ELSE Got(more, j)
FunctionValue(s, i, q) ==
    LET ps == IF Is(s, i, "with") THEN Params(s, After(s, i), <<>>) ELSE Got(<<>>, i)
    IN  Then(ps, LAMBDA p : Form(s, p.i, q, "fn", p.e, <<"detached">>))

\* An argument is an expression of its own; it ends before an operator whose
\* right side starts another call.
CallArgument(s, i, q) == Expr(s, i, [q EXCEPT !.stop = TRUE, !.at = q.depth + 1])
Args(s, i, q, args) ==
    LET t == Tok(s, i) IN
    IF \/ t[1] \in {"eof", "]", ")", "[", "@[", ";"}
       \/ args = <<>> /\ NewLine(s, i)
       \/ q.as /\ t = Nm("as")
    THEN Got(args, i)
    ELSE IF t[1] = "," \/ Len(args) >= MaxBody THEN Bad
    ELSE Then(CallArgument(s, i, q), LAMBDA r :
           LET more == Append(args, r.e)  j == After(s, r.i) IN
           IF ~IsA(s, r.i, ",") THEN Got(more, r.i)
           ELSE IF Tok(s, j)[1] \in {"eof", "]", ";"} THEN Bad
           ELSE Args(s, j, q, more))

NameOrCall(s, i, q) ==
    LET w == Tok(s, i)[2]  j == After(s, i) IN
    CASE IsA(s, j, "@[") ->
           Then(Expect(s, Expr(s, After(s, j), q), "]"), LAMBDA r :
             FieldPostfix(s, Node("cell", w, <<r.e>>), r.i))
      [] IsA(s, j, ":") ->
           Then(Args(s, After(s, j), q, <<>>), LAMBDA r :
             FieldPostfix(s, Node("call", w, r.e), r.i))
      [] WordArgument(s, j) /\ ~(q.as /\ Is(s, j, "as")) -> Bad
      [] OTHER -> FieldPostfix(s, Node("name", w, <<>>), j)

Inner(s, i, q) ==
    LET t == Tok(s, i)  w == t[2]  j == After(s, i) IN
    CASE t[1] = "(" -> Then(Expect(s, Expr(s, j, q), ")"),
                            LAMBDA r : FieldPostfix(s, r.e, r.i))
      [] t[1] \in {"int", "text"} -> Got(Node(t[1], w, <<>>), j)
      [] t[1] # "name" -> Bad
      [] w \in {"error.code", "error.name"} /\ q.rescue -> Got(Leaf(w), j)
      [] w \in {"nil", "false", "true"} -> Got(Leaf(w), j)
      [] w \in {"not", "is"} -> Bad
      [] w = "fn" -> FunctionValue(s, j, q)
      [] w = "if" -> Else(s, Parts(s, j, q, <<"expr", "block">>), q)
      [] w = "when" -> NoElse(s, Form(s, j, q, "if", "", <<"expr", "block">>))
      [] w = "unless" -> Unless(NoElse(s, Form(s, j, q, "if", "", <<"expr", "block">>)))
      [] w = "repeat" -> Repeat(s, j, q)
      [] w = "while" -> Form(s, j, q, "while", "", <<"expr", "block">>)
      [] w = "forever" -> Form(s, j, q, "forever", "", <<"block">>)
      [] w = "attempt" /\ Tok(s, j)[1] \in {"[", "@["} ->
           Form(s, j, q, "attempt", "", <<"block", "rescue", "rescued">>)
      [] w = "on" -> On(s, j, q)
      [] w \in {"every", "after"} -> Form(s, j, q, "event", w, <<"expr", "detached">>)
      [] w = "cancel" -> Cancel(s, j, q)
      [] w \in {"cells", "buffer"} -> Sized(s, j, w)
      [] w = "set" -> Set(s, j, q)
      [] w = "here" -> LocalBind(s, j, q)
      [] OTHER -> NameOrCall(s, i, q)

\* The fixed tables of one line: nodes (a write also spent one on its target)
\* and parameters.
Weight(e) == 1 + (IF e[1] \in {"write", "cellwrite", "fieldwrite"} THEN 1 ELSE 0)
               + FoldSeq(LAMBDA k, n : n + Weight(k), 0, e[3])
Arity(e) == (IF e[1] = "fn" THEN Len(e[2]) ELSE 0)
               + FoldSeq(LAMBDA k, n : n + Arity(k), 0, e[3])
FitsTables(e) == Weight(e) <= MaxNodes /\ Arity(e) <= MaxParams

FinishLine(s, r) ==
    Then(r, LAMBDA x : IF IsA(s, IF IsA(s, x.i, ";") THEN After(s, x.i) ELSE x.i, "eof")
                          /\ FitsTables(x.e) THEN x ELSE Bad)

Fields(s, i, fs) ==
    IF ~IsA(s, i, "name") \/ Len(fs) >= MaxFields
       \/ Tok(s, i)[2] \in Dotted \cup ToSet(fs) THEN Bad
    ELSE LET more == Append(fs, Tok(s, i)[2])  j == After(s, i) IN
         CASE IsA(s, j, ",") -> Fields(s, After(s, j), more)
           [] IsA(s, j, "]") -> Got(more, After(s, j))
           [] OTHER -> Bad

\* A definition: `record name [ fields ]`, `to name ...` or `name is value`.
ParseLine(s) ==
    LET j == After(s, 1)  k == After(s, j)
        named == IsA(s, j, "name")
        define(name, r) == FinishLine(s, Then(r, LAMBDA x :
                             Got(Node("define", name[2], <<x.e>>), x.i))) IN
    CASE Is(s, 1, "record") ->
           IF named /\ Tok(s, j)[2] \notin Dotted /\ (IsA(s, k, "[") \/ IsA(s, k, "@["))
           THEN FinishLine(s, Then(Fields(s, After(s, k), <<>>), LAMBDA r :
                  Got(Node("shape", <<Tok(s, j)[2]>> \o r.e, <<>>), r.i)))
           ELSE Bad
      [] Is(s, 1, "to") -> IF named /\ Tok(s, j)[2] \notin ReservedTo
                           THEN define(Tok(s, j), FunctionValue(s, k, Top)) ELSE Bad
      [] ~IsA(s, 1, "name") \/ Tok(s, 1)[2] \in ReservedIs \/ ~Is(s, j, "is") -> Bad
      [] OTHER -> define(Tok(s, 1), Expr(s, k, Top))

\* A line to run: expressions between semicolons.
RECURSIVE Exprs(_, _, _)
Exprs(s, i, list) ==
    IF Len(list) >= MaxBody THEN Bad
    ELSE Then(Expr(s, i, Top), LAMBDA r :
           LET more == Append(list, r.e)
               end == ~IsA(s, r.i, ";") \/ IsA(s, After(s, r.i), "eof") IN
           IF ~end THEN Exprs(s, After(s, r.i), more)
           ELSE Got(IF Len(more) = 1 THEN more[1] ELSE Node("list", "", more), r.i))
ParseExpressionLine(s) == FinishLine(s, Exprs(s, 1, <<>>))
=============================================================================
