-------------------------- MODULE LanguageMeaning --------------------------
(* What Frothy source means, said without code, stack or machine: a printer   *)
(* that writes a tree as source, and an evaluator that says what a line       *)
(* answers.  The parser, the compiler and the machine are checked against     *)
(* these.                                                                     *)
EXTENDS FrothyLanguage

----------------------------------------------------------------------------
(* The printer: parentheses only where the grammar asks for them, but for     *)
(* calls, which are fenced wherever something follows them.                   *)

Precedence == [or |-> 1, and |-> 2]
LevelOf(e) ==
    CASE e[1] = "not" -> 3
      [] e[1] # "bin" -> 7
      [] e[2] \in {"or", "and"} -> Precedence[e[2]]
      [] e[2] \in {"+", "-"} -> 5
      [] e[2] \in {"*", "/", "%"} -> 6
      [] OTHER -> 4

\* Forms that would take in whatever operator follows them.
Open(e) == e[1] \in {"call", "write", "cellwrite", "fieldwrite", "bind", "cancel"}
Prefix == {"write", "cellwrite", "fieldwrite", "bind", "cancel"}

RECURSIVE Written(_)
Paren(e, fence) == IF fence THEN <<Sign("(")>> \o Written(e) \o <<Sign(")")>> ELSE Written(e)
Operand(e, level) == Paren(e, LevelOf(e) < level \/ Open(e))
Sep(es, mark) ==
    FoldLeft(LAMBDA t, x : t \o <<Sign(mark)>> \o x, Head(es), Tail(es))
Brackets(e) == Bracketed(Written(e))
Printed(es) == [k \in DOMAIN es |-> Written(es[k])]
Stmt(e) == IF e[1] = "bind" THEN Tail(Written(e)) ELSE Written(e)

Written(e) ==
    LET kind == e[1]  v == e[2]  kids == e[3] IN
    CASE kind = "see" -> <<Nm("see"), Nm(v)>>
      [] kind = "int" -> <<<<"int", v>>>>
      [] kind = "text" -> <<<<"text", v>>>>
      [] kind \in {"nil", "true", "false", "error.code", "error.name"} -> <<Nm(kind)>>
      [] kind = "name" -> <<Nm(v)>>
      [] kind = "call" -> <<Nm(v), Sign(":")>> \o
           (IF kids = <<>> THEN <<>>
            ELSE Sep([k \in DOMAIN kids |->
                        Paren(kids[k], LevelOf(kids[k]) < 7 \/ (Open(kids[k]) /\ k < Len(kids)))],
                     ","))
      [] kind = "cell" -> <<Nm(v), Sign("@[")>> \o Written(kids[1]) \o <<Sign("]")>>
      [] kind = "field" -> Paren(kids[1], kids[1][1] \notin {"name", "cell"}) \o
                               <<Sign("->"), Nm(v)>>
      [] kind = "write" -> <<Nm("set"), Nm(v), Nm("to")>> \o Written(kids[1])
      [] kind = "cellwrite" -> <<Nm("set"), Nm(v), Sign("@[")>> \o Written(kids[1]) \o
                                   <<Sign("]"), Nm("to")>> \o Written(kids[2])
      [] kind = "fieldwrite" -> <<Nm("set")>> \o
           Paren(kids[1], kids[1][1] \notin {"name", "cell"}) \o
           <<Sign("->"), Nm(v), Nm("to")>> \o Written(kids[2])
      [] kind = "bind" -> <<Nm("here"), Nm(v), Nm("is")>> \o Written(kids[1])
      [] kind = "bin" ->
           LET n == LevelOf(e) IN
           Operand(kids[1], IF n = 4 THEN 5 ELSE n) \o
               <<IF n < 3 THEN Nm(v) ELSE <<"op", v>>>> \o Operand(kids[2], n + 1)
      [] kind = "not" -> <<Nm("not")>> \o Operand(kids[1], 3)
      [] kind = "list" -> Sep([k \in DOMAIN kids |-> Stmt(kids[k])], ";")
      [] kind = "if" ->
           <<Nm("if")>> \o Written(kids[1]) \o Brackets(kids[2]) \o
           (IF Len(kids) = 2 THEN <<>>
            ELSE <<Nm("else")>> \o
                 (IF Len(kids) = 3 THEN Brackets(kids[3])
                  ELSE Written(Node("if", "", SubSeq(kids, 3, Len(kids))))))
      [] kind = "repeat" -> <<Nm("repeat")>> \o Written(kids[1]) \o
           (IF v = "" THEN <<>> ELSE <<Nm("as"), Nm(v)>>) \o Brackets(kids[2])
      [] kind = "while" -> <<Nm("while")>> \o Written(kids[1]) \o Brackets(kids[2])
      [] kind = "forever" -> <<Nm("forever")>> \o Brackets(kids[1])
      [] kind = "attempt" -> <<Nm("attempt")>> \o Brackets(kids[1]) \o
                                 <<Nm("rescue")>> \o Brackets(kids[2])
      [] kind = "event" ->
           LET edge == v \in Edges IN
           <<Nm(IF edge \/ v \in Wifi THEN "on" ELSE v)>> \o
           (IF v \in Wifi THEN <<Nm(v)>> ELSE Operand(kids[1], 1)) \o
           (IF edge THEN <<Nm(v)>> ELSE <<>>) \o
           (IF Len(kids) = 3 THEN <<Nm("debounce")>> \o Operand(kids[3], 1) ELSE <<>>) \o
           Brackets(kids[IF v \in Wifi THEN 1 ELSE 2])
      [] kind = "cancel" -> <<Nm("cancel")>> \o
           (IF v = "changes" THEN <<>> ELSE <<Nm(v)>>) \o
           (IF kids = <<>> THEN <<>> ELSE Written(kids[1]))
      [] kind = "fn" -> (IF v = <<>> THEN <<>>
                         ELSE <<Nm("with")>> \o Sep([k \in DOMAIN v |-> <<Nm(v[k])>>], ",")) \o
                        Brackets(kids[1])
      [] kind = "define" -> IF kids[1][1] = "fn"
                            THEN <<Nm("to"), Nm(v)>> \o Written(kids[1])
                            ELSE <<Nm(v), Nm("is")>> \o Written(kids[1])

SourceOf(e) == Written(e) \o <<Eof>>
\* The same source with every statement on a line of its own.
NewLines(t) ==
    [k \in DOMAIN t |-> IF t[k] = Sign(";") THEN <<"nl", "">> ELSE t[k]]

----------------------------------------------------------------------------
(* The evaluator.  A state is what a program can observe: the slots, cells    *)
(* and fields, the locals by name, the Bytes values that live, and what the   *)
(* world still has to answer.  The answer is <<"ok", v>> or <<"error", e>>.   *)
(* q says where: the parameters, the frames and values below, the attempts    *)
(* and rescues around it, and the error of the innermost rescue.              *)

Fuel == 12      \* bound: passes of one loop before the evaluator gives up

Gives(v, s) == [out |-> <<"ok", v>>, s |-> s]
Raises(e, s) == [out |-> <<"error", e>>, s |-> s]
Failed(r) == r.out[1] = "error"
ValueOf(r) == r.out[2]

\* Bytes values are named by when they were made.
Lives(v, s) == \E k \in DOMAIN s.bytes : s.bytes[k].id = v[2]
TextOf(v, s) == s.bytes[CHOOSE k \in DOMAIN s.bytes : s.bytes[k].id = v[2]].text
SpaceOf(s) == FoldLeft(LAMBDA n, b : n + Size[b.text], 0, s.bytes)
GiveBack(s, n) == [s EXCEPT !.bytes = SubSeq(@, 1, n)]

Arithmetic(op, a, b) ==
    CASE op = "+" -> a + b [] op = "-" -> a - b [] op = "*" -> a * b
      [] op = "/" -> Quotient(a, b) [] op = "%" -> a - b * Quotient(a, b)
Compares(op, a, b) ==
    CASE op = "<" -> a < b [] op = ">" -> a > b [] op = "<=" -> a <= b
      [] op = ">=" -> a >= b [] op = "=" -> a = b [] OTHER -> a # b
Apply(op, a, b, s) ==
    CASE op = "%" /\ s.slots["mod"][1] # "native" -> Raises("TYPE", s)
      [] a[1] # "int" \/ b[1] # "int" -> Raises("TYPE", s)
      [] op \in {"/", "%"} /\ b[2] = 0 -> Raises("DOMAIN", s)
      [] op \in {"+", "-", "*", "/", "%"} ->
           IF InRange(Arithmetic(op, a[2], b[2]))
           THEN Gives(Num(Arithmetic(op, a[2], b[2])), s) ELSE Raises("RANGE", s)
      [] OTHER -> Gives(Truth(Compares(op, a[2], b[2])), s)

RECURSIVE Eval(_, _, _), EvalAll(_, _, _, _), EvalList(_, _, _), EvalArms(_, _, _),
          Passes(_, _, _, _, _), Loop(_, _, _, _)

\* Values are held one above the other while the next is computed.
Above(q, n) == [q EXCEPT !.height = @ + n, !.tail = FALSE]
Inside(q) == [q EXCEPT !.tail = FALSE]
EvalAll(es, s, q, vs) ==
    IF es = <<>> THEN Gives(vs, s)
    ELSE LET r == Eval(Head(es), s, Above(q, Len(vs))) IN
         IF Failed(r) THEN r ELSE EvalAll(Tail(es), r.s, q, Append(vs, ValueOf(r)))

\* The locals of a list end with it.
EvalList(es, s, q) ==
    LET r == Eval(Head(es), s, IF Len(es) = 1 THEN q ELSE Inside(q)) IN
    IF Failed(r) \/ Len(es) = 1 THEN r ELSE EvalList(Tail(es), r.s, q)

EvalArms(es, s, q) ==
    CASE es = <<>> -> Gives(Nil, s)
      [] Len(es) = 1 -> Eval(es[1], s, q)
      [] OTHER -> LET c == Eval(es[1], s, Inside(q)) IN
                  IF Failed(c) THEN c
                  ELSE IF Falsy(ValueOf(c)) THEN EvalArms(SubSeq(es, 3, Len(es)), c.s, q)
                  ELSE Eval(es[2], c.s, Inside(q))

\* A pass that ends gives back the Bytes values it made.
Passes(body, k, n, s, q) ==
    IF k = n THEN Gives(Nil, s)
    ELSE LET t == IF q.index = "" THEN s
                  ELSE [s EXCEPT !.locals = (q.index :> Num(k)) @@ @]
             r == Eval(body, t, [q EXCEPT !.index = ""])
         IN  IF Failed(r) THEN r
             ELSE Passes(body, k + 1, n, GiveBack(r.s, Len(s.bytes)), q)
Loop(e, k, s, q) ==
    LET c == IF e[1] = "while" THEN Eval(e[3][1], s, q) ELSE Gives(Truth(TRUE), s) IN
    CASE Failed(c) -> c
      [] Falsy(ValueOf(c)) -> Gives(Nil, GiveBack(c.s, Len(s.bytes)))
      [] k = Fuel -> Raises("FUEL", s)
      [] OTHER -> LET r == Eval(e[3][Len(e[3])], c.s, q) IN
                  IF Failed(r) THEN r
                  ELSE Loop(e, k + 1, GiveBack(r.s, Len(s.bytes)), q)

Pushes(v, s, q) == IF q.height >= MaxStack THEN Raises("OVERFLOW", s) ELSE Gives(v, s)
Keeps(v, s, t) == CASE v[1] = "bytes" -> Raises("VOLATILE", s)
                    [] ~Storable(v) -> Raises("TYPE", s)
                    [] OTHER -> Gives(Nil, t)

EvalNative(name, vs, s) ==
    CASE name = "mod" -> Apply("%", vs[1], vs[2], s)
      [] name = "sense" ->
           LET a == IF s.world = <<>> THEN Num(0) ELSE Head(s.world)
               t == [s EXCEPT !.world = IF @ = <<>> THEN @ ELSE Tail(@)]
           IN  IF a[1] = "error" THEN Raises(a[2], t) ELSE Gives(a, t)
      [] name = "bytes.from-text" ->
           CASE vs[1][1] # "text" -> Raises("TYPE", s)
             [] SpaceOf(s) + Size[vs[1][2]] > Arena \/ Len(s.bytes) >= MaxBytes ->
                  Raises("CAPACITY", s)
             [] OTHER -> Gives(<<"bytes", s.made>>,
                  [s EXCEPT !.made = @ + 1,
                            !.bytes = Append(@, [id |-> s.made, text |-> vs[1][2]])])
      [] name = "bytes.length" ->
           CASE vs[1][1] # "bytes" -> Raises("TYPE", s)
             [] ~Lives(vs[1], s) -> Raises("VOLATILE", s)
             [] OTHER -> Gives(Num(Size[TextOf(vs[1], s)]), s)

\* meanings: what each word's body is, as a tree.
EvalCall(name, vs, s, q) ==
    LET slot == s.slots[name] IN
    CASE slot[1] = "native" -> EvalNative(name, vs, s)
      [] q.calls >= MaxCalls -> Raises("OVERFLOW", s)
      [] slot[1] # "code" -> Raises("TYPE", s)
      [] OTHER ->
           LET f == q.meanings[slot[2]] IN
           IF Len(f[2]) # Len(vs) THEN Raises("INVALID", s)
           ELSE LET r == Eval(f[3][1],
                              [s EXCEPT !.locals = [n \in ToSet(f[2]) |->
                                 vs[CHOOSE k \in DOMAIN vs : f[2][k] = n]]],
                              [q EXCEPT !.calls = @ + 1, !.height = 0, !.attempts = 0,
                                        !.rescues = 0, !.tail = FALSE])
                IN  [r EXCEPT !.s.locals = s.locals]

\* An attempt gives back what its body made, and runs the rescue when an error
\* leaves the body and there is room for one more rescue.
EvalAttempt(e, s, q) ==
    IF q.attempts >= MaxAttempts THEN Raises("CAPACITY", s)
    ELSE LET r == Eval(e[3][1], s, [Inside(q) EXCEPT !.attempts = @ + 1])
             t == GiveBack([r.s EXCEPT !.locals = [n \in DOMAIN s.locals |-> @[n]]],
                           Len(s.bytes))
             open == IF q.tail THEN q.rescues - 1 ELSE q.rescues
         IN  CASE ~Failed(r) -> r
               [] open >= MaxAttempts -> Raises("CAPACITY", t)
               [] OTHER -> Eval(e[3][2], t, [q EXCEPT !.rescues = open + 1, !.tail = TRUE,
                                                      !.error = r.out[2]])

Eval(e, s, q) ==
    LET kind == e[1]  v == e[2]  kids == e[3]
        leaf(x) == Pushes(x, s, q)
        all == EvalAll(kids, s, q, <<>>)
        a == ValueOf(all)[1]  b == ValueOf(all)[2]
        local == v \in DOMAIN s.locals
    IN
    CASE kind = "nil" -> leaf(Nil)
      [] kind \in {"true", "false"} -> leaf(Truth(kind = "true"))
      [] kind = "int" -> leaf(Num(v))
      [] kind = "text" -> leaf(<<"text", v>>)
      [] kind = "error.code" -> leaf(Num(ErrorNumber(q.error)))
      [] kind = "error.name" -> leaf(<<"text", q.error>>)
      [] kind = "name" -> leaf(IF local THEN s.locals[v] ELSE s.slots[v])
      [] kind = "bin" /\ v \in {"and", "or"} ->
           LET l == Eval(kids[1], s, Inside(q))
               r == Eval(kids[2], l.s, Inside(q)) IN
           CASE Failed(l) -> l
             [] Falsy(ValueOf(l)) = (v = "and") -> Gives(Truth(v = "or"), l.s)
             [] Failed(r) -> r
             [] OTHER -> Gives(Truth(~Falsy(ValueOf(r))), r.s)
      [] kind = "list" ->
           LET r == EvalList(kids, s, q)
           IN  [r EXCEPT !.s.locals = [n \in DOMAIN s.locals |-> r.s.locals[n]]]
      [] kind = "if" -> EvalArms(kids, s, q)
      [] kind = "repeat" ->
           LET c == Eval(kids[1], s, Inside(q)) IN
           CASE Failed(c) -> c
             [] ValueOf(c)[1] # "int" -> Raises("TYPE", c.s)
             [] ValueOf(c)[2] < 0 -> Raises("RANGE", c.s)
             [] OTHER ->
                  LET r == Passes(kids[2], 0, ValueOf(c)[2], c.s,
                                  [Above(q, 1) EXCEPT !.index = v])
                  IN  [r EXCEPT !.s.locals = [n \in DOMAIN c.s.locals |-> r.s.locals[n]]]
      [] kind \in {"while", "forever"} -> Loop(e, 0, s, Inside(q))
      [] kind = "attempt" -> EvalAttempt(e, s, q)
      [] kind \in {"cell", "cellwrite"} ->
           \* the value, then the index, unless that is a literal
           LET literal == kids[1][1] = "int"
               r == EvalAll(IF literal THEN Tail(kids) ELSE Reverse(kids), s, q, <<>>)
               vs == ValueOf(r)
               i == IF literal THEN Num(kids[1][2]) ELSE vs[Len(vs)]
           IN  CASE Failed(r) -> r
                 [] s.slots[v][1] # "cells" \/ i[1] # "int" -> Raises("TYPE", r.s)
                 [] i[2] \notin 0..Len(s.cells) - 1 -> Raises("RANGE", r.s)
                 [] kind = "cell" -> Pushes(r.s.cells[i[2] + 1], r.s, q)
                 [] OTHER -> Keeps(vs[1], r.s, [r.s EXCEPT !.cells[i[2] + 1] = vs[1]])
      [] Failed(all) -> all
      [] kind = "call" ->
           LET r == EvalCall(v, ValueOf(all), all.s, q)
           IN  IF Failed(r) THEN r ELSE Pushes(ValueOf(r), r.s, q)
      [] kind = "bind" -> Gives(Nil, [all.s EXCEPT !.locals = (v :> a) @@ @])
      [] kind = "write" ->
           IF local THEN IF IsBytes(a) THEN Raises("VOLATILE", all.s)
                         ELSE Gives(Nil, [all.s EXCEPT !.locals[v] = a])
           ELSE IF IsBytes(a) THEN Raises("VOLATILE", all.s)
                ELSE Gives(Nil, [all.s EXCEPT !.slots[v] = a])
      [] kind \in {"field", "fieldwrite"} ->
           CASE a[1] # "record" -> Raises("TYPE", all.s)
             [] v \notin DOMAIN s.fields -> Raises("NOT_FOUND", all.s)
             [] kind = "field" -> Gives(all.s.fields[v], all.s)
             [] OTHER -> Keeps(b, all.s, [all.s EXCEPT !.fields[v] = b])
      [] kind = "not" -> Gives(Truth(Falsy(a)), all.s)
      [] kind = "bin" -> Apply(v, a, b, all.s)
=============================================================================
