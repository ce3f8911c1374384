---------------------------- MODULE FrothyRender ---------------------------
(* The renderer behind `see`, src/src/source_render.c: it reads the code of a *)
(* compiled word and writes source for it.  It walks the instructions once    *)
(* with a stack of fragments; a loop, an if or an attempt is recognised by    *)
(* the shape the compiler gives it, and code of any other shape is refused    *)
(* (`see` then prints no source).  Parentheses are decided from two flags of  *)
(* a fragment: paren, it is an operator's result, and call, an operator or    *)
(* comma after it would fall into a call's arguments.                         *)
(*                                                                            *)
(* Sizes of the text arena and of one name are left out.                      *)
EXTENDS FrothyCompile

Unmarked == -1
EventBody == -2

Frag(t, paren, call) == [t |-> t, at |-> Unmarked, paren |-> paren, call |-> call]
Words(ws) == [k \in DOMAIN ws |-> Nm(ws[k])]
Sign(type) == <<type, "">>
Fenced(f, fence) == IF fence THEN <<Sign("(")>> \o f.t \o <<Sign(")")>> ELSE f.t
Bracketed(t) == <<Sign("[")>> \o t \o <<Sign("]")>>
Joined(fs, between) == FoldLeft(LAMBDA t, f : t \o <<Sign(between)>> \o f.t,
                                Head(fs).t, Tail(fs))

\* A parameter has the name it was defined with; a local is called local<N>,
\* with underscores until no parameter has that name.
RECURSIVE Distinct(_, _)
Distinct(name, names) == IF name \in ToSet(names) THEN Distinct(name \o "_", names)
                         ELSE name
LocalName(w, n) == Nm(Distinct("local" \o ToString(n), w.names))

GoOn(r, frags, ip) == [r EXCEPT !.frags = frags, !.ip = ip]
No(r) == [r EXCEPT !.ok = FALSE]
Top1(r) == r.frags[Len(r.frags)]
Under(r, n) == SubSeq(r.frags, 1, Len(r.frags) - n)
Taken(r, n) == SubSeq(r.frags, Len(r.frags) - n + 1, Len(r.frags))
Room(frags) == Len(frags) <= MaxStack + 1

\* Take n fragments, put one back, go on at ip.
Reduce(r, n, ip, F(_)) ==
    IF Len(r.frags) < n THEN No(r)
    ELSE LET frags == Append(Under(r, n), F(Taken(r, n))) IN
         IF Room(frags) THEN GoOn(r, frags, ip) ELSE No(r)
Text(r, t, ip) == Reduce(r, 0, ip, LAMBDA k : Frag(t, FALSE, FALSE))

\* (Mutant of BinaryText: a call on the left is not fenced.)
BinaryBare(r, op, ip) == Reduce(r, 2, ip, LAMBDA k :
    Frag(Fenced(k[1], k[1].paren) \o <<<<"op", op>>>> \o Fenced(k[2], k[2].paren), TRUE, FALSE))
\* When the right side begins with a call, a reparse in argument position
\* splits at this operator, which is what an unfenced call on the left needs.
BinaryText(r, op, ip) == Reduce(r, 2, ip, LAMBDA k :
    LET splits == k[2].call /\ ~k[2].paren
        fence == k[1].paren \/ (k[1].call /\ ~splits)
    IN  Frag(Fenced(k[1], fence) \o <<<<"op", op>>>> \o Fenced(k[2], k[2].paren),
             TRUE, splits))

\* A call inside an argument is fenced unless it is the whole last argument.
CallText(r, name, n, ip) == Reduce(r, n, ip, LAMBDA k :
    LET arg(i) == Frag(Fenced(k[i], k[i].call /\ (i < n \/ k[i].paren)), FALSE, FALSE)
    IN  Frag(<<Nm(name), Sign(":")>> \o
             (IF n = 0 THEN <<>> ELSE Joined([i \in 1..n |-> arg(i)], ",")),
             FALSE, TRUE))

SetTo(target, value) == Frag(<<Nm("set")>> \o target \o <<Nm("to")>> \o value.t, FALSE, FALSE)
CellOf(name, index) == <<Nm(name), Sign("@[")>> \o index \o <<Sign("]")>>
FieldOf(object, name) == Fenced(object, object.paren \/ object.call) \o
                             <<Sign("->"), Nm(name)>>
Sealed(words) == Frag(words, FALSE, FALSE)

\* An else body that is one if is spelled `else if`; a semicolon outside every
\* bracket means that it is more than that.
Chains(t) ==
    LET depth(i) == Len(SelectSeq(SubSeq(t, 1, i), LAMBDA x : x[1] \in {"[", "@["}))
                    - Len(SelectSeq(SubSeq(t, 1, i), LAMBDA x : x[1] = "]"))
    IN  t[1] = Nm("if") /\ \A i \in DOMAIN t : t[i][1] = ";" => depth(i) > 0
IfText(cond, then, else) ==
    <<Nm("if")>> \o cond.t \o Bracketed(then) \o
    (CASE else = <<>> -> <<>>
       [] Chains(else) -> <<Nm("else")>> \o else
       [] OTHER -> <<Nm("else")>> \o Bracketed(else))

Digit(f) == Len(f.t) = 1 /\ f.t[1][1] = "int" /\ f.t[1][2] \in 0..9
Zero(f) == Digit(f) /\ f.t[1][2] = 0
IsWifi(k) == Kinds[k] \in Wifi
EventOperand(f) == Fenced(f, f.paren \/ f.call)
\* Kind, source, debounce and body, as the compiler pushes them.
EventText(r, ip) ==
    IF Len(r.frags) < 4 THEN No(r)
    ELSE LET k == Taken(r, 4)
             kind == k[1].t[1][2]
             timer == Kinds[kind] \in {"every", "after"}
             body == Bracketed(k[4].t)
         IN  IF \/ ~Digit(k[1]) \/ k[4].at # EventBody \/ kind \notin DOMAIN Kinds
                \/ (timer \/ IsWifi(kind)) /\ ~Zero(k[3])
                \/ IsWifi(kind) /\ ~Zero(k[2])
             THEN No(r)
             ELSE Reduce(r, 4, ip, LAMBDA x : Sealed(
                    CASE timer -> Words(<<Kinds[kind]>>) \o EventOperand(k[2]) \o body
                      [] IsWifi(kind) -> Words(<<"on", Kinds[kind]>>) \o body
                      [] OTHER -> Words(<<"on">>) \o EventOperand(k[2]) \o
                                  Words(<<Kinds[kind]>>) \o
                                  (IF Zero(k[3]) THEN <<>>
                                   ELSE Words(<<"debounce">>) \o EventOperand(k[3])) \o body))
CancelText(r, ip) ==
    IF Len(r.frags) < 2 THEN No(r)
    ELSE LET k == Taken(r, 2)  kind == k[1].t[1][2] IN
         IF ~Digit(k[1]) \/ kind \notin DOMAIN Kinds \/ (IsWifi(kind) /\ ~Zero(k[2]))
         THEN CallText(r, "event.cancel", 2, ip)
         ELSE Reduce(r, 2, ip, LAMBDA x : Sealed(Words(<<"cancel">>) \o
                CASE IsWifi(kind) -> Words(<<Kinds[kind]>>)
                  [] Kinds[kind] \in {"every", "after"} -> Words(<<Kinds[kind]>>) \o EventOperand(k[2])
                  [] OTHER -> EventOperand(k[2])))

OpAt(w, i) == IF i \in DOMAIN w.code THEN w.code[i][1] ELSE ""
ToAt(w, i) == i + w.code[i][2]

\* The end of a loop's pass: the body's value dropped, its Bytes given back.
PassEnds(w, i) == OpAt(w, i) = "drop" /\ OpAt(w, i + 1) = "rewind"
\* The loop's own mark is not where its statement starts.
RECURSIVE PastMarks(_, _)
PastMarks(w, i) == IF OpAt(w, i) = "mark" THEN PastMarks(w, i + 1) ELSE i

\* A forever is met at its end: its body is the statements that started from
\* the jump's target on.
Forever(w, r, base, jump, end) ==
    LET target == ToAt(w, jump)
        from == {i \in base + 1..Len(r.frags) :
                   /\ r.frags[i].at > 0
                   /\ PastMarks(w, r.frags[i].at) = PastMarks(w, target)}
        first == Min(from)
        body == Joined(SubSeq(r.frags, first, Len(r.frags)), ";")
    IN  IF \/ OpAt(w, jump) # "jump" \/ jump + 1 >= end
           \/ w.code[jump + 1] # Push(Nil)
           \/ ~PassEnds(w, jump - 2) \/ target >= jump \/ from = {}
        THEN No(r)
        ELSE GoOn(r, Append(SubSeq(r.frags, 1, first - 1),
                          [Sealed(<<Nm("forever")>> \o Bracketed(body))
                             EXCEPT !.at = target]), jump + 2)

IsWhile(w, i) == LET j == ToAt(w, i) - 1 IN OpAt(w, j) = "jump" /\ ToAt(w, j) <= i

RECURSIVE Span(_, _, _, _, _), Body(_, _, _, _)

\* A branch: the code from i to end makes one fragment; its text.
Body(w, r, i, end) ==
    LET x == Span(w, [r EXCEPT !.ip = i], Len(r.frags), i, end)
    IN  IF x.ok /\ Len(x.frags) = Len(r.frags) + 1 THEN Top1(x).t ELSE <<>>

If(w, r) ==
    LET false == ToAt(w, r.ip)  jump == false - 1  end == ToAt(w, jump)
        rest == GoOn(r, Under(r, 1), r.ip)
        then == Body(w, rest, r.ip + 1, jump)
        bare == end = false + 1 /\ w.code[false] = Push(Nil)
        else == IF bare THEN <<>> ELSE Body(w, rest, false, end)
    IN  IF r.frags = <<>> \/ OpAt(w, jump) # "jump" \/ end < false
           \/ then = <<>> \/ (~bare /\ else = <<>>) THEN No(r)
        ELSE Reduce(r, 1, end, LAMBDA k : Sealed(IfText(k[1], then, else)))
While(w, r) ==
    LET false == ToAt(w, r.ip)  drop == false - 3
        body == Body(w, GoOn(r, Under(r, 1), r.ip), r.ip + 1, drop)
    IN  IF r.frags = <<>> \/ drop <= r.ip \/ ~PassEnds(w, drop)
           \/ OpAt(w, false) # "rewind" \/ w.code[false + 1] # Push(Nil) \/ body = <<>>
        THEN No(r)
        ELSE Reduce(r, 1, false + 2, LAMBDA k :
               Sealed(<<Nm("while")>> \o k[1].t \o Bracketed(body)))
Repeat1(w, r) ==
    LET done == ToAt(w, r.ip)  next == done - 1  drop == done - 3
        index == w.code[r.ip][3]
        body == Body(w, GoOn(r, Under(r, 1), r.ip), r.ip + 1, drop)
    IN  IF r.frags = <<>> \/ drop <= r.ip \/ ~PassEnds(w, drop)
           \/ OpAt(w, next) # "next" \/ w.code[next][3] # index
           \/ ToAt(w, next) # r.ip + 1 \/ w.code[done] # Push(Nil) \/ body = <<>>
        THEN No(r)
        ELSE Reduce(r, 1, done + 1, LAMBDA k :
               Sealed(<<Nm("repeat")>> \o k[1].t \o
                      (IF index < 0 THEN <<>> ELSE <<Nm("as"), LocalName(w, index)>>) \o
                      Bracketed(body)))
Attempt(w, r, end) ==
    LET fallback == ToAt(w, r.ip)  after == ToAt(w, fallback - 1)
        body == Body(w, r, r.ip + 1, fallback - 1)
        rescue == Body(w, r, fallback, after)
    IN  IF \/ fallback > end \/ OpAt(w, fallback - 1) # "endattempt"
           \/ after < fallback \/ after > end \/ body = <<>> \/ rescue = <<>>
        THEN No(r)
        ELSE Reduce(r, 0, after, LAMBDA k :
               Sealed(<<Nm("attempt")>> \o Bracketed(body) \o
                      <<Nm("rescue")>> \o Bracketed(rescue)))

\* The body of an event is a word of its own.
EventFrag(w, r) ==
    LET x == Span([w EXCEPT !.code = Front(w.event.code), !.names = <<>>],
                  [r EXCEPT !.ip = 1], Len(r.frags), 1, Len(w.event.code))
    IN  IF w.event.arity # 0 \/ ~x.ok \/ Len(x.frags) # Len(r.frags) + 1 THEN No(r)
        ELSE GoOn(r, [x.frags EXCEPT ![Len(x.frags)].at = EventBody], r.ip + 1)

LocalAccess(r, op, local, n) ==
    CASE op = "loadlocal" -> Text(r, <<local>>, n)
      [] op = "setlocal" -> Reduce(r, 1, n, LAMBDA k : SetTo(<<local>>, k[1]))
      [] OTHER -> Reduce(r, 1, n, LAMBDA k : Sealed(<<local, Nm("is")>> \o k[1].t))
CellAccess(r, in, n) ==
    LET write == in[1] = "storecell"  fixed == in[3] >= 0
        target(k) == CellOf(in[2], IF fixed THEN <<Num(in[3])>> ELSE k[Len(k)].t) IN
    Reduce(r, (IF write THEN 1 ELSE 0) + (IF fixed THEN 0 ELSE 1), n, LAMBDA k :
        IF write THEN SetTo(target(k), k[1]) ELSE Sealed(target(k)))
FieldAccess(r, op, name, n) ==
    IF op = "loadfield"
    THEN Reduce(r, 1, n, LAMBDA k : Frag(FieldOf(k[1], name), TRUE, FALSE))
    ELSE Reduce(r, 2, n, LAMBDA k : SetTo(FieldOf(k[1], name), k[2]))
NativeCall(w, r, in, n) ==
    CASE in[2] \notin w.natives -> No(r)
      [] in[2] = "mod" -> BinaryText(r, "%", n)
      [] in[2] = "event.register" -> EventText(r, n)
      [] in[2] = "event.cancel" -> CancelText(r, n)
      [] OTHER -> CallText(r, in[2], in[3], n)

Rendered(w, r, base, end) ==
    LET in == w.code[r.ip]  op == in[1]  a == in[2]  n == r.ip + 1 IN
    CASE op = "push" ->
           Text(r, <<CASE a[1] = "nil" -> Nm("nil")
                       [] a[1] = "bool" -> Nm(IF a[2] THEN "true" ELSE "false")
                       [] OTHER -> a>>, n)
      [] op \in {"error.code", "error.name"} -> Text(r, <<Nm(op)>>, n)
      [] op = "pushcode" -> EventFrag(w, r)
      [] op = "loadarg" -> Text(r, <<Nm(w.names[a])>>, n)
      [] op = "loadslot" -> Text(r, <<Nm(a)>>, n)
      [] op = "storeslot" -> Reduce(r, 1, n, LAMBDA k : SetTo(<<Nm(a)>>, k[1]))
      [] op \in {"loadlocal", "setlocal", "storelocal"} ->
           LocalAccess(r, op, LocalName(w, a), n)
      [] op \in {"loadcell", "storecell"} -> CellAccess(r, in, n)
      [] op \in {"loadfield", "storefield"} -> FieldAccess(r, op, a, n)
      [] op = "binary" -> BinaryText(r, a, n)
      [] op = "call" -> CallText(r, a, in[3], n)
      [] op = "native" -> NativeCall(w, r, in, n)
      [] op = "mark" -> [r EXCEPT !.ip = n]
      [] op = "rewind" -> Forever(w, r, base, n, end)
      [] op = "jumpfalsy" -> IF IsWhile(w, r.ip) THEN While(w, r) ELSE If(w, r)
      [] op = "repeat" -> Repeat1(w, r)
      [] op = "attempt" -> Attempt(w, r, end)
      [] OTHER -> No(r)

\* start is where the statement being read began; a drop ends a statement.
Span(w, r, base, start, end) ==
    CASE ~r.ok -> r
      [] r.ip >= end ->
           IF Len(r.frags) <= base + 1 THEN r
           ELSE GoOn(r, Append(SubSeq(r.frags, 1, base),
                             Sealed(Joined(SubSeq(r.frags, base + 1, Len(r.frags)), ";"))),
                   r.ip)
      [] OpAt(w, r.ip) = "drop" ->
           IF Len(r.frags) <= base THEN No(r)
           ELSE Span(w, GoOn(r, [r.frags EXCEPT ![Len(r.frags)].at =
                                 IF @ = Unmarked THEN start ELSE @], r.ip + 1),
                     base, r.ip + 1, end)
      [] OTHER -> Span(w, Rendered(w, r, base, end), base, start, end)

\* `see`: source for a word, or nothing.  natives are the slots that hold a
\* native now; a call of any other one cannot be written.
Render(name, code, names, event, natives) ==
    LET w == [code |-> Front(code), names |-> names, natives |-> natives,
              event |-> IF event = <<>> THEN <<>> ELSE event[1]]
        r == Span(w, [ok |-> TRUE, frags |-> <<>>, ip |-> 1], 0, 1, Len(code))
        ps == FlattenSeq([k \in DOMAIN names |->
                            IF k = 1 THEN <<Nm(names[k])>> ELSE <<Sign(","), Nm(names[k])>>])
    IN  IF ~r.ok \/ Len(r.frags) # 1 THEN <<>>
        ELSE Words(<<"to", name>>) \o (IF names = <<>> THEN <<>> ELSE <<Nm("with")>> \o ps) \o
             Bracketed(r.frags[1].t) \o <<Eof>>
=============================================================================
