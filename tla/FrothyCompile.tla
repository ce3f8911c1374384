--------------------------- MODULE FrothyCompile ---------------------------
(* The compiler, src/src/compile.c: a tree of FrothyParse becomes the stack   *)
(* code of FrothyCode.                                                        *)
(*                                                                            *)
(* env is what a body is compiled against: its parameters, the slots that     *)
(* exist [kind, arity], the word being defined, and whether it may start an   *)
(* event body.  c is what changes while code is written: the locals in scope  *)
(* <<name, index>>, the next free index, the open loops and the most there    *)
(* have been, and the event body, if one was written.                         *)
EXTENDS FrothyParse, FrothyCode

NoLocals == [locals |-> <<>>, next |-> 0, level |-> 0, levels |-> 0, event |-> <<>>]
Out(code, c) == [ok |-> TRUE, code |-> code, c |-> c]
Refuse(c) == [ok |-> FALSE, code |-> <<>>, c |-> c]

\* The innermost local of a name, 0 for none; the parameter of a name.
LocalOf(c, name) == SelectLastInSeq(c.locals, LAMBDA x : x[1] = name)
ParamOf(env, name) == IF name \in ToSet(env.params)
                      THEN CHOOSE k \in DOMAIN env.params : env.params[k] = name ELSE 0
Slot(env, name) == name \in DOMAIN env.slots

\* A visible local stays below every hidden local a loop of this body has used.
MayAdd(env, c, name) == /\ ParamOf(env, name) = 0
                        /\ c.next < MaxLocals - c.levels
                        /\ Len(c.locals) < MaxLocals
AddLocal(c, name) == [c EXCEPT !.locals = Append(@, <<name, c.next>>),
                               !.next = @ + 1]
\* Each open loop keeps its Bytes checkpoint in a hidden local, from the top.
MayOpen(c) == c.level < MaxLocals /\ c.next <= MaxLocals - 1 - c.level
\* (Mutant of Hidden: nested loops share one checkpoint.)
HiddenShared(c) == MaxLocals - 1
Hidden(c) == MaxLocals - 1 - c.level
OpenLoop(c) == [c EXCEPT !.level = @ + 1,
                         !.levels = IF c.levels < c.level + 1 THEN c.level + 1 ELSE @]
CloseLoop(c) == [c EXCEPT !.level = @ - 1]
FrameLocals(c) == IF c.levels > 0 THEN MaxLocals ELSE c.next

\* fr_event_kind_t, from 1.
Kinds == <<"rising", "falling", "changes", "every", "after",
           "wifi.disconnected", "wifi.reconnected">>
KindNumber(k) == CHOOSE n \in DOMAIN Kinds : Kinds[n] = k

\* The last number of the call's two says how many arguments it takes.
CallCode(env, name, n, args) ==
    LET slot == env.slots[name] IN
    IF name = env.word
    THEN IF n = env.arity THEN args \o <<Op2("call", name, n)>> ELSE <<>>
    ELSE IF slot.kind \notin {"native", "code"} \/ n # slot.arity THEN <<>>
    ELSE args \o <<Op2(IF slot.kind = "native" THEN "native" ELSE "call", name, n)>>

\* A condition as a boolean, or its negation.
BoolResult(code, negate) ==
    code \o <<Op1("jumpfalsy", 3), Push(Truth(~negate)), Op1("jump", 2),
              Push(Truth(negate))>>
AndCode(a, b) ==
    LET rhs == BoolResult(b, FALSE) IN
    a \o <<Op1("jumpfalsy", Len(rhs) + 2)>> \o rhs \o
        <<Op1("jump", 2), Push(Truth(FALSE))>>
OrCode(a, b) ==
    a \o <<Op1("jumpfalsy", 3), Push(Truth(TRUE)),
           Op1("jump", Len(BoolResult(b, FALSE)) + 1)>> \o BoolResult(b, FALSE)

\* Arms of condition and body, then an else body or nil.
RECURSIVE IfCode(_)
IfCode(codes) ==
    CASE codes = <<>> -> <<Push(Nil)>>
      [] Len(codes) = 1 -> codes[1]
      [] OTHER ->
           LET rest == IfCode(SubSeq(codes, 3, Len(codes))) IN
           codes[1] \o <<Op1("jumpfalsy", Len(codes[2]) + 2)>> \o codes[2] \o
               <<Op1("jump", Len(rest) + 1)>> \o rest

\* What ends a pass of a loop: drop the body's value, give back its Bytes.
PassOver(hidden) == <<Drop, Op1("rewind", hidden)>>
RepeatCode(count, body, hidden, index) ==
    LET loop == body \o PassOver(hidden) IN
    count \o <<Op1("mark", hidden), Op2("repeat", Len(loop) + 2, index)>> \o loop \o
        <<Op2("next", -Len(loop), index), Push(Nil)>>
WhileCode(cond, body, hidden) ==
    LET loop == cond \o <<Op1("jumpfalsy", Len(body) + 4)>> \o body \o PassOver(hidden) IN
    <<Op1("mark", hidden)>> \o loop \o
        <<Op1("jump", -Len(loop)), Op1("rewind", hidden), Push(Nil)>>
ForeverCode(body, hidden) ==
    LET loop == body \o PassOver(hidden) IN
    <<Op1("mark", hidden)>> \o loop \o <<Op1("jump", -Len(loop)), Push(Nil)>>
AttemptCode(body, fallback) ==
    <<Op1("attempt", Len(body) + 2)>> \o body \o
        <<Op1("endattempt", Len(fallback) + 1)>> \o fallback

BinaryCode(op, a, b) ==
    CASE op = "and" -> AndCode(a, b)
      [] op = "or" -> OrCode(a, b)
      [] op = "%" -> a \o b \o <<Op2("native", "mod", 2)>>
      [] OTHER -> a \o b \o <<Op1("binary", op)>>
CancelCode(kind, source) ==
    <<Push(Num(KindNumber(kind)))>> \o
        (IF source = <<>> THEN <<Push(Num(0))>> ELSE source[1]) \o
        <<Op2("native", "event.cancel", 2)>>

\* A local hides a parameter and a parameter a slot; a parameter is not written.
EmitName(c, env, name) ==
    CASE LocalOf(c, name) > 0 -> Out(<<Op1("loadlocal", c.locals[LocalOf(c, name)][2])>>, c)
      [] ParamOf(env, name) > 0 -> Out(<<Op1("loadarg", ParamOf(env, name))>>, c)
      [] Slot(env, name) -> Out(<<Op1("loadslot", name)>>, c)
      [] OTHER -> Refuse(c)

RECURSIVE Emit(_, _, _), Each(_, _, _, _)

\* Code for one tree after the other: [ok, codes, c].
Each(es, c, env, codes) ==
    IF es = <<>> THEN [ok |-> TRUE, codes |-> codes, c |-> c]
    ELSE LET x == Emit(Head(es), c, env) IN
         IF x.ok THEN Each(Tail(es), x.c, env, Append(codes, x.code))
         ELSE [ok |-> FALSE, codes |-> <<>>, c |-> x.c]

\* After the children, unless one was refused.
Made(x, F(_)) == IF x.ok THEN Out(F(x.codes), x.c) ELSE Refuse(x.c)

EmitWrite(value, c, env, name) ==
    LET to(op) == Made(value, LAMBDA k : k[1] \o <<op>>) IN
    CASE LocalOf(c, name) > 0 -> to(Op1("setlocal", c.locals[LocalOf(c, name)][2]))
      [] ParamOf(env, name) > 0 \/ ~Slot(env, name) -> Refuse(c)
      [] OTHER -> to(Op1("storeslot", name))

\* A literal index is written into the instruction, any other is computed
\* after the value.
EmitCell(e, c, env) ==
    LET op == IF e[1] = "cell" THEN "loadcell" ELSE "storecell"
        index == e[3][1]
        fixed == index[1] = "int"
        parts == Each(IF fixed THEN Tail(e[3]) ELSE Reverse(e[3]), c, env, <<>>)
    IN  IF ~Slot(env, e[2]) \/ (fixed /\ index[2] < 0) THEN Refuse(c)
        ELSE Made(parts, LAMBDA k : FlattenSeq(k) \o
                             <<Op2(op, e[2], IF fixed THEN index[2] ELSE -1)>>)

\* The locals a loop's index or a block declared go out of scope.
Scoped(x, c) == IF x.ok THEN [x EXCEPT !.c.locals = c.locals] ELSE x

EmitRepeat(e, c, env) ==
    LET count == Emit(e[3][1], c, env)
        opened == OpenLoop(count.c)
        named == e[2] # ""
        body == Emit(e[3][2], IF named THEN AddLocal(opened, e[2]) ELSE opened, env)
    IN  IF \/ e[3][1][1] = "int" /\ e[3][1][2] < 0
           \/ ~count.ok \/ ~MayOpen(count.c)
           \/ named /\ ~MayAdd(env, opened, e[2])
           \/ ~body.ok
        THEN Refuse(c)
        ELSE Scoped(Out(RepeatCode(count.code, body.code, Hidden(count.c),
                                   IF named THEN opened.next ELSE -1),
                        CloseLoop(body.c)), count.c)

\* The body of on, every or after is a word of its own, without parameters and
\* without events, one to a word; the word starts it by calling the native.
EmitEvent(e, c, env) ==
    LET wifi == e[2] \in Wifi
        body == Emit(e[3][IF wifi THEN 1 ELSE 2], NoLocals,
                     [env EXCEPT !.params = <<>>, !.events = FALSE])
        args == Each(CASE wifi -> <<Node("int", 0, <<>>), Node("int", 0, <<>>)>>
                       [] Len(e[3]) = 3 -> <<e[3][1], e[3][3]>>
                       [] OTHER -> <<e[3][1], Node("int", 0, <<>>)>>,
                     [c EXCEPT !.event = <<[arity |-> 0,
                                            locals |-> FrameLocals(body.c),
                                            code |-> body.code \o <<Op1("return", 0)>>]>>],
                     env, <<>>)
    IN  IF ~env.events \/ c.event # <<>> \/ ~body.ok THEN Refuse(c)
        ELSE Made(args, LAMBDA k : <<Push(Num(KindNumber(e[2])))>> \o k[1] \o k[2] \o
                                   <<Op1("pushcode", 1), Op2("native", "event.register", 4)>>)

Emit(e, c, env) ==
    LET kind == e[1]  name == e[2]  kids == e[3]
        all == Each(kids, c, env, <<>>)
        one(op) == Made(all, LAMBDA k : k[1] \o <<op>>)
        loop == Each(kids, OpenLoop(c), env, <<>>)
        looped(F(_)) == IF ~MayOpen(c) \/ ~loop.ok THEN Refuse(c)
                        ELSE Out(F(loop.codes), CloseLoop(loop.c))
    IN
    CASE kind = "nil" -> Out(<<Push(Nil)>>, c)
      [] kind \in {"true", "false"} -> Out(<<Push(Truth(kind = "true"))>>, c)
      [] kind = "int" -> Out(<<Push(Num(name))>>, c)
      [] kind = "text" -> Out(<<Push(<<"text", name>>)>>, c)
      [] kind \in {"error.code", "error.name"} -> Out(<<Op1(kind, 0)>>, c)
      [] kind = "name" -> EmitName(c, env, name)
      [] kind = "bind" ->
           IF ~all.ok \/ ~MayAdd(env, all.c, name) THEN Refuse(c)
           ELSE Out(all.codes[1] \o <<Op1("storelocal", all.c.next)>>,
                    AddLocal(all.c, name))
      [] kind = "write" -> EmitWrite(all, c, env, name)
      [] kind \in {"cell", "cellwrite"} -> EmitCell(e, c, env)
      [] kind = "field" -> one(Op1("loadfield", name))
      [] kind = "fieldwrite" ->
           Made(all, LAMBDA k : k[1] \o k[2] \o <<Op1("storefield", name)>>)
      [] kind = "bin" -> Made(all, LAMBDA k : BinaryCode(name, k[1], k[2]))
      [] kind = "not" -> Made(all, LAMBDA k : BoolResult(k[1], TRUE))
      [] kind = "call" ->
           IF ~Slot(env, name) THEN Refuse(c)
           ELSE LET code == CallCode(env, name, Len(kids), FlattenSeq(all.codes)) IN
                IF ~all.ok \/ code = <<>> THEN Refuse(c) ELSE Out(code, all.c)
      [] kind = "list" ->
           Scoped(Made(all, LAMBDA k : FoldLeft(LAMBDA code, x : code \o <<Drop>> \o x,
                                                k[1], Tail(k))), c)
      [] kind = "if" -> Made(all, IfCode)
      [] kind = "repeat" -> EmitRepeat(e, c, env)
      [] kind = "while" -> looped(LAMBDA k : WhileCode(k[1], k[2], Hidden(c)))
      [] kind = "forever" -> looped(LAMBDA k : ForeverCode(k[1], Hidden(c)))
      [] kind = "attempt" -> Made(all, LAMBDA k : AttemptCode(k[1], k[2]))
      [] kind = "event" -> EmitEvent(e, c, env)
      [] kind = "cancel" -> Made(all, LAMBDA k : CancelCode(name, k))
      [] OTHER -> Refuse(c)

Finished(x, arity) ==
    [ok |-> x.ok /\ arity + FrameLocals(x.c) <= MaxStack,
     event |-> x.c.event,
     code |-> [arity |-> arity, locals |-> FrameLocals(x.c),
               code |-> x.code \o <<Op1("return", 0)>>]]

\* A word: the slot of its name exists while its body compiles, so that it can
\* call itself, whether or not it had one before.
CompileWord(e, slots) ==
    LET f == e[3][1]
        mine == [kind |-> "code", arity |-> Len(f[2])]
        env == [params |-> f[2], word |-> e[2], arity |-> Len(f[2]), events |-> TRUE,
                slots |-> (e[2] :> mine) @@ slots]
    IN  Finished(Emit(f[3][1], NoLocals, env), Len(f[2]))

\* A line run at the prompt, and `name is call: ...`, which also runs.
CompileExpression(e, slots) ==
    Finished(Emit(e, NoLocals, [params |-> <<>>, word |-> "", arity |-> 0,
                                events |-> FALSE, slots |-> slots]), 0)
CompileBinding(e, slots) ==
    LET x == Emit(e[3][1], NoLocals, [params |-> <<>>, word |-> "", arity |-> 0,
                                      events |-> FALSE, slots |-> slots])
    IN  Finished([x EXCEPT !.code = @ \o <<Op1("storeslot", e[2])>>], 0)
=============================================================================
