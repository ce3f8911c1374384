------------------------------ MODULE MCLanguage ------------------------------
(* Programs: a word `w` with a parameter p, printed, typed, and then called.  *)
EXTENDS LanguageMeaning

VARIABLES
    program,    \* what was meant: the tree of each line
    before      \* the memory when the running line began

Int0(n) == Node("int", n, <<>>)
Ref(n) == Node("name", n, <<>>)
Do(name, args) == Node("call", name, args)
Bin(op, a, b) == Node("bin", op, <<a, b>>)
Put(name, v) == Node("write", name, <<v>>)
Let1(name, v) == Node("bind", name, <<v>>)
Seq2(a, b) == Node("list", "", <<a, b>>)
Seq1(es) == Node("list", "", es)
Word(name, params, body) == Node("define", name, <<Node("fn", params, <<body>>)>>)
Block1(e) == IF e[1] = "list" THEN e ELSE Node("list", "", <<e>>)

Helpers == << Word("id", <<"v">>, Block1(Ref("v"))),
              Word("bad", <<>>, Block1(Bin("/", Int0(1), Int0(0)))) >>
TextSize == [ab |-> 2, xyz |-> 3] @@ [t \in ToSet(Errors) |-> 1]

Data == [x |-> Num(1), c |-> <<"cells">>, r |-> <<"record">>] @@
        ("local0" :> Num(5)) @@ ("mod" :> <<"native", "mod", 2>>) @@
        ("event.register" :> <<"native", "event.register", 4>>) @@
        ("event.cancel" :> <<"native", "event.cancel", 2>>) @@
        ("sense" :> <<"native", "sense", 0>>) @@
        ("bytes.from-text" :> <<"native", "bytes.from-text", 1>>) @@
        ("bytes.length" :> <<"native", "bytes.length", 1>>)
HelperCode == [h \in {"id", "bad"} |->
    LET k == CHOOSE k \in DOMAIN Helpers : Helpers[k][2] = h IN
    CompileWord(Helpers[k], [s \in DOMAIN Data |-> [kind |-> "data", arity |-> 0]]).code]
Start == [slots |-> [h \in {"id", "bad"} |-> <<"code", h>>] @@ Data,
          cells |-> <<Num(0), Num(0)>>, fields |-> [a |-> Num(3)], bytes |-> <<>>]

----------------------------------------------------------------------------
Sensed == Do("sense", <<>>)
Grow == Put("x", Bin("+", Ref("x"), Int0(1)))
Bytes1(t) == Do("bytes.from-text", <<Node("text", t, <<>>)>>)
Use == Seq1(<<Let1("b", Bytes1("ab")), Put("x", Do("bytes.length", <<Ref("b")>>))>>)

Leaves == { Grow, Use, Do("bad", <<>>), Do("w", <<Ref("p")>>), Ref("p"),
            Node("cellwrite", "c", <<Sensed, Int0(5)>>),
            Node("fieldwrite", "a", <<Ref("r"), Sensed>>),
            Bin("%", Ref("p"), Leaf("nil")) }

Rescued == Block1(Leaf("error.code"))
Around(b) ==
    { Node("if", "", <<Sensed, b>>), Node("if", "", <<Ref("x"), b, Block1(Int0(2))>>),
      Node("repeat", "i", <<Int0(2), b>>), Node("repeat", "", <<Ref("x"), b>>),
      Node("while", "", <<Sensed, b>>), Node("forever", "", <<b>>),
      Node("attempt", "", <<b, Rescued>>),
      Node("attempt", "", <<Block1(Do("bad", <<>>)), b>>) }
Twice(leaves) == UNION {Around(Block1(k)) : k \in UNION {Around(Block1(l)) : l \in leaves}}
Nested == Twice(Leaves)
Thrice == UNION {Around(Block1(k)) : k \in Twice({Use, Do("bad", <<>>)})}

Two == Int0(2)
IdP == Do("id", <<Ref("p")>>)
Operators == {"or", "and", "<", "-", "*"}
Operations == UNION {{Bin(o1, Bin(o2, t[1], t[2]), t[3]), Bin(o1, t[1], Bin(o2, t[2], t[3]))} :
                       o1 \in Operators, o2 \in Operators,
                       t \in {<<Two, IdP, Two>>, <<IdP, Two, IdP>>}}

\* Shapes that the two families above do not have.
RECURSIVE Deep(_, _)
Deep(e, n) == IF n = 0 THEN e ELSE Bin("-", Two, Deep(e, n - 1))
Rescues(b) == Node("attempt", "", <<Block1(Do("bad", <<>>)), Seq2(b, Leaf("error.name"))>>)
Others ==
    { Deep(Two, 2), Deep(Node("attempt", "", <<Block1(Do("bad", <<>>)), Rescued>>), 2),
      Rescues(Rescues(Grow)), Rescues(Rescues(Rescues(Grow))),
      Do("id", <<Bin("*", IdP, Do("id", <<IdP>>))>>), Do("mod", <<IdP, Two>>),
      Node("not", "", <<Bin("and", Sensed, Node("not", "", <<Grow>>))>>),
      Node("field", "a", <<Do("id", <<Ref("r")>>)>>),
      Node("fieldwrite", "b", <<Ref("r"), Sensed>>),
      Node("cell", "c", <<IdP>>), Node("cell", "c", <<Bin("-", Ref("p"), Int0(1))>>),
      Node("cellwrite", "c", <<Bin("-", Ref("p"), IdP), Bytes1("ab")>>),
      Seq1(<<Let1("q", IdP), Put("q", Bin("+", Ref("q"), Ref("p"))), Ref("q")>>),
      Seq1(<<Let1("b", Bytes1("xyz")), Let1("d", Bytes1("ab")), Ref("b")>>),
      Seq1(<<Let1("d", Bytes1("ab"))>> \o Use[3] \o <<Put("x", Ref("d"))>>),
      Node("if", "", <<Sensed, Block1(Two), Bin("<", Sensed, Two), Block1(IdP), Block1(Grow)>>),
      Node("repeat", "", <<Two, Seq1(Append(Use[3], Node("repeat", "", <<Two, Block1(Grow)>>)))>>),
      Node("while", "", <<Sensed, Seq1(Append(Use[3], Node("while", "", <<Sensed, Use>>)))>>),
      Node("if", "", <<Sensed, Block1(Two),
                       Seq2(Grow, Node("if", "", <<Sensed, Block1(Two)>>))>>) }

\* More values at once than the machine has.
Tall == {Deep(Two, 9), Deep(Node("attempt", "", <<Block1(Deep(Two, 9)), Rescued>>), 2)}

Pin == Node("event", "rising", <<Two, Block1(Grow)>>)
EventBodies ==
    { Pin, Node("event", "changes", <<IdP, Seq1(Append(Use[3], Grow)), Two>>),
      Node("event", "every", <<Two, Block1(Node("repeat", "i", <<Two, Block1(Grow)>>))>>),
      Node("event", "wifi.disconnected", <<Block1(Do("bad", <<>>))>>),
      Seq2(Pin, Pin), Node("cancel", "changes", <<IdP>>), Node("cancel", "every", <<Two>>),
      Node("cancel", "wifi.reconnected", <<>>), Seq2(Node("cancel", "after", <<Two>>), Pin) }

\* Statements used as operands, which `see` cannot write; and a slot with the
\* name it gives to a local.
Awkward == { Bin("+", Put("x", Int0(1)), Two), Bin("+", Two, Put("x", Int0(1))),
             Do("mod", <<Put("x", IdP), Two>>), Bin("-", Let1("q", Two), Ref("q")),
             Node("if", "", <<Let1("q", IdP), Block1(Ref("q"))>>),
             Seq2(Let1("q", Int0(1)), Bin("+", Ref("q"), Ref("local0"))) }

\* Lines: w is typed, looked at, called; names are rebound around that.
W(b) == Word("w", <<"p">>, Block1(b))
Run2 == Do("w", <<Two>>)
See2 == Node("see", "w", <<>>)
Bind2(name, e) == Node("define", name, <<e>>)
Programs ==
    {<<W(b), Run2>> : b \in Nested \cup Thrice \cup Operations \cup Others \cup Tall}
    \cup {<<W(b), See2>> : b \in Nested \cup Others \cup Operations \cup EventBodies \cup Awkward}
    \cup {<<W(b), Bind2("y", Run2), Ref("y")>> : b \in Others}
    \cup {<<W(Bin("%", IdP, Two)), line, See2, Bind2("x", Run2)>> :
            line \in { Word("id", <<>>, Block1(Two)), Word("mod", <<"a", "b">>, Block1(Ref("b"))),
                       Bind2("id", Do("sense", <<>>)), Bind2("mod", Do("w", <<Two>>)),
                       Bind2("z", Do("bad", <<>>)), Do("nosuch", <<>>) }}
    \cup {<<Do("bad", <<>>), Ref("id"), Do("id", <<>>), Sensed, Ref("sense"), Seq2(Grow, Ref("x"))>>}

Init ==
    /\ program \in Programs
    /\ script = [k \in DOMAIN program |-> SourceOf(program[k])]
    /\ words = HelperCode /\ memory = Start /\ before = Start
    /\ frames = <<>> /\ rescue = None /\ fault = NoFault /\ pending = None
    /\ outcome = <<>> /\ sensed = <<>>
    /\ trees = <<>> /\ events = [h \in {"id", "bad"} |-> <<>>]
    /\ names = [id |-> <<"v">>, bad |-> <<>>]
    /\ fresh = None /\ disturbed = FALSE /\ shown = <<>>

History == program' = program /\ before' = (IF Waiting THEN memory ELSE before)
Machine == UNCHANGED lineVars /\ History
Next0 ==
    \/ (TypeLine /\ History)
    \/ (CallWord /\ History)
    \/ (RefuseCall /\ History)
    \/ (BareWord /\ History)
    \/ (See /\ History)
    \/ (EndLine /\ History)
    \/ \E answer \in Answers : CallNative(answer) /\ History
    \/ (Execute /\ Machine)
    \/ (DropValue /\ Machine)
    \/ (Call /\ Machine)
    \/ (Return /\ Machine)
    \/ (Catch /\ Machine)
    \/ (Unwind /\ Machine)
    \/ \E answer \in Answers : AskWorld(answer) /\ Machine
    \/ (Disturbance /\ History)
mcVars == <<vars, program, before>>
Spec == Init /\ [][Next0]_mcVars
\* The runner goes on by itself.
FairSpec == Spec /\ WF_mcVars(Step /\ History)

----------------------------------------------------------------------------
\* A line that was printed from a tree is parsed back to that tree: what an
\* operator, a call's arguments or a bracket belong to is as the grammar of
\* parse.c says, also where an argument ends before the next call.
ParsesAsMeant ==
    trees = <<>> => \A k \in DOMAIN program :
        program[k][1] # "see" =>
            LET t == SourceOf(program[k]) IN
            Got(program[k], Len(t)) = IF program[k][1] = "define" THEN ParseLine(t)
                                      ELSE ParseExpressionLine(t)

\* What the words of the slots mean, as trees.
Meanings ==
    LET all == Helpers \o SelectSeq(trees, LAMBDA e : e # <<>> /\ Defines(e))
    IN  [w \in DOMAIN words \ {"line"} |->
           all[CHOOSE k \in DOMAIN all : /\ all[k][2] = w
                 /\ \A j \in k + 1..Len(all) : all[j][2] # w][3][1]]
Outside(e) == [meanings |-> Meanings, calls |-> IF e[1] = "call" /\ e[3] = <<>> THEN 0 ELSE 1,
               height |-> 0, attempts |-> 0, rescues |-> 0,
               tail |-> FALSE, index |-> "", error |-> None]
World == [slots |-> before.slots, cells |-> before.cells, fields |-> before.fields,
          locals |-> <<>>, bytes |-> <<>>, made |-> 0, world |-> sensed]
Meant ==
    LET e == trees[Len(trees)] IN
    IF ~Binds(e) THEN Eval(e, World, Outside(e))
    ELSE LET r == Eval(e[3][1], World, Outside(<<"line">>))
         IN  IF Failed(r) THEN r
             ELSE IF IsBytes(ValueOf(r)) THEN Raises("VOLATILE", r.s)
             ELSE Gives(Nil, [r.s EXCEPT !.slots = (e[2] :> ValueOf(r)) @@ @])
Seen(slots) == [s \in DOMAIN slots \ {fresh} |-> slots[s]]
\* Compiling a line and running it on the machine gives what the tree means:
\* the answer or the error, and what slots, cells, fields and Bytes values are
\* left with, whatever the world answers (of undisturbed lines).
AnswersAsMeant ==
    outcome # <<>> /\ ~disturbed =>
        \A m \in {Meant} :
        /\ outcome = m.out
        /\ IF m.out[1] = "ok" THEN memory.slots = m.s.slots
           ELSE Seen(memory.slots) = m.s.slots
        /\ memory.cells = m.s.cells /\ memory.fields = m.s.fields
        /\ [k \in 1..Mark |-> memory.bytes[k].text] = [k \in DOMAIN m.s.bytes |-> m.s.bytes[k].text]

\* The parser, the compiler and the machine together do what a line's tree
\* means: precedence and argument ends (parse.c), jumps, locals and loop
\* checkpoints (compile.c), stack, frames, attempts and Bytes (vm.c).
CompiledAsMeant == TypeOK /\ ParsesAsMeant /\ CompiledCodeIsSound /\ AnswersAsMeant

\* A write, a bind or a cancel that is not a statement.
RECURSIVE Nests(_)
Nests(e) == \/ e[1] # "list" /\ \E k \in DOMAIN e[3] : e[3][k][1] \in Prefix
            \/ \E k \in DOMAIN e[3] : Nests(e[3][k])
RECURSIVE Reads(_, _)
Reads(e, ns) == (e[1] = "name" /\ e[2] \in ns) \/ \E k \in DOMAIN e[3] : Reads(e[3][k], ns)
LocalNames == {"local" \o ToString(n) : n \in 0..MaxLocals}

Mine == program[1]
SeenAgain ==
    \A x \in {CompileWord(Mine, SlotKinds)} : x.ok =>
        shown # <<>> /\ \A p \in {ParseLine(shown)} : p.ok /\ CompileWord(p.e, SlotKinds) = x
LookedAt == trees # <<>> /\ trees[Len(trees)] = See2 /\ Known("w")
NativesStand == \A s \in DOMAIN Data : Data[s][1] = "native" => memory.slots[s] = Data[s]
\* `see` shows every compiled word as source that compiles to the same code,
\* as long as its natives stand.  Statements as operands and slots with the
\* name of a local are left out: of those src/CHANGELOG.md:369 says too much.
SeeRecompiles ==
    LookedAt /\ NativesStand /\ ~Nests(Mine) /\ ~Reads(Mine, LocalNames) => SeenAgain
=============================================================================
