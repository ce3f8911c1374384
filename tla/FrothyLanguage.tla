--------------------------- MODULE FrothyLanguage ---------------------------
(* The prompt and the language behind it (src/src/repl.c): a line is parsed,  *)
(* compiled and run, a definition waits to be called, and `see` writes source *)
(* for a word that was compiled.  It composes the parser, the compiler, the   *)
(* machine and the renderer.                                                  *)
(*                                                                            *)
(* Of the definitions, those of a word and those of the answer of a call are  *)
(* here; the ones that make a value without running are FrothyOverlay's.      *)
EXTENDS FrothyRender, FrothyVm

VARIABLES
    script,     \* the lines still to be typed, as tokens
    trees,      \* what the lines so far parsed as
    events,     \* the event body that was compiled with a word
    names,      \* the parameter names kept with a word
    fresh,      \* the name the running line made, or None
    disturbed,  \* whether the running line was disturbed (bound: once a line)
    shown       \* the source `see` wrote, or <<>>

lineVars == <<script, trees, events, names, fresh, disturbed, shown>>
vars == <<vmVars, lineVars>>

Line == Head(script)
Waiting == frames = <<>> /\ fault = NoFault /\ outcome = <<>>
Typed == Waiting /\ script # <<>>
Known(name) == name \in DOMAIN memory.slots
Prompt == UNCHANGED <<frames, rescue, fault, pending, outcome, sensed>>

\* What the compiler sees of the slots.
SlotKinds ==
    [s \in DOMAIN memory.slots |->
       LET v == memory.slots[s] IN
       CASE v[1] = "code" -> [kind |-> "code", arity |-> words[v[2]].arity]
         [] v[1] = "native" -> [kind |-> "native", arity |-> v[3]]
         [] OTHER -> [kind |-> "data", arity |-> 0]]

Defines(e) == e[1] = "define" /\ e[3][1][1] = "fn"
Binds(e) == e[1] = "define" /\ e[3][1][1] = "call"
StartsDefinition == Is(Line, 1, "record") \/ Is(Line, After(Line, 1), "is") \/
    (Is(Line, 1, "to") /\ IsA(Line, After(Line, 1), "name"))

\* A word: its code replaces what its slot held.
DefineWord(d, x) ==
    /\ x.ok /\ d.ok /\ Defines(d.e)
    /\ LET w == d.e[2] IN
       /\ words' = (w :> x.code) @@ words
       /\ memory' = [memory EXCEPT !.slots = (w :> <<"code", w>>) @@ @]
       /\ events' = (w :> x.event) @@ events
       /\ names' = (w :> d.e[3][1][2]) @@ names
    /\ trees' = Append(trees, d.e)
    /\ script' = Tail(script)
    /\ Prompt /\ UNCHANGED <<fresh, disturbed, shown>>

\* A line that runs: an expression, or a definition by a call, whose name
\* exists while the call runs.
RunsLine(x, e, name, m) ==
    /\ x.ok
    /\ words' = ("line" :> x.code) @@ words
    /\ memory' = m
    /\ frames' = <<NewFrame("line", <<>>, x.code.locals, rescue)>>
    /\ trees' = Append(trees, e)
    /\ script' = Tail(script)
    /\ fresh' = name /\ disturbed' = FALSE /\ sensed' = <<>>
    /\ UNCHANGED <<rescue, fault, pending, outcome, events, names, shown>>
BindCall(d, x) ==
    /\ d.ok /\ Binds(d.e)
    /\ IF Known(d.e[2]) THEN RunsLine(x, d.e, None, memory)
       ELSE RunsLine(x, d.e, d.e[2], [memory EXCEPT !.slots = (d.e[2] :> Nil) @@ @])
Evaluate(d, p, x) == ~d.ok /\ RunsLine(x, p.e, None, memory)

\* Anything else changes nothing.
Refuses ==
    /\ script' = Tail(script)
    /\ trees' = Append(trees, <<>>)
    /\ UNCHANGED <<vmVars, events, names, fresh, disturbed, shown>>
RefuseLine(x) == ~x.ok /\ Refuses

\* `name:` and nothing else runs the word without a line around it, and a
\* bare name answers what its slot holds; either runs a native that takes
\* nothing.
Shape(line) == [k \in DOMAIN line |-> line[k][1]]
Called == Shape(Line) = <<"name", ":", "eof">> /\ Known(Line[1][2])
Bare == Shape(Line) = <<"name", "eof">> /\ Known(Line[1][2])
Holds == memory.slots[Line[1][2]]
NoArguments(v) == \/ v[1] = "code" /\ words[v[2]].arity = 0
                  \/ v[1] = "native" /\ v[3] = 0
RefuseCall == Typed /\ Called /\ ~NoArguments(Holds) /\ Refuses
Direct(kind) ==
    /\ trees' = Append(trees, Node(kind, Line[1][2], <<>>))
    /\ script' = Tail(script)
    /\ fresh' = None /\ disturbed' = FALSE
    /\ UNCHANGED <<words, memory, rescue, fault, pending, events, names, shown>>
CallWord ==
    /\ Typed /\ Called /\ Holds[1] = "code" /\ NoArguments(Holds)
    /\ frames' = <<NewFrame(Holds[2], <<>>, words[Holds[2]].locals, rescue)>>
    /\ sensed' = <<>> /\ UNCHANGED outcome
    /\ Direct("call")
CallNative(answer) ==
    /\ Typed /\ (Called \/ Bare) /\ Holds[1] = "native" /\ NoArguments(Holds)
    /\ outcome' = (IF answer[1] = "error" THEN answer ELSE <<"ok", answer>>)
    /\ sensed' = <<answer>> /\ UNCHANGED frames
    /\ Direct("call")
BareWord ==
    /\ Typed /\ Bare /\ ~(Holds[1] = "native" /\ NoArguments(Holds))
    /\ outcome' = <<"ok", Holds>>
    /\ sensed' = <<>> /\ UNCHANGED frames
    /\ Direct("name")

\* `see name`
SeeLine == Is(Line, 1, "see") /\ Shape(Line) = <<"name", "name", "eof">>
See ==
    /\ Typed /\ SeeLine
    /\ LET name == Line[2][2]  v == memory.slots[name] IN
       shown' = IF ~Known(name) THEN <<>> ELSE IF v[1] # "code" THEN <<>>
                ELSE Render(name, words[v[2]].code, names[v[2]], events[v[2]],
                            {s \in DOMAIN memory.slots : memory.slots[s][1] = "native"})
    /\ trees' = Append(trees, Node("see", Line[2][2], <<>>))
    /\ script' = Tail(script)
    /\ UNCHANGED <<vmVars, events, names, fresh, disturbed>>

\* A line is a definition or an expression.
Compiled(d, p) ==
    CASE d.ok /\ Defines(d.e) -> CompileWord(d.e, SlotKinds)
      [] d.ok -> CompileBinding(d.e, SlotKinds)
      [] StartsDefinition \/ ~p.ok -> Refuse(NoLocals)
      [] OTHER -> CompileExpression(p.e, SlotKinds)
TypeLine ==
    /\ Typed /\ ~Called /\ ~Bare /\ ~SeeLine
    /\ \E d \in {ParseLine(Line)}, p \in {ParseExpressionLine(Line)} :
         /\ d.ok => Defines(d.e) \/ Binds(d.e)
         /\ \E x \in {Compiled(d, p)} : \/ DefineWord(d, x) \/ BindCall(d, x)
                                        \/ Evaluate(d, p, x) \/ RefuseLine(x)

\* The line is over: what is left of its Bytes values is given back, and a
\* name that its definition made goes when the definition failed.
EndLine ==
    /\ frames = <<>> /\ outcome # <<>>
    /\ LET slots == memory.slots
           kept == IF outcome[1] = "error" THEN DOMAIN slots \ {fresh} ELSE DOMAIN slots
       IN  memory' = [memory EXCEPT !.bytes = <<>>, !.slots = [s \in kept |-> slots[s]]]
    /\ outcome' = <<>> /\ pending' = None
    /\ UNCHANGED <<words, frames, rescue, fault, sensed, lineVars>>

LineStep == \/ TypeLine \/ CallWord \/ RefuseCall \/ BareWord \/ See \/ EndLine
            \/ \E answer \in Answers : CallNative(answer)
Step == VmStep /\ UNCHANGED lineVars
Disturbance ==
    /\ ~disturbed /\ disturbed' = TRUE
    /\ \E err \in {"INTERRUPTED", "IO"} : Disturb(err)
    /\ UNCHANGED <<script, trees, events, names, fresh, shown>>
=============================================================================
