--------------------------- MODULE FrothyConnect ---------------------------
(***************************************************************************)
(* `frothy connect` (cmd/frothy-session/connect_pump.go, connect_unix.go,  *)
(* connect_reset.go): the goroutine that turns the bytes of the serial     *)
(* line into events, and the loop that edits the user's line while it      *)
(* shows what the board writes.                                            *)
(*                                                                         *)
(* A byte is a line end ("nl"), a space, ">", the start of a ROM banner    *)
(* ("ets"), or other text ("x", which is also what the user types).  How   *)
(* the line and its prompt are drawn is left out.                          *)
(***************************************************************************)
EXTENDS Naturals, Sequences, FiniteSets, SequencesExt

CONSTANTS
    MaxBytes, \* bound: bytes the board writes
    MaxTyped, \* bound: characters on the line
    MaxKeys   \* bound: keys the user presses

ASSUME ConnectAssumption == {MaxBytes, MaxTyped, MaxKeys} \subseteq Nat

VARIABLES
    stream, \* history: all the bytes the pump has taken
    pump,   \* the pump: line buffer, line start, reset session, held ">"
    told,   \* history: the events it has sent, byte by byte
    events, \* those the loop has not taken
    buf,    \* length of the line the user edits
    form,   \* length of the earlier lines of its form
    echoes, \* expectedEchoes: how much of each line the board has yet to echo
    extra,  \* resolvedExpectedEchoes
    pending, \* text held back behind the line
    idle,   \* the timer that shows it runs
    once,   \* hasInterrupt
    keys,   \* keys pressed so far
    exit,   \* the loop has ended
    taken,  \* history: text the loop took and did not swallow as an echo
    shown,  \* history: text it has shown
    emptied \* history: the line was emptied while text was held

pumpVars == <<stream, pump, told>>
lineVars == <<buf, form, once, keys, emptied>>
textVars == <<pending, idle, shown>>
echoVars == <<echoes, extra, taken>>
connectVars == <<pumpVars, lineVars, textVars, echoVars, events, exit>>

Bytes == {"nl", "sp", "gt", "ets", "x"}
Chunk(c) == [k |-> "bytes", text |-> c]
Event(k) == [k |-> k, text |-> <<>>]
TextOf(e) == IF e.k = "bytes" THEN e.text ELSE <<e.k>>
Flat(es) == FlattenSeq([i \in DOMAIN es |-> TextOf(es[i])])

ConnectInit ==
    /\ stream = <<>>
    /\ pump = [line |-> "none", start |-> TRUE, reset |-> FALSE, held |-> FALSE, on |-> TRUE, out |-> <<>>]
    /\ told = <<>> /\ events = <<>>
    /\ buf = 0 /\ form = 0 /\ echoes = <<>> /\ extra = 0 /\ pending = <<>> /\ idle = FALSE
    /\ once = FALSE /\ keys = 0 /\ exit = FALSE /\ taken = <<>> /\ shown = <<>> /\ emptied = FALSE

(***************************************************************************)
(* The pump.                                                               *)
(***************************************************************************)

\* The line buffer after more bytes, as far as isResetBannerLine looks at it.
LineEnds(c) == {i \in DOMAIN c : c[i] = "nl"}
Begun(c) == {i \in DOMAIN c : c[i] # "sp" /\ \A j \in LineEnds(c) : j < i}
LineAfter(line, c) ==
    IF LineEnds(c) = {} /\ line # "none" THEN line
    ELSE IF Begun(c) = {} THEN "none"
    ELSE IF c[Min(Begun(c))] = "ets" THEN "banner" ELSE "text"
Banners(p, c) ==
    {i \in DOMAIN c : c[i] = "nl" /\ LineAfter(p.line, SubSeq(c, 1, i - 1)) = "banner"}

EmitBytes(p, c) ==
    IF c = <<>> THEN p
    ELSE LET q == [p EXCEPT !.line = LineAfter(p.line, c), !.start = Last(c) = "nl"]
         IN IF p.reset \/ Banners(p, c) = {} THEN [q EXCEPT !.out = Append(@, Chunk(c))]
            ELSE LET i == Min(Banners(p, c)) IN
                 [q EXCEPT !.reset = TRUE,
                           !.out = @ \o <<Chunk(SubSeq(c, 1, i)), Event("reset")>>
                                     \o IF i = Len(c) THEN <<>> ELSE <<Chunk(SubSeq(c, i + 1, Len(c)))>>]

EmitPrompt(p) ==
    [p EXCEPT !.reset = FALSE, !.start = FALSE, !.held = FALSE,
              !.out = @ \o (IF p.reset THEN <<Event("restored")>> ELSE <<>>) \o <<Event("prompt")>>]

StartsLine(p, c, i) == IF i = 1 THEN p.start ELSE c[i - 1] = "nl"
Prompts(p, c) ==
    {i \in 1 .. Len(c) - 1 : c[i] = "gt" /\ c[i + 1] = "sp" /\ StartsLine(p, c, i)}

\* (Mutant of HoldsGt: a ">" that ends a chunk is held only if it is all of it.)
HoldsGtAlone(p, c) == c = <<"gt">> /\ p.start
HoldsGt(p, c) == Last(c) = "gt" /\ StartsLine(p, c, Len(c))

\* A round of processChunk: up to the first prompt, and past it.
Round(l) ==
    IF Prompts(l.p, l.c) = {} THEN l
    ELSE LET i == Min(Prompts(l.p, l.c))
         IN  [p |-> EmitPrompt(EmitBytes(l.p, SubSeq(l.c, 1, i - 1))), c |-> SubSeq(l.c, i + 2, Len(l.c))]

Scan(p, c) ==
    LET round[k \in 0 .. Len(c)] == IF k = 0 THEN [p |-> p, c |-> c] ELSE Round(round[k - 1])
        left == round[Len(c)]
    IN  IF left.c # <<>> /\ HoldsGt(left.p, left.c)
        THEN [EmitBytes(left.p, Front(left.c)) EXCEPT !.held = TRUE]
        ELSE EmitBytes(left.p, left.c)

ProcessChunk(p, c) ==
    IF ~p.held THEN Scan(p, c)
    ELSE IF Head(c) = "sp" THEN Scan(EmitPrompt(p), Tail(c))
    ELSE Scan([p EXCEPT !.held = FALSE], <<"gt">> \o c)

Emitted(p) ==
    /\ pump' = [p EXCEPT !.out = <<>>]
    /\ events' = events \o p.out /\ told' = told \o Flat(p.out)

\* A chunk is what has arrived by the time the pump looks again.
PumpChunk ==
    /\ pump.on
    /\ \E n \in 1 .. MaxBytes - Len(stream) : \E c \in [1 .. n -> Bytes] :
         stream' = stream \o c /\ Emitted(ProcessChunk(pump, c))
    /\ UNCHANGED <<lineVars, textVars, echoVars, exit>>

\* An error of the serial line ends the pump, whatever it has not taken; a held
\* ">" comes first.
PumpError ==
    /\ pump.on
    /\ LET p == IF pump.held THEN EmitBytes([pump EXCEPT !.held = FALSE], <<"gt">>) ELSE pump
       IN Emitted([p EXCEPT !.on = FALSE, !.out = Append(@, Event("error"))])
    /\ UNCHANGED <<stream, lineVars, textVars, echoVars, exit>>

(***************************************************************************)
(* The loop.                                                               *)
(***************************************************************************)

\* flushPending.
Flush == shown' = shown \o pending /\ pending' = <<>> /\ idle' = FALSE
Leave == exit' = TRUE /\ Flush

\* swallowExpectedEcho: a byte that is not the next one of the echo ends it, and
\* is shown with the rest of its chunk.
SwallowByte(s, b) ==
    IF s.over \/ s.echoes = <<>> THEN [s EXCEPT !.text = Append(@, b)]
    ELSE IF Head(s.echoes) > 0 /\ b = "x" THEN [s EXCEPT !.echoes[1] = @ - 1]
    ELSE [echoes |-> Tail(s.echoes), extra |-> s.extra + 1, over |-> b # "nl" \/ Head(s.echoes) # 0,
          text |-> IF b = "nl" /\ Head(s.echoes) = 0 THEN s.text ELSE Append(s.text, b)]

Swallow(es, n, c) ==
    LET after[i \in 0 .. Len(c)] ==
          IF i = 0 THEN [text |-> <<>>, echoes |-> es, extra |-> n, over |-> FALSE]
          ELSE SwallowByte(after[i - 1], c[i])
    IN  after[Len(c)]

\* writeDeviceText: what is not an echo is shown, or held behind the line.
WriteText(c) ==
    IF buf = 0 THEN shown' = shown \o c /\ UNCHANGED <<pending, idle>>
    ELSE pending' = pending \o c /\ idle' = (idle \/ c # <<>>) /\ UNCHANGED shown

TakeText ==
    /\ events # <<>> /\ Head(events).k \in {"bytes", "reset", "restored"}
    /\ \E s \in {Swallow(echoes, extra, TextOf(Head(events)))} :
         /\ echoes' = s.echoes /\ extra' = s.extra /\ taken' = taken \o s.text /\ WriteText(s.text)
    /\ UNCHANGED <<lineVars, exit>>

\* finishExpectedEchoForPrompt: a prompt ends the wait for one echo.
TakePrompt ==
    /\ events # <<>> /\ Head(events).k = "prompt"
    /\ extra' = IF extra > 0 THEN extra - 1 ELSE extra
    /\ echoes' = IF extra = 0 /\ echoes # <<>> THEN Tail(echoes) ELSE echoes
    /\ UNCHANGED <<lineVars, textVars, taken, exit>>

TakeError ==
    /\ events # <<>> /\ Head(events).k = "error"
    /\ Leave /\ UNCHANGED <<lineVars, echoVars>>

TakeEvent == (TakeText \/ TakePrompt \/ TakeError) /\ events' = Tail(events) /\ UNCHANGED pumpVars

Key == keys < MaxKeys /\ keys' = keys + 1 /\ UNCHANGED <<pumpVars, events>>
Edited(n) ==
    /\ buf' = n /\ emptied' = (emptied \/ (n = 0 /\ pending # <<>>))

\* A character, a cut, or a line of the history.
Edit ==
    /\ Key /\ \E n \in 0 .. MaxTyped : n # buf /\ Edited(n)
    /\ UNCHANGED <<form, once, textVars, echoVars, exit>>

\* Held text comes before the line goes out.  A line that completes its form is
\* sent unless it is too long or the write fails.
Submit ==
    /\ Key /\ Flush /\ buf' = 0 /\ UNCHANGED <<once, emptied, extra, taken, exit>>
    /\ \/ form' = form + buf /\ form + buf \in 1 .. MaxTyped /\ UNCHANGED echoes
       \/ /\ form' = 0
          /\ echoes' \in {echoes, IF form + buf = 0 THEN echoes ELSE Append(echoes, form + buf)}

\* The second Ctrl-C within a second leaves; the first clears a line, or goes to
\* the board.
PressCtrlC ==
    /\ Key /\ once' = TRUE /\ UNCHANGED echoVars
    /\ \/ once /\ Leave /\ UNCHANGED <<buf, form, emptied>>
       \/ IF buf > 0 \/ form > 0
          THEN Edited(0) /\ form' = 0 /\ UNCHANGED <<textVars, exit>>
          ELSE UNCHANGED <<buf, form, emptied, textVars, exit>>

\* The end of the input, an error of it, or a closed reader; a signal.
InputEnds ==
    /\ Key /\ Leave /\ UNCHANGED <<buf, form, once, emptied, echoVars>>

IdleFires ==
    /\ idle /\ Flush /\ UNCHANGED <<pumpVars, events, lineVars, echoVars, exit>>

Loop == ~exit /\ (TakeEvent \/ Edit \/ Submit \/ PressCtrlC \/ InputEnds \/ IdleFires)
Pump == ~exit /\ (PumpChunk \/ PumpError)
ConnectNext == Pump \/ Loop

(***************************************************************************)
(* What the bytes mean, whatever chunks they come in.                      *)
(***************************************************************************)

IsPrompt(s, i) ==
    /\ i \in 1 .. Len(s) - 1 /\ s[i] = "gt" /\ s[i + 1] = "sp"
    /\ i = 1 \/ s[i - 1] = "nl"
LineText(s, i) ==
    {j \in 1 .. i - 1 : /\ ~IsPrompt(s, j) /\ s[j] # "sp"
                        /\ \A k \in j .. i - 1 : s[k] # "nl"}
EndsBanner(s, i) ==
    s[i] = "nl" /\ LineText(s, i) # {} /\ s[Min(LineText(s, i))] = "ets"
InReset(s, i) == \E j \in 1 .. i - 1 : EndsBanner(s, j) /\ \A k \in j .. i - 1 : ~IsPrompt(s, k)
Meaning(s, i) ==
    IF IsPrompt(s, i) THEN (IF InReset(s, i) THEN <<"restored">> ELSE <<>>) \o <<"prompt">>
    ELSE IF IsPrompt(s, i - 1) THEN <<>>
    ELSE IF EndsBanner(s, i) /\ ~InReset(s, i) THEN <<"nl", "reset">> ELSE <<s[i]>>

(***************************************************************************)
(* Properties.                                                             *)
(***************************************************************************)

\* However the bytes are split into chunks, the pump tells the loop the same:
\* every byte once and in order, a prompt where "> " starts a line, a reset from
\* a banner line to the next prompt (connect_pump.go:5-8).
PumpSplitBlind ==
    pump.on => told = FlattenSeq([i \in 1 .. Len(stream) - (IF pump.held THEN 1 ELSE 0) |-> Meaning(stream, i)])

\* What the loop takes and does not swallow as an echo it shows once, and, unless
\* the user empties the line while text is held, in the order it came; held
\* text has its timer, and none is held when the loop ends
\* (connect_unix.go:210-224, 507-519, 550-616).
Occurs(b, s) == Cardinality({i \in DOMAIN s : s[i] = b})
ShownOnce ==
    /\ shown \o pending = taken
          \/ (emptied /\ \A b \in Bytes \cup {"reset", "restored"} : Occurs(b, shown \o pending) = Occurs(b, taken))
    /\ pending # <<>> => idle /\ ~exit

\* The user sees what the board writes, as the board writes it.
SessionFaithful == PumpSplitBlind /\ ShownOnce

=============================================================================
