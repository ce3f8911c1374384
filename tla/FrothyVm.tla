------------------------------ MODULE FrothyVm ------------------------------
(* The machine that runs a line: src/src/vm.c and the Bytes store of          *)
(* src/src/runtime.c and object.c.  A step is one instruction of the top      *)
(* frame; a call puts a frame on top, its return takes it off.  An error      *)
(* either starts the rescue of the innermost open attempt of the frame it is  *)
(* in, or ends that frame and is then an error of its caller.                 *)
(*                                                                            *)
(* Left out: errors of malformed code, which the compiler does not write (an  *)
(* operand past the frame), and the storage of texts.  The two runners of     *)
(* vm.c, for code in memory and for code read out of flash, are one here.     *)
EXTENDS FrothyCode

CONSTANTS MaxInt,       \* FR_TAGGED_INT_MAX; the least integer is -MaxInt - 1
          MaxCalls,     \* FR_PROFILE_MAX_CALL_DEPTH
          MaxAttempts,  \* FR_PROFILE_MAX_ATTEMPT_DEPTH: open attempts, and rescues
          MaxBytes,     \* FR_PROFILE_BYTES_COUNT: Bytes values that are held
          Arena,        \* FR_PROFILE_BYTES_ARENA_BYTES
          Size,         \* bytes of a text: a function of its spelling
          MaxSensed     \* bound: answers of `sense` that are left open

ASSUME VmLimits == /\ {MaxInt, MaxCalls, MaxAttempts, MaxBytes} \subseteq Nat \ {0}
                   /\ Arena \in Nat /\ MaxSensed \in Nat

VARIABLES
    words,      \* the code objects: name -> [arity, locals, code]
    memory,     \* [slots, cells, fields, bytes]
    frames,     \* the frames of the run, the innermost last
    rescue,     \* the error error.code answers, or None
    fault,      \* an error on its way out: [err, here]
    pending,    \* what the next safe point will notice
    outcome,    \* how the run ended: <<"ok", v>>, <<"error", e>> or <<>>
    sensed      \* what `sense` has answered in this run

vmVars == <<words, memory, frames, rescue, fault, pending, outcome, sensed>>

None == "none"
NoFault == [err |-> None, here |-> TRUE]

----------------------------------------------------------------------------
(* Frames *)

\* args and locals are one array in vm.c.  An attempt remembers the stack and
\* the Bytes of its start, a rescue the error that was readable before it.
NewFrame(word, args, locals, saved) ==
    [word |-> word, ip |-> 1, args |-> args, locals |-> [k \in 1..locals |-> Nil],
     stack |-> <<>>, attempts |-> <<>>, rescues |-> <<>>, saved |-> saved]

WithTop(f) == [frames EXCEPT ![Len(frames)] = f]
Outer == SubSeq(frames, 1, Len(frames) - 1)

\* Rescues leave from the innermost one while they end at one of the places.
Kept(rescues, places) ==
    CHOOSE n \in 0..Len(rescues) :
        /\ n = 0 \/ rescues[n].end \notin places
        /\ \A k \in n + 1..Len(rescues) : rescues[k].end \in places
Leaving(f, places) ==
    [f EXCEPT !.rescues = SubSeq(@, 1, Kept(@, places))]
\* (Mutant of ErrorAfter: a rescue that ends leaves its error behind.)
ErrorStays(f, places) == rescue
ErrorAfter(f, places) ==
    LET n == Kept(f.rescues, places)
    IN  IF n = Len(f.rescues) THEN rescue ELSE f.rescues[n + 1].saved

\* Every step first leaves the rescues that end where it is.
Frame == Leaving(frames[Len(frames)], {frames[Len(frames)].ip})
Readable == ErrorAfter(frames[Len(frames)], {frames[Len(frames)].ip})
Running == frames # <<>> /\ fault = NoFault
Instruction == words[Frame.word].code[Frame.ip]
At(op) == Running /\ Instruction[1] = op

----------------------------------------------------------------------------
(* Bytes values: an entry holds a text and where its bytes end in the arena *)

Used == LET b == memory.bytes IN IF b = <<>> THEN 0 ELSE b[Len(b)].end
Mark == Len(memory.bytes)
\* Entries are given back from the newest: a mark is where to cut.
Cut(n) == [memory EXCEPT !.bytes = SubSeq(@, 1, n)]
Fits(t) == Used + Size[t] <= Arena /\ Mark < MaxBytes
Held(t) == [memory EXCEPT !.bytes = Append(@, [text |-> t, end |-> Used + Size[t]])]

----------------------------------------------------------------------------
(* Instructions: each takes the frame to a frame, a memory or an error *)

Ok(f, m) == [err |-> None, frame |-> f, memory |-> m]
Err(e) == [err |-> e, frame |-> Frame, memory |-> memory]

Falsy(v) == v \in {Nil, Truth(FALSE), Num(0)}
InRange(n) == -MaxInt - 1 <= n /\ n <= MaxInt
Abs(n) == IF n < 0 THEN -n ELSE n
Quotient(a, b) == LET q == Abs(a) \div Abs(b) IN IF (a < 0) = (b < 0) THEN q ELSE -q

\* The frame with n values less and vs more, and one instruction on.
Next(f, n, vs) == [f EXCEPT !.stack = SubSeq(@, 1, Len(@) - n) \o vs, !.ip = @ + 1]
Jumped(f, d) == [f EXCEPT !.ip = @ + d]

Binary(f, op) ==
    LET n == Len(f.stack)  b == f.stack[n]  a == f.stack[n - 1]
        value == CASE op = "+" -> a[2] + b[2] [] op = "-" -> a[2] - b[2]
                   [] op = "*" -> a[2] * b[2] [] op = "/" -> Quotient(a[2], b[2])
        holds == CASE op = "<" -> a[2] < b[2]  [] op = ">" -> a[2] > b[2]
                   [] op = "<=" -> a[2] <= b[2] [] op = ">=" -> a[2] >= b[2]
                   [] op = "=" -> a[2] = b[2] [] op = "<>" -> a[2] # b[2]
    IN  CASE a[1] # "int" \/ b[1] # "int" -> Err("TYPE")
          [] op = "/" /\ b[2] = 0 -> Err("DOMAIN")
          [] op \notin {"+", "-", "*", "/"} -> Ok(Next(f, 2, <<Truth(holds)>>), memory)
          [] ~InRange(value) -> Err("RANGE")
          [] OTHER -> Ok(Next(f, 2, <<Num(value)>>), memory)

\* Slots, cells and fields keep no Bytes value, and `set` of a local neither.
IsBytes(v) == v[1] = "bytes"
Storable(v) == v[1] \in {"nil", "bool", "int", "text", "record"}
StoreIn(f, n, v, m) == IF IsBytes(v) THEN Err("VOLATILE")
                       ELSE IF ~Storable(v) THEN Err("TYPE") ELSE Ok(Next(f, n, <<Nil>>), m)
StoreSlot(f, slot) ==
    LET v == f.stack[Len(f.stack)] IN
    IF IsBytes(v) THEN Err("VOLATILE")
    ELSE Ok(Next(f, 1, <<Nil>>), [memory EXCEPT !.slots[slot] = v])
StoreLocal(f, k, set) ==
    LET v == f.stack[Len(f.stack)] IN
    IF set /\ IsBytes(v) THEN Err("VOLATILE")
    ELSE Ok([Next(f, 1, <<Nil>>) EXCEPT !.locals[k + 1] = v], memory)

\* A literal index comes with the instruction; any other one is on the stack,
\* above the value to write.
Cell(f, slot, index, write) ==
    LET n == Len(f.stack)
        i == IF index >= 0 THEN Num(index) ELSE f.stack[n]
        taken == IF index >= 0 THEN 0 ELSE 1
    IN  CASE memory.slots[slot][1] # "cells" -> Err("TYPE")
          [] i[1] # "int" -> Err("TYPE")
          [] i[2] \notin 0..Len(memory.cells) - 1 -> Err("RANGE")
          [] ~write -> Ok(Next(f, taken, <<memory.cells[i[2] + 1]>>), memory)
          [] OTHER -> StoreIn(f, taken + 1, f.stack[n - taken],
                              [memory EXCEPT !.cells[i[2] + 1] = f.stack[n - taken]])
Field(f, name, write) ==
    LET n == Len(f.stack)  object == f.stack[IF write THEN n - 1 ELSE n] IN
    CASE object[1] # "record" -> Err("TYPE")
      [] name \notin DOMAIN memory.fields -> Err("NOT_FOUND")
      [] ~write -> Ok(Next(f, 1, <<memory.fields[name]>>), memory)
      [] OTHER -> StoreIn(f, 2, f.stack[n], [memory EXCEPT !.fields[name] = f.stack[n]])

\* A loop's count stays on the stack; `as` counts up in a local.
Counted(f, k, n) == IF k < 0 THEN f ELSE [f EXCEPT !.locals[k + 1] = Num(n)]
RepeatBegin(f, d, k) ==
    LET count == f.stack[Len(f.stack)] IN
    CASE count[1] # "int" -> Err("TYPE")
      [] count[2] < 0 -> Err("RANGE")
      [] count[2] = 0 -> Ok([Next(f, 1, <<>>) EXCEPT !.ip = f.ip + d], memory)
      [] OTHER -> Ok(Counted(Next(f, 0, <<>>), k, 0), memory)
RepeatNext(f, d, k) ==
    LET count == f.stack[Len(f.stack)] IN
    CASE count[1] # "int" -> Err("TYPE")
      [] count[2] <= 0 -> Err("INVALID")
      [] count[2] = 1 -> Ok(Next(f, 1, <<>>), memory)
      [] k >= 0 /\ f.locals[k + 1][1] # "int" -> Err("TYPE")
      [] k >= 0 /\ f.locals[k + 1][2] >= MaxInt -> Err("RANGE")
      [] OTHER -> Ok([Counted(Next(f, 1, <<Num(count[2] - 1)>>), k,
                              IF k < 0 THEN 0 ELSE f.locals[k + 1][2] + 1)
                        EXCEPT !.ip = f.ip + d], memory)

\* A loop keeps the mark of its Bytes in a hidden local.
MarkBytes(f, k) == Ok([Next(f, 0, <<>>) EXCEPT !.locals[k + 1] = Num(Mark)], memory)
RewindBytes(f, k) ==
    LET mark == f.locals[k + 1] IN
    IF mark[1] # "int" \/ mark[2] \notin 0..Mark THEN Err("INVALID")
    ELSE Ok(Next(f, 0, <<>>), Cut(mark[2]))

AttemptBegin(f, d) ==
    LET fallback == f.ip + d
        after == fallback - 1 + words[f.word].code[fallback - 1][2]
    IN  IF Len(f.attempts) >= MaxAttempts THEN Err("CAPACITY")
        ELSE Ok([Next(f, 0, <<>>) EXCEPT !.attempts =
                   Append(@, [depth |-> Len(f.stack), fallback |-> fallback,
                              end |-> after, bytes |-> Mark])], memory)
AttemptEnd(f, d) ==
    IF f.attempts = <<>> THEN Err("INVALID")
    ELSE Ok([Jumped(f, d) EXCEPT !.attempts = SubSeq(@, 1, Len(@) - 1)], memory)

ErrorValue(f, v) == IF Readable = None THEN Err("INVALID")
                    ELSE Ok(Next(f, 0, <<v>>), memory)

\* Natives that answer out of the machine's own state.
Modulo(f) ==
    LET n == Len(f.stack)  b == f.stack[n]  a == f.stack[n - 1] IN
    CASE a[1] # "int" \/ b[1] # "int" -> Err("TYPE")
      [] b[2] = 0 -> Err("DOMAIN")
      [] OTHER -> Ok(Next(f, 2, <<Num(a[2] - b[2] * Quotient(a[2], b[2]))>>), memory)
FromText(f) ==
    LET v == f.stack[Len(f.stack)] IN
    CASE v[1] # "text" -> Err("TYPE")
      [] ~Fits(v[2]) -> Err("CAPACITY")
      [] OTHER -> Ok(Next(f, 1, <<<<"bytes", Mark + 1>>>>), Held(v[2]))
BytesLength(f) ==
    LET v == f.stack[Len(f.stack)] IN
    CASE ~IsBytes(v) -> Err("TYPE")
      [] v[2] > Mark -> Err("VOLATILE")
      [] OTHER -> Ok(Next(f, 1, <<Num(Size[memory.bytes[v[2]].text])>>), memory)

Pops(in) ==
    CASE in[1] \in {"storelocal", "setlocal", "storeslot", "loadfield",
                    "jumpfalsy", "repeat", "next"} -> 1
      [] in[1] \in {"binary", "storefield"} -> 2
      [] in[1] = "loadcell" -> IF in[3] < 0 THEN 1 ELSE 0
      [] in[1] = "storecell" -> IF in[3] < 0 THEN 2 ELSE 1
      [] in[1] = "native" -> in[3]
      [] OTHER -> 0

Effect(f, in) ==
    LET op == in[1]  a == in[2]  b == in[3]  got(v) == Ok(Next(f, 0, <<v>>), memory) IN
    CASE Len(f.stack) < Pops(in) -> Err("UNDERFLOW")
      [] op = "push" -> got(a)
      [] op = "loadarg" -> got(f.args[a])
      [] op = "loadlocal" -> got(f.locals[a + 1])
      [] op = "loadslot" -> got(memory.slots[a])
      [] op = "error.code" -> ErrorValue(f, Num(ErrorNumber(Readable)))
      [] op = "error.name" -> ErrorValue(f, <<"text", Readable>>)
      [] op = "storelocal" -> StoreLocal(f, a, FALSE)
      [] op = "setlocal" -> StoreLocal(f, a, TRUE)
      [] op = "storeslot" -> StoreSlot(f, a)
      [] op = "loadcell" -> Cell(f, a, b, FALSE)
      [] op = "storecell" -> Cell(f, a, b, TRUE)
      [] op = "loadfield" -> Field(f, a, FALSE)
      [] op = "storefield" -> Field(f, a, TRUE)
      [] op = "binary" -> Binary(f, a)
      [] op = "jump" -> Ok(Jumped(f, a), memory)
      [] op = "jumpfalsy" -> Ok(IF Falsy(f.stack[Len(f.stack)])
                                THEN [Next(f, 1, <<>>) EXCEPT !.ip = f.ip + a]
                                ELSE Next(f, 1, <<>>), memory)
      [] op = "mark" -> MarkBytes(f, a)
      [] op = "rewind" -> RewindBytes(f, a)
      [] op = "repeat" -> RepeatBegin(f, a, b)
      [] op = "next" -> RepeatNext(f, a, b)
      [] op = "attempt" -> AttemptBegin(f, a)
      [] op = "endattempt" -> AttemptEnd(f, a)
      \* a native, if the slot still holds one
      [] memory.slots[a][1] # "native" -> Err("TYPE")
      [] a = "mod" -> Modulo(f)
      [] a = "bytes.from-text" -> FromText(f)
      [] a = "bytes.length" -> BytesLength(f)
      [] OTHER -> Err("INVALID")

----------------------------------------------------------------------------
(* Steps *)

Fail(e) == /\ frames' = WithTop(Frame)
           /\ fault' = [err |-> e, here |-> TRUE]
           /\ UNCHANGED memory
Pushed(f, m) ==
    IF Len(f.stack) > MaxStack
    THEN /\ frames' = WithTop(Frame) /\ memory' = m
         /\ fault' = [err |-> "OVERFLOW", here |-> TRUE]
    ELSE /\ frames' = WithTop(f) /\ memory' = m /\ UNCHANGED fault

Controls == {"drop", "return", "call"}
Sense == Op2("native", "sense", 0)
Senses == Instruction = Sense /\ memory.slots["sense"][1] = "native"
Execute ==
    /\ Running /\ Instruction[1] \notin Controls /\ ~Senses
    /\ \E e \in {Effect(Frame, Instruction)} :
       IF e.err = None THEN Pushed(e.frame, e.memory) ELSE Fail(e.err)
    /\ rescue' = Readable
    /\ UNCHANGED <<words, pending, outcome, sensed>>

\* A native that asks the world: it answers 1 or 0, or fails.
AskWorld(answer) ==
    /\ Running /\ Senses
    /\ IF Len(sensed) < MaxSensed
       THEN sensed' = Append(sensed, answer)
       ELSE answer = Num(0) /\ UNCHANGED sensed
    /\ IF answer[1] = "error" THEN Fail(answer[2])
       ELSE Pushed(Next(Frame, 0, <<answer>>), memory)
    /\ rescue' = Readable
    /\ UNCHANGED <<words, pending, outcome>>

\* The end of a statement and the end of a body look at the interrupt and run
\* the event queue; what they find ends the frame, past its own attempts.
Noticed == [err |-> pending, here |-> FALSE]
DropValue ==
    /\ At("drop")
    /\ IF Frame.stack = <<>> THEN Fail("UNDERFLOW") /\ UNCHANGED pending
       ELSE /\ frames' = WithTop(Next(Frame, 1, <<>>))
            /\ fault' = (IF pending = None THEN NoFault ELSE Noticed)
            /\ pending' = None
            /\ UNCHANGED memory
    /\ rescue' = Readable
    /\ UNCHANGED <<words, outcome, sensed>>

Call ==
    /\ At("call")
    /\ LET f == Frame  n == Instruction[3]
           target == memory.slots[Instruction[2]]
           rest == [f EXCEPT !.stack = SubSeq(@, 1, Len(@) - n)]
           args == SubSeq(f.stack, Len(f.stack) - n + 1, Len(f.stack))
           err == CASE Len(f.stack) < n -> "UNDERFLOW"
                    [] Len(frames) >= MaxCalls -> "OVERFLOW"
                    [] target[1] # "code" -> "TYPE"
                    [] words[target[2]].arity # n -> "INVALID"
                    [] OTHER -> None
       IN  IF err = None
           THEN /\ frames' = Append(WithTop(rest),
                        NewFrame(target[2], args, words[target[2]].locals, Readable))
                /\ UNCHANGED <<memory, fault>>
           ELSE Fail(err)
    /\ rescue' = Readable
    /\ UNCHANGED <<words, pending, outcome, sensed>>

\* The value on top is the answer; the caller goes on after its call.
Answer == IF Frame.stack = <<>> THEN Nil ELSE Frame.stack[Len(Frame.stack)]
Return ==
    /\ At("return")
    /\ IF pending # None
       THEN /\ frames' = WithTop(Frame) /\ fault' = Noticed /\ pending' = None
            /\ rescue' = Readable
            /\ UNCHANGED <<memory, outcome>>
       ELSE /\ rescue' = Frame.saved
            /\ UNCHANGED <<pending, memory>>
            /\ IF Len(frames) = 1
               THEN frames' = <<>> /\ outcome' = <<"ok", Answer>> /\ UNCHANGED fault
               ELSE LET caller == Next(frames[Len(frames) - 1], 0, <<Answer>>) IN
                    /\ UNCHANGED outcome
                    /\ IF Len(caller.stack) > MaxStack
                       THEN frames' = Outer /\ fault' = [err |-> "OVERFLOW", here |-> TRUE]
                       ELSE /\ frames' = [Outer EXCEPT ![Len(frames) - 1] = caller]
                            /\ UNCHANGED fault
    /\ UNCHANGED <<words, sensed>>

----------------------------------------------------------------------------
(* Errors *)

\* (Mutant of Catchable: an attempt takes the interrupt too.)
CatchesAll == fault.here
Catchable == fault.here /\ fault.err # "INTERRUPTED"
\* The attempt that takes the error: the innermost one with room for its
\* rescue.  The bodies of all that fail are over, and so are their Bytes.
RoomAt(f, k) == Len(Leaving(f, 0..f.attempts[k].end).rescues) < MaxAttempts
Catcher(f) == LET able == {k \in DOMAIN f.attempts : RoomAt(f, k)}
              IN  IF able = {} THEN 0 ELSE CHOOSE k \in able : \A j \in able : j <= k
Caught == fault # NoFault /\ Catchable /\ Catcher(frames[Len(frames)]) > 0

Catch ==
    /\ Caught
    /\ LET f == frames[Len(frames)]
           k == Catcher(f)
           a == f.attempts[k]
           before == ErrorAfter(f, 0..a.end)
       IN  /\ frames' = WithTop(
                  [Leaving(f, 0..a.end) EXCEPT
                     !.attempts = SubSeq(@, 1, k - 1), !.ip = a.fallback,
                     !.stack = SubSeq(@, 1, a.depth),
                     !.rescues = Append(@, [saved |-> before, end |-> a.end])])
           /\ memory' = Cut(a.bytes)
           /\ rescue' = IF k = Len(f.attempts) THEN fault.err ELSE "CAPACITY"
    /\ fault' = NoFault
    /\ UNCHANGED <<words, pending, outcome, sensed>>

\* No attempt of this frame takes it: the frame is over.
Unwind ==
    /\ fault # NoFault /\ ~Caught
    /\ LET f == frames[Len(frames)]
           full == Catchable /\ f.attempts # <<>>
           err == IF full THEN "CAPACITY" ELSE fault.err
       IN  /\ rescue' = f.saved
           /\ frames' = Outer
           /\ memory' = IF full THEN Cut(f.attempts[1].bytes) ELSE memory
           /\ IF Len(frames) = 1
              THEN outcome' = <<"error", err>> /\ fault' = NoFault
              ELSE fault' = [err |-> err, here |-> TRUE] /\ UNCHANGED outcome
    /\ UNCHANGED <<words, pending, sensed>>

\* Ctrl-C, or an event or the platform that fails at a safe point.
Disturb(err) ==
    /\ frames # <<>> /\ pending = None
    /\ pending' = err
    /\ UNCHANGED <<words, memory, frames, rescue, fault, outcome, sensed>>

Answers == {Num(0), Num(1), <<"error", "IO">>}
VmStep ==
    \/ Execute \/ DropValue \/ Call \/ Return \/ Catch \/ Unwind
    \/ \E answer \in Answers : AskWorld(answer)

\* The machine on its own.  Between runs the prompt may change anything but an
\* error, and may start a frame.
VmInit == frames = <<>> /\ rescue = None /\ fault = NoFault
Begins == \E w \in DOMAIN words' : frames' = <<NewFrame(w, <<>>, words'[w].locals, rescue)>>
Idle == /\ frames = <<>> /\ (frames' = <<>> \/ Begins)
        /\ UNCHANGED <<rescue, fault>>
VmNext == VmStep \/ Idle \/ \E n \in DOMAIN Errors : Disturb(Errors[n])
VmSpec == VmInit /\ [][VmNext]_vmVars

----------------------------------------------------------------------------
(* Properties *)

\* What a frame, the calls and the Bytes store can hold: vm.c checks each
\* bound where it grows.
TypeOK ==
    /\ Len(frames) <= MaxCalls
    /\ \A k \in DOMAIN frames :
         LET f == frames[k] IN
         /\ f.word \in DOMAIN words /\ f.ip \in DOMAIN words[f.word].code
         /\ Len(f.stack) <= MaxStack
         /\ Len(f.attempts) <= MaxAttempts /\ Len(f.rescues) <= MaxAttempts
    /\ Mark <= MaxBytes /\ Used <= Arena
    /\ \A e \in {rescue, fault.err, pending} : e = None \/ \E n \in DOMAIN Errors : Errors[n] = e
    /\ frames = <<>> => fault = NoFault

\* error.code can be read in a rescue and nowhere else: whichever way rescues
\* and the frames they are in end (a jump past the rescue, a return, an error,
\* an interrupt), no error stays readable.
ErrorScoped == (\A k \in DOMAIN frames : frames[k].rescues = <<>>) => rescue = None

\* What the compiler writes never asks the machine for what is not there: a
\* body leaves one value and no open attempt, a loop finds its count and the
\* mark of its Bytes as it left them.
CompiledCodeIsSound ==
    /\ fault.err # "UNDERFLOW"
    /\ At("return") => Len(Frame.stack) = 1 /\ Frame.attempts = <<>>
    /\ At("endattempt") => Frame.attempts # <<>>
    /\ At("next") => \E n \in 1..MaxInt : Frame.stack[Len(Frame.stack)] = Num(n)
    /\ At("rewind") => \E n \in 0..Mark : Frame.locals[Instruction[2] + 1] = Num(n)

\* Ctrl-C ends the run, whatever loops and attempts it is in: a pass of every
\* loop has a safe point, and no attempt catches what it throws.
InterruptEndsRun == /\ (pending = "INTERRUPTED") ~> (frames = <<>>)
                    /\ (fault.err = "INTERRUPTED") ~> (outcome = <<"error", "INTERRUPTED">>)
=============================================================================
