---------------------------- MODULE FrothyEvents ----------------------------
(***************************************************************************)
(* Event bindings (src/event.c) between the interrupts and timers of an    *)
(* ESP32 (targets/esp-idf/platform.c), the safe points of the virtual      *)
(* machine (src/vm.c), the idle service of the prompt (src/repl.c) and the *)
(* saved program (src/persist_payload.c).                                  *)
(*                                                                         *)
(* An interrupt or a timer only puts a candidate in a bounded queue: the   *)
(* index and generation its handler was armed with, and the time.  Drain   *)
(* moves candidates to the pending flags of the table; dispatch runs one   *)
(* round of pending bodies, whose own safe points drain again.             *)
(***************************************************************************)
EXTENDS FiniteSets, Integers, Sequences

CONSTANTS
    BindingCount, \* FR_EVENT_BINDING_COUNT
    QueueDepth,   \* depth of the candidate queue
    ClockMod,     \* the millisecond clock wraps here (2^32 in the code)
    Pins, Everys, Afters, Wifis, \* what can be bound: a pin; a period of
                  \* `every`; a delay of `after`; a Wi-Fi event kind
    Debounces,    \* debounce windows a registration may ask for
    None,         \* an entry with no binding, a port with no handler
    MaxMs,        \* bound: uptime
    MaxRegs,      \* bound: registrations
    MaxEpochs,    \* bound: clears of the table, and replacements of the code
    MaxDrops,     \* bound: candidates the queue refuses
    MaxFaults     \* bound: platform calls that fail

Timers == Everys \cup Afters
Names == Pins \cup Timers \cup Wifis
Idx == 1 .. BindingCount

ASSUME SizesAssumption == BindingCount \in Nat \ {0} /\ QueueDepth \in Nat \ {0}
ASSUME ClockAssumption == ClockMod \in Nat \ {0} /\ MaxMs \in Nat
ASSUME NamesAssumption ==
    /\ Pins \cap Timers = {} /\ Pins \cap Wifis = {} /\ Timers \cap Wifis = {}
    /\ Everys \cap Afters = {} /\ Names \cap Idx = {} /\ None \notin Names \cup Idx
ASSUME DebouncesAssumption == Debounces \subseteq Nat
ASSUME BoundsAssumption ==
    /\ MaxRegs \in Nat /\ MaxEpochs \in Nat /\ MaxDrops \in Nat /\ MaxFaults \in Nat

Ms == 0 .. MaxMs
Regs == 0 .. MaxRegs
Epochs == 0 .. MaxEpochs

\* A port is where the platform keeps a handler: a pin, a Wi-Fi slot, or the
\* timer slot of a table index.
Ports == Pins \cup Wifis \cup Idx
Port(name, i) == IF name \in Timers THEN i ELSE name

\* reg numbers the registrations: the code does not see it.
Handler(i, gen, name, reg) ==
    [idx |-> i, gen |-> gen, once |-> name \in Afters, stopped |-> FALSE, reg |-> reg]

\* The history of a candidate: the registration it came from, and when.
NoOrigin == [reg |-> 0, at |-> 0, epoch |-> 0]
OriginOf(c) == [reg |-> c.reg, at |-> c.at, epoch |-> c.epoch]

FreeEntry(gen) ==
    [name |-> None, gen |-> gen, pending |-> FALSE, debounce |-> 0, regAt |-> 0,
     lastFire |-> 0, hasFired |-> FALSE, reg |-> 0,
     origin |-> NoOrigin]

Origins == [reg : Regs, at : Ms, epoch : Epochs]
Entries ==
    [name : Names \cup {None}, gen : Nat, pending : BOOLEAN,
     debounce : Debounces \cup {0}, regAt : Ms, lastFire : Ms,
     hasFired : BOOLEAN, reg : Regs, origin : Origins]
Handlers == [idx : Idx, gen : Nat, once : BOOLEAN, stopped : BOOLEAN, reg : Regs]
ASSUME NoneAssumption == None \notin Handlers
Candidates == [idx : Idx, gen : Nat, at : Ms, reg : Regs, epoch : Epochs]
Errs == {"ok", "fault", "interrupted"}
Frames == [next : 1 .. BindingCount + 1, body : Regs,
           origin : Origins, err : Errs, faulted : BOOLEAN]

\* A dispatch that has not run a body yet.
NewFrame ==
    [next |-> 1, body |-> 0, origin |-> NoOrigin, err |-> "ok",
     faulted |-> FALSE]

VARIABLES
    entries,     \* events.entries
    activeCount, \* events.active_count
    unreported,  \* events.overflow_count - events.overflow_reported_count
    armed,       \* the handler of each port
    leaked,      \* timers that run although the platform lost their handles
    queue,       \* the candidate queue
    overflow,    \* the platform's count of refused candidates
    now,         \* milliseconds since boot
    step,        \* what the main task is in the middle of
    arming,      \* the registration between arming and recording
    batch,       \* the candidates a drain has taken and not yet looked at
    stack,       \* the dispatches on the C stack: a body runs in the last
    dispatching, \* runtime.dispatching_event
    interrupted, \* runtime.interrupted
    mode,        \* the main task is at the prompt, in a program, in a restore
    todo,        \* the bindings a restore has still to register
    saved,       \* the bindings of the saved program
    result,      \* what the last dispatch returned, and whether a body failed
    regs,        \* history: registrations so far
    epoch,       \* history: clears of the table so far
    program,     \* history: saves and restores so far
    drops,       \* history: refused candidates the user is owed a notice of
    shown,       \* history: refused candidates reported
    done,        \* history: the registrations of `after` whose body was run
    faults       \* history: platform calls that failed

table == <<entries, activeCount>>
platform == <<armed, leaked, queue, overflow>>
notice == <<unreported, drops, shown>>
round == <<stack, dispatching, result, done>>
session == <<mode, todo, saved, interrupted, program, epoch>>
vars == <<table, platform, notice, now, step, arming, batch, round, session,
          regs, faults>>

\* Only a pin takes a debounce window.
DebounceOf(name) == IF name \in Pins THEN Debounces ELSE {0}

Live(i) == entries[i].name # None
LiveIdx == {i \in Idx : Live(i)}
Bindings == [idx : Idx, name : Names, debounce : Debounces \cup {0}]
Armings == [idx : Idx, name : Names \cup {None}, debounce : Debounces \cup {0}]
NoArming == [idx |-> 1, name |-> None, debounce |-> 0]

TypeOK ==
    /\ entries \in [Idx -> Entries]
    /\ activeCount \in 0 .. BindingCount
    /\ armed \in [Ports -> Handlers \cup {None}] /\ leaked \subseteq Handlers
    /\ queue \in Seq(Candidates) /\ Len(queue) <= QueueDepth
    /\ overflow \in Nat /\ unreported \in Nat /\ drops \in Nat /\ shown \in Nat
    /\ now \in Ms /\ step \in {"ready", "arming", "draining"}
    /\ arming \in Armings
    /\ batch \in Seq(Candidates) /\ Len(batch) <= BindingCount
    /\ stack \in Seq(Frames) /\ dispatching \in BOOLEAN /\ interrupted \in BOOLEAN
    /\ mode \in {"prompt", "program", "restoring"}
    /\ todo \subseteq Bindings /\ saved \subseteq Bindings
    /\ result \in [err : Errs, faulted : BOOLEAN]
    /\ regs \in Regs /\ epoch \in Epochs /\ program \in Epochs
    /\ done \subseteq Regs /\ faults \in 0 .. MaxFaults

Init ==
    /\ entries = [i \in Idx |-> FreeEntry(0)] /\ activeCount = 0
    /\ armed = [p \in Ports |-> None] /\ leaked = {}
    /\ queue = <<>> /\ overflow = 0 /\ unreported = 0 /\ drops = 0 /\ shown = 0
    /\ now = 0 /\ step = "ready" /\ arming = NoArming /\ batch = <<>>
    /\ stack = <<>> /\ dispatching = FALSE /\ interrupted = FALSE
    /\ mode = "prompt" /\ todo = {} /\ saved = {}
    /\ result = [err |-> "ok", faulted |-> FALSE]
    /\ regs = 0 /\ epoch = 0 /\ program = 0 /\ done = {} /\ faults = 0

(***************************************************************************)
(* Interrupts, timers and the clock: at any time, whatever the main task   *)
(* is doing.                                                               *)
(***************************************************************************)
Tick ==
    /\ now < MaxMs /\ now' = now + 1
    /\ UNCHANGED <<table, platform, notice, step, arming, batch, round, session,
                   regs, faults>>

\* The callback may not wait: a full queue refuses the candidate.
Enqueue(h) ==
    \/ /\ Len(queue) < QueueDepth
       /\ queue' = Append(queue, [idx |-> h.idx, gen |-> h.gen, at |-> now,
                                  reg |-> h.reg, epoch |-> epoch])
       /\ UNCHANGED <<overflow, drops>>
    \/ /\ Len(queue) >= QueueDepth /\ drops < MaxDrops
       /\ overflow' = overflow + 1 /\ drops' = drops + 1
       /\ UNCHANGED queue

\* A one-shot timer fires once, whether or not its candidate found room.
Fired(h) == [h EXCEPT !.stopped = @ \/ h.once]

Fire(p) ==
    /\ armed[p] # None /\ ~armed[p].stopped
    /\ Enqueue(armed[p])
    /\ armed' = [armed EXCEPT ![p] = Fired(@)]
    /\ UNCHANGED <<table, leaked, unreported, shown, now, step, arming, batch,
                   round, session, regs, faults>>

LeakedFire(h) ==
    /\ h \in leaked /\ Enqueue(h)
    /\ leaked' = IF h.once THEN leaked \ {h} ELSE leaked
    /\ UNCHANGED <<table, armed, unreported, shown, now, step, arming, batch,
                   round, session, regs, faults>>

(***************************************************************************)
(* Registering and cancelling.                                             *)
(***************************************************************************)
Matches(name) == {i \in Idx : entries[i].name = name}

\* Mutant: a registration always takes the first free entry.
TargetFirstFree(name, i) == ~Live(i) /\ \A j \in Idx : j < i => Live(j)

\* The entry a registration takes: the one it replaces, else the first free.
Target(name, i) ==
    \/ i \in Matches(name) /\ \A j \in Matches(name) : i <= j
    \/ Matches(name) = {} /\ ~Live(i) /\ \A j \in Idx : j < i => Live(j)

\* The platform is armed with the next generation before the entry is
\* written: interrupts come in between.  A timer whose predecessor can be
\* neither stopped nor deleted replaces it all the same, if the new one
\* cannot be deleted either.
Arm(name, debounce) ==
    /\ step = "ready" /\ regs < MaxRegs
    /\ \E i \in Idx :
         LET p == Port(name, i)
             h == Handler(i, entries[i].gen + 1, name, regs + 1)
         IN /\ Target(name, i)
            /\ arming' = [idx |-> i, name |-> name, debounce |-> debounce]
            /\ \/ armed' = [armed EXCEPT ![p] = h] /\ UNCHANGED <<leaked, faults>>
               \/ /\ name \in Timers /\ armed[p] # None /\ faults < MaxFaults
                  /\ faults' = faults + 1
                  /\ leaked' = IF armed[p].stopped THEN leaked
                                                   ELSE leaked \cup {armed[p]}
                  /\ \E off \in BOOLEAN :
                       armed' = [armed EXCEPT ![p] = [h EXCEPT !.stopped = off]]
    /\ step' = "arming" /\ regs' = regs + 1
    /\ UNCHANGED <<table, queue, overflow, notice, now, batch, round>>

\* Mutant: the entry keeps the generation the platform was armed past.
RecordedOldGen ==
    [name |-> arming.name, gen |-> entries[arming.idx].gen, pending |-> FALSE,
     debounce |-> arming.debounce, regAt |-> now, lastFire |-> 0,
     hasFired |-> FALSE, reg |-> regs, origin |-> NoOrigin]

Recorded ==
    [name |-> arming.name, gen |-> entries[arming.idx].gen + 1, pending |-> FALSE,
     debounce |-> arming.debounce, regAt |-> now, lastFire |-> 0,
     hasFired |-> FALSE, reg |-> regs, origin |-> NoOrigin]

\* Mutant: a replaced binding is counted again.
CountedAgain == activeCount + 1

\* The number of live bindings once the registration is recorded.
Counted == activeCount + (IF Live(arming.idx) THEN 0 ELSE 1)

Record ==
    /\ step = "arming" /\ step' = "ready" /\ arming' = NoArming
    /\ entries' = [entries EXCEPT ![arming.idx] = Recorded]
    /\ activeCount' = Counted
    /\ UNCHANGED <<platform, notice, now, batch, round, session, regs, faults>>

\* User code runs: a program started at the prompt, or a body.
InBody == stack # <<>> /\ stack[Len(stack)].body # 0
Running == step = "ready" /\ (InBody \/ (stack = <<>> /\ mode = "program"))

Register(name, debounce) ==
    /\ Running /\ Arm(name, debounce) /\ UNCHANGED session

Cancel(name) ==
    /\ Running
    /\ \E i \in Matches(name) :
         /\ armed' = [armed EXCEPT ![Port(name, i)] = None]
         /\ entries' = [entries EXCEPT ![i] = FreeEntry(@.gen + 1)]
    /\ activeCount' = activeCount - 1
    /\ UNCHANGED <<leaked, queue, overflow, notice, now, step, arming, batch,
                   round, session, regs, faults>>

\* A registration or a cancel that fails leaves the entry alone, but the
\* platform may have dropped the pin's handler or stopped the timer.
CallFails(i) ==
    /\ Running /\ Live(i) /\ faults < MaxFaults /\ faults' = faults + 1
    /\ LET p == Port(entries[i].name, i) IN
         \/ /\ entries[i].name \in Pins
            /\ armed' = [armed EXCEPT ![p] = None]
         \/ /\ entries[i].name \in Timers /\ armed[p] # None
            /\ armed' = [armed EXCEPT ![p] = [@ EXCEPT !.stopped = TRUE]]
    /\ UNCHANGED <<table, leaked, queue, overflow, notice, now, step, arming,
                   batch, round, session, regs>>

(***************************************************************************)
(* Draining: at every safe point while something is bound, and while the   *)
(* prompt waits for input.                                                 *)
(***************************************************************************)
\* Mutant: the drain reads the count of refused candidates and leaves it.
OverflowReread == overflow

\* The drain takes the count of refused candidates with it.
OverflowLeft == 0

TakeBatch ==
    LET count == IF Len(queue) < BindingCount THEN Len(queue) ELSE BindingCount
    IN /\ batch' = SubSeq(queue, 1, count)
       /\ queue' = SubSeq(queue, count + 1, Len(queue))
       /\ unreported' = unreported + overflow /\ overflow' = OverflowLeft
       /\ step' = "draining"
       /\ UNCHANGED <<table, armed, leaked, drops, shown, now, arming, round,
                      session, regs, faults>>

SafePoint == Running /\ ~interrupted /\ activeCount > 0 /\ TakeBatch

AtPrompt == mode = "prompt" /\ stack = <<>> /\ step = "ready"
IdleService == AtPrompt /\ TakeBatch

\* Unsigned arithmetic on the wrapping clock.
Delta(a, b) == (a - b) % ClockMod
HalfRange == (ClockMod \div 2) - 1

\* Mutant: the generation is not compared.
AcceptsAnyGen(e, c) ==
    /\ e.name # None /\ Delta(c.at, e.regAt) <= HalfRange
    /\ ~(e.debounce # 0 /\ e.hasFired /\ Delta(c.at, e.lastFire) < e.debounce)

\* Mutant: the window is checked against a last firing that never was.
AcceptsUnfired(e, c) ==
    /\ e.name # None /\ e.gen = c.gen /\ Delta(c.at, e.regAt) <= HalfRange
    /\ ~(e.debounce # 0 /\ Delta(c.at, e.lastFire) < e.debounce)

Accepts(e, c) ==
    /\ e.name # None /\ e.gen = c.gen
    /\ Delta(c.at, e.regAt) <= HalfRange
    /\ ~(e.debounce # 0 /\ e.hasFired /\ Delta(c.at, e.lastFire) < e.debounce)

\* Mutant: a refused candidate lowers the flag.
MarkedLowers(e, c) ==
    IF Accepts(e, c)
      THEN [e EXCEPT !.pending = TRUE, !.lastFire = c.at, !.hasFired = TRUE,
                     !.origin = OriginOf(c)]
      ELSE [e EXCEPT !.pending = FALSE]

\* A refused candidate leaves its entry as it is.
Marked(e, c) ==
    IF Accepts(e, c)
      THEN [e EXCEPT !.pending = TRUE, !.lastFire = c.at, !.hasFired = TRUE,
                     !.origin = OriginOf(c)]
      ELSE e

Accept ==
    /\ step = "draining" /\ batch # <<>>
    /\ LET c == Head(batch) IN
         entries' = [entries EXCEPT ![c.idx] = Marked(@, c)]
    /\ batch' = Tail(batch)
    /\ UNCHANGED <<activeCount, platform, notice, now, step, arming, round,
                   session, regs, faults>>

\* This is the safe point of a body.
Nested == dispatching

\* The drain is over: report what was dropped, and dispatch, unless a
\* dispatch is under way.
Dispatch ==
    /\ step = "draining" /\ batch = <<>> /\ step' = "ready"
    /\ shown' = shown + unreported /\ unreported' = 0
    /\ IF Nested THEN UNCHANGED <<stack, dispatching>>
       ELSE stack' = Append(stack, NewFrame) /\ dispatching' = TRUE
    /\ UNCHANGED <<table, platform, drops, now, arming, batch, result, done,
                   session, regs, faults>>

(***************************************************************************)
(* A round of bodies.                                                      *)
(***************************************************************************)
Top == stack[Len(stack)]
InRound == step = "ready" /\ stack # <<>> /\ Top.body = 0
WithTop(f) == [stack EXCEPT ![Len(stack)] = f]
Pending(from) == {i \in Idx : i >= from /\ entries[i].pending}

\* Mutant: the round goes back to the first entry after each body.
AfterwardsFirst(i) == 1

\* Where the round goes on after the body of entry i.
Afterwards(i) == i + 1

\* Mutant: the flag stays up while the body runs.
TakenLate(i) == entries[i]

\* The binding of an `after` is gone before its body runs.
Taken(i) ==
    IF entries[i].name \in Afters THEN FreeEntry(entries[i].gen + 1)
    ELSE [entries[i] EXCEPT !.pending = FALSE, !.origin = NoOrigin]

StartBody(i) ==
    /\ InRound /\ ~interrupted
    /\ i \in Pending(Top.next) /\ \A j \in Pending(Top.next) : i <= j
    /\ stack' = WithTop([Top EXCEPT !.next = Afterwards(i), !.body = entries[i].reg,
                                    !.origin = entries[i].origin])
    /\ entries' = [entries EXCEPT ![i] = Taken(i)]
    /\ IF entries[i].name \in Afters
         THEN /\ activeCount' = activeCount - 1
              /\ armed' = [armed EXCEPT ![i] = None]
              /\ done' = done \cup {entries[i].reg}
         ELSE UNCHANGED <<activeCount, armed, done>>
    /\ UNCHANGED <<leaked, queue, overflow, notice, now, step, arming, batch,
                   dispatching, result, session, regs, faults>>

\* Mutant: a later body's answer replaces the error.
LastError(first, err) == err

\* The error that a round answers, after one more body.
FirstError(first, err) == IF first = "ok" THEN err ELSE first

\* A body returns, fails, or meets the interrupt at a safe point; the last
\* instruction of a body is a safe point.
EndBody(err) ==
    /\ Running /\ InBody
    /\ (err = "ok" => ~interrupted) /\ (err = "interrupted" => interrupted)
    /\ stack' = WithTop([Top EXCEPT !.body = 0, !.origin = NoOrigin,
                           !.err = FirstError(@, err),
                           !.faulted = @ \/ err = "fault"])
    /\ UNCHANGED <<table, platform, notice, now, step, arming, batch,
                   dispatching, result, done, session, regs, faults>>

\* Mutant: the flag is left up when a body failed.
DispatchOverOk(err) == err # "ok"

\* The flag after a dispatch that returns err.
DispatchOver(err) == FALSE

\* An error makes the virtual machine that dispatched return it.
Return(err) ==
    /\ stack' = SubSeq(stack, 1, Len(stack) - 1) /\ dispatching' = DispatchOver(err)
    /\ result' = [err |-> err, faulted |-> Top.faulted]
    /\ mode' = IF mode = "program" /\ err # "ok" THEN "prompt" ELSE mode
    /\ UNCHANGED <<table, platform, notice, now, step, arming, batch, done,
                   todo, saved, interrupted, program, epoch, regs, faults>>

EndRound == InRound /\ ~interrupted /\ Pending(Top.next) = {} /\ Return(Top.err)

\* The interrupt ends the round, and keeps what is pending.
BreakRound ==
    /\ InRound /\ interrupted
    /\ Return(IF Top.next <= BindingCount THEN "interrupted" ELSE Top.err)

(***************************************************************************)
(* The prompt.                                                             *)
(***************************************************************************)
StartEval ==
    /\ AtPrompt /\ mode' = "program" /\ interrupted' = FALSE
    /\ UNCHANGED <<table, platform, notice, now, step, arming, batch, round,
                   todo, saved, program, epoch, regs, faults>>

EndEval ==
    /\ mode = "program" /\ stack = <<>> /\ step = "ready" /\ mode' = "prompt"
    /\ UNCHANGED <<table, platform, notice, now, step, arming, batch, round,
                   todo, saved, interrupted, program, epoch, regs, faults>>

Interrupt ==
    /\ Running /\ interrupted' = TRUE
    /\ UNCHANGED <<table, platform, notice, now, step, arming, batch, round,
                   mode, todo, saved, program, epoch, regs, faults>>

\* Every handler is removed, though some removals may fail; then the table
\* is zeroed, generations and drop counts included.
ClearTable ==
    \E stuck \in SUBSET {i \in LiveIdx : entries[i].name \notin Wifis} :
      /\ epoch < MaxEpochs /\ epoch' = epoch + 1
      /\ faults + Cardinality(stuck) <= MaxFaults
      /\ faults' = faults + Cardinality(stuck)
      /\ armed' = [p \in Ports |->
            IF \E i \in LiveIdx \ stuck : p = Port(entries[i].name, i)
              THEN None ELSE armed[p]]
      /\ entries' = [i \in Idx |-> FreeEntry(0)] /\ activeCount' = 0
      /\ unreported' = 0 /\ drops' = drops - unreported
      /\ UNCHANGED <<leaked, queue, overflow, shown, now, step, arming, batch,
                     round, regs>>

\* clear and wipe-user.
Clear ==
    /\ AtPrompt /\ ClearTable
    /\ interrupted' = FALSE /\ UNCHANGED <<mode, todo, saved, program>>

BindingOf(i) ==
    [idx |-> i, name |-> entries[i].name, debounce |-> entries[i].debounce]

\* save writes the live bindings and mounts what it wrote, which resets the
\* runtime.
Save ==
    /\ AtPrompt /\ ClearTable
    /\ saved' = {BindingOf(i) : i \in LiveIdx} /\ todo' = saved'
    /\ mode' = "restoring" /\ interrupted' = FALSE
    /\ program < MaxEpochs /\ program' = program + 1

\* restore, once there is an image, replaces the code and leaves the table as
\* it is.
Restore ==
    /\ AtPrompt /\ program > 0 /\ todo' = saved /\ mode' = "restoring" /\ interrupted' = FALSE
    /\ program < MaxEpochs /\ program' = program + 1
    /\ UNCHANGED <<table, platform, notice, now, step, arming, batch, round,
                   saved, epoch, regs, faults>>

RestoreNext ==
    /\ mode = "restoring" /\ stack = <<>>
    /\ \E b \in todo :
         /\ \A c \in todo : b.idx <= c.idx
         /\ Arm(b.name, b.debounce)
         /\ todo' = todo \ {b}
    /\ UNCHANGED <<mode, saved, interrupted, program, epoch>>

\* A binding that cannot be registered fails the apply, which clears the
\* project.  The mount loop goes on: a failed save mounts its image once more.
RestoreFails ==
    /\ mode = "restoring" /\ step = "ready" /\ stack = <<>>
    /\ \E b \in todo :
         /\ \A c \in todo : b.idx <= c.idx
         /\ faults < MaxFaults \/ \A i \in Idx : ~Target(b.name, i)
    /\ ClearTable
    /\ \/ mode' = "restoring" /\ todo' = saved
       \/ mode' = "prompt" /\ todo' = {}
    /\ UNCHANGED <<saved, interrupted, program>>

RestoreDone ==
    /\ mode = "restoring" /\ step = "ready" /\ stack = <<>> /\ todo = {}
    /\ mode' = "prompt"
    /\ UNCHANGED <<table, platform, notice, now, step, arming, batch, round,
                   todo, saved, interrupted, program, epoch, regs, faults>>

Next ==
    \/ Tick
    \/ \E p \in Ports : Fire(p)
    \/ \E h \in leaked : LeakedFire(h)
    \/ \E name \in Names : \E debounce \in DebounceOf(name) : Register(name, debounce)
    \/ Record
    \/ \E name \in Names : Cancel(name)
    \/ \E i \in Idx : CallFails(i)
    \/ SafePoint \/ IdleService \/ Accept \/ Dispatch
    \/ \E i \in Idx : StartBody(i)
    \/ \E err \in Errs : EndBody(err)
    \/ EndRound \/ BreakRound
    \/ StartEval \/ EndEval \/ Interrupt
    \/ Clear \/ Save \/ Restore \/ RestoreNext \/ RestoreFails \/ RestoreDone

\* The main task keeps going; bodies return; a program and the prompt reach
\* their safe point or idle service again and again, however often one
\* follows the other.
Fairness ==
    /\ WF_vars(Record) /\ WF_vars(Accept) /\ WF_vars(Dispatch)
    /\ WF_vars(\E i \in Idx : StartBody(i))
    /\ SF_vars(\E err \in Errs : EndBody(err))
    /\ WF_vars(EndRound) /\ WF_vars(BreakRound)
    /\ SF_vars(SafePoint) /\ SF_vars(IdleService)
    /\ WF_vars(RestoreNext) /\ WF_vars(RestoreFails) /\ WF_vars(RestoreDone)

Spec == Init /\ [][Next]_vars
FairSpec == Spec /\ Fairness

(***************************************************************************)
(* Properties.                                                             *)
(***************************************************************************)

\* A dispatch never starts inside a dispatch, however many safe points its
\* bodies pass, and the flag that prevents it is not left behind.
NoNesting == Len(stack) <= 1 /\ (dispatching <=> stack # <<>>)

\* Safe points only look at events while the count is positive: it is the
\* number of live bindings, through replacements, one-shots and clears.
ActiveCountExact == activeCount = Cardinality(LiveIdx)

\* Registering replaces the binding of the same pin, period or Wi-Fi kind;
\* there are never two.
OneEntryPerName ==
    \A i, j \in LiveIdx : entries[i].name = entries[j].name => i = j

\* While no platform call fails, the handlers that can fire are those of the
\* table: every live binding has its handler, with its generation, and only a
\* one-shot has stopped; every handler has a live binding.
ArmedIsTable ==
    faults = 0 =>
      /\ \A i \in LiveIdx : ~(step = "arming" /\ i = arming.idx) =>
           LET h == armed[Port(entries[i].name, i)] IN
             /\ h # None
             /\ h.idx = i /\ h.gen = entries[i].gen /\ h.reg = entries[i].reg
             /\ h.stopped => entries[i].name \in Afters
      /\ \A p \in Ports : armed[p] # None =>
           LET i == armed[p].idx IN
             \/ Live(i) /\ p = Port(entries[i].name, i) /\ armed[p].gen = entries[i].gen
             \/ step = "arming" /\ i = arming.idx /\ p = Port(arming.name, i)

\* What is pending, and so what runs, comes from the registration that is in
\* the table, except that a candidate from before a clear passes for one of
\* the same millisecond after it; a failing platform call changes that only
\* together with a clear.
PendingIsOwn ==
    faults = 0 \/ epoch = 0 =>
      /\ \A i \in Idx : entries[i].pending =>
           LET o == entries[i].origin IN
             /\ Live(i)
             /\ o.reg = entries[i].reg \/ (o.epoch < epoch /\ o.at = entries[i].regAt)
      /\ InBody => Top.origin.reg = Top.body \/ Top.origin.epoch < epoch

\* Every refused candidate is reported once, or still counted on one side or
\* the other, or forgotten by a clear.
DropsAccounted == drops = shown + unreported + overflow

\* The body of an `after` runs at most once per registration.
AfterOnce ==
    [][InRound /\ stack' # stack /\ Len(stack') = Len(stack)
         => stack'[Len(stack)].body \notin done]_vars

\* A pending event is not lost: its flag goes down because its body starts,
\* or because its binding was replaced, cancelled or cleared.
PendingConsumed ==
    [][\A i \in Idx : entries[i].pending /\ ~entries'[i].pending =>
         \/ stack' # stack /\ stack'[Len(stack)].body = entries[i].reg
         \/ stack' = stack /\ entries'[i].reg # entries[i].reg]_vars

\* A candidate that fired after its registration was recorded, and is no
\* bounce, is not taken for a stale one.
FreshAccepted ==
    [][step = "draining" /\ batch # <<>> /\ batch' # batch =>
         LET c == Head(batch) e == entries[c.idx] IN
           /\ e.name # None /\ e.reg = c.reg /\ c.at >= e.regAt
           /\ e.hasFired => c.at - e.lastFire >= e.debounce
           => entries'[c.idx].pending]_vars

\* The fault of a body is not lost, although bodies after it succeed: the
\* dispatch answers it, or the interrupt that ended the round (event.c:300).
FaultReported == result.faulted => result.err # "ok"

\* What is pending is served or withdrawn, unless the user interrupts.
PendingServed ==
    \A i \in Idx :
      entries[i].pending ~> (~entries[i].pending \/ interrupted)

\* A round ends, whatever fires while it runs: the foreground goes on.
RoundEnds == dispatching ~> ~dispatching

\* Events go on: what is pending is served, and the foreground gets its turn
\* (event.c:273-345).
EventsGoOn == PendingServed /\ RoundEnds

=============================================================================
