# Frothy in TLA+

Frothy (`src/README.md`) is a small language for programming microcontrollers
live over a serial prompt. Its core is C: a compiler and a virtual machine, a
table of words kept in tiers, a prompt loop, an event table, a table of
platform handles, and persistence of the running program in two flash images.
Three boards implement the platform under it (a host build, ESP-IDF, Arduino
RP2040), and a Go command-line program and a VS Code extension talk to it.

This directory models the parts in which order, failure and reuse make the
code hard to test, checks the models with TLC on small instances and proves
the main results with TLAPS for every instance.

| module | what it is |
|---|---|
| `FrothyFlash` | the two image slots and the pure rules that choose between them |
| `FrothyPersist` | save, restore, wipe and boot over them, step by step, with failures and power loss |
| `ProgramStore` | abstract: what a board promises about saved programs |
| `FrothyPersistProof` | proofs about `FrothyPersist` |
| `FrothyHandles` | the handle table and everything that opens, closes or holds a handle |
| `Capabilities` | abstract: what user code may rely on when it holds references |
| `FrothyHandlesProof` | proofs about `FrothyHandles` |
| `FrothyEvents` | the event table between interrupts, timers, safe points, the prompt and the saved program |
| `FrothyEventsProof` | proofs about `FrothyEvents` |
| `FrothyBleRadio` | the life of the Bluetooth host: start, stop, reset, interrupted and failed starts |
| `BlePower` | abstract: what a program may rely on when it reads `ble.status` |
| `FrothyBleLink`, `FrothyBleGatt` | scanning, advertising, the one connection; GATT server and client; the driver put together |
| `FrothyBleRadioProof` | proofs about `FrothyBleRadio` |
| `FrothyBleStepsProof`, `FrothyBleGattProof` | proofs about `FrothyBleGatt`: one lemma per action; the theorems |
| `FrothyParse`, `FrothyCode`, `FrothyCompile`, `FrothyVm`, `FrothyRender` | the grammar, the code, the compiler, the machine, and `see` |
| `FrothyLanguage`, `LanguageMeaning` | a line of source through all of them; abstract: what the source means |
| `FrothyVmProof` | proofs about `FrothyVm` |
| `FrothySlots`, `FrothyTables`, `FrothyPayload`, `FrothyMount` | slots and names; code and object tables; the payload of an image; its mount |
| `FrothyOverlay`, `WordBook` | a prompt session over them; abstract: what a board promises about its words |
| `FrothySend`, `FrothyConnect`, `FrothyHost` | the command-line program's `send`, `install`, `wipe-user` and `connect` |
| `FrothyHostProof` | proofs about `FrothySend`, `FrothyConnect` and `FrothyHost` |
| `MCPersist`, `MCHandles`, `MCEvents`, `MCBleRadio`, `MCBle`, `MCLanguage`, `MCOverlay`, `MCHost` (+ `.cfg`) | instances for TLC |

Run `tlc -config MCHandles.cfg MCHandles`, `tlapm FrothyHandlesProof.tla` and
so on. `PROJECT.json` lists the runs, for each property a mutant of the code
that it catches, the source lines each definition stands for, the hazards and
the theorems.

## Inventory of the system

State, operations, partners, what is hard, and what correctness means.

**Image selection** (`src/src/persist_format.c`). No state of its own: header
fields of two slots. Operations: read a header, pick the candidate to read,
pick the slot and generation of a commit. Used by every platform. Hard: ties,
damage, images of other releases, the mounted slot. Correct when the newest
good image is always decided, and a commit never takes the mounted slot or the
last good image. → `FrothyFlash`.

**Save, restore, wipe and boot** (`src/src/persist.c`). State: what is
mounted, the payload pointer boot keeps between its two passes. Operations:
`save` (strict and tolerant), `wipe-user`, `install-library`, a library
definition, `restore`, `wipe`, the two boot passes, safe boot. Calls the
payload codec, the platform's flash, the project clear. Hard: any step can
fail, power can go between any two, a fallback loop picks older images.
Correct when an `ok` is true, a failure leaves a consistent runtime, and the
last loadable image survives everything but a wipe. → `FrothyPersist` (its
steps), `FrothyOverlay` (what the words mean afterwards).

**Flash slots of the boards** (`targets/*/platform.*`). State: mounted slot,
candidate, stream position. Operations: stream begin/write/finalize/abort,
mount, commit, discard, unmount, clear. ESP-IDF maps flash and does not read a
finalized slot back; RP2040 reads in place and does. → `FrothyPersist`
(`Verify`, `BadFlash`).

**Payload codec and tiers** (`src/src/persist_payload.c`). Operations: encode
user or both tiers, decode and validate, four mounts, two tier wipes, setting
aside handle values. Hard: records copied from the mounted image with records
of the runtime after them; ids that must land where they were. Correct when
every image a save writes mounts in full. → `FrothyPayload`, `FrothyMount`.

**Slots and names** (`src/src/slot.c`). State: current, base and library value
of each slot, tier, names that are named, reserved or taken back. Hard: code
names a slot by number, so a number must not be given to another word while
code that runs still holds it. → `FrothySlots`.

**Code and object tables** (`code.c`, `object.c`), **overlay images**
(`image.c`). State: installed code and objects over the firmware's own, cut
back by position. Correct when nothing that can be reached names an id that
was cut off. → `FrothyTables`, `FrothyOverlay`.

**Handle table** (`src/src/handle.c`) and **board natives**
(`src/targets/common/target_defs.c`). State: entries of (kind, platform index,
generation, retired). Operations: reserve, activate, release, lookup, find,
close, close all, close kind, forget kind. Partners: the natives, the project
clear, the tolerant save, BLE. Hard: references outlive entries; platform
opens and closes fail; holds. Correct when references are never reused,
nothing leaks and nothing is owned twice. → `FrothyHandles`.

**Event table and dispatch** (`src/src/event.c`, the platforms' interrupt and
timer callbacks). State: bindings with generation, pending flag and times; a
candidate queue filled from interrupts. Operations: register, cancel, drain,
dispatch, overflow report, clear. Hard: candidates race registration,
cancellation and clears; a full queue; bodies that register and cancel. Correct
when a cancelled body never runs, a one-shot runs at most once, bodies never
nest, drops are counted and faults are reported. → `FrothyEvents`.

**Runtime reset and Bytes arena** (`src/src/runtime.c`, `pad.c`). State: the
arena's use and its checkpoints, interrupt flag. The project clear appears in
every component as far as that component sees it; the arena in `FrothyVm`.

**Parser, compiler and code listing** (`parse.c`, `compile.c`,
`source_render.c`). Pure functions. Hard: a renderer that must recognise every
shape the compiler writes; hidden locals of nested loops. Correct when code
answers what its source means, and `see` writes source that compiles to the
same code. → `FrothyParse`, `FrothyCompile`, `FrothyRender`.

**Virtual machine** (`src/src/vm.c`, `instruction.c`). State: frames, stacks,
attempts and rescues, pending interrupt. Hard: unwinding through attempts and
rescues, safe points that run event bodies, limits. → `FrothyVm`.

**Prompt session** (`src/src/repl.c`). Evaluation of a line, the commands, the
boot sequence, the console line. → `FrothyLanguage` (lines), `FrothyOverlay`
(commands), `FrothyPersist` (their steps), `FrothyEvents` (the idle service).

**BLE** (`targets/esp-idf/ble.c`). State: the radio's life, one connection,
GATT requests, advertising and scanning, under one lock. Hard: host-task
callbacks against prompt calls, the lock released around NimBLE calls, waits
that are interrupted or time out, a worker task for the blocking stop. →
`FrothyBleRadio`, `FrothyBleLink`, `FrothyBleGatt`.

**Command-line session** (`src/cmd/frothy-session`). Goroutines for serial
input, keyboard and signals; prompt recognition in a split stream; send,
install and wipe conversations with time-outs. → `FrothySend`,
`FrothyConnect`.

**Natives, tagged values, base image; NINA radio; VS Code extension; boards,
profiles, tools, examples.** Not modelled, see below.

## The runs

| run | instance | holds |
|---|---|---|
| `persist_faults` | every command, failure and power loss on ESP-IDF with unreliable flash | `CodeMatchesImage`, `PinIsMounted`, `BootIsOneImage`, `FailedSaveDropsEdits`, `MountedNeverWritten` |
| `persist_safe` | the same on flash that is read back | `SaveAnswersOk`, `ImplementsStore`, `CommandEnds` |
| `handles` | two entries, one resource of each kind, two words | `Ownership`, `OnlyUseSpendsEntries`, `NothingLeftOpen`, `SaveKeepsHandles`, `ImplementsCapabilities` |
| `events` | a pin and an `after`, a queue of one, a failing platform call | `FaultReported`, `ArmedIsTable`, `PendingIsOwn`, `ActiveCountExact`, `DropsAccounted`, `AfterOnce`, `FreshAccepted`, `PendingConsumed` |
| `events_live` | an `every`, an `after` and a Wi-Fi kind under fairness | `EventsGoOn` |
| `ble_radio` | three starts of the radio | `HostSafe`, `RadioEnds`, `PowerKept` |
| `ble` | two lives of the radio, four builds, two links | `LinkAgreed`, `NothingCrosses`, `BusyIsOwed`, `InOrder` |
| `language` | 2329 programs | `ErrorScoped`, `CompiledAsMeant`, `SeeRecompiles`, `InterruptEndsRun` |
| `overlay` | timers, shapes and records in both tiers | `NoDangling`, `WordsKeepSlots`, `SavedImageMounts` |
| `overlay_book` | cells, Texts, handles, failing definitions | `BookSpec` |
| `host` | a host command against a board | `AnswersMatch`, `SessionFaithful`, `InstallLeavesLibrary` |
| `save_loses_nil` | a word declared as nil | `SavedImageMounts` **violated** |

Several properties are conjunctions of named parts, one per promise, so that
one run answers one question: `HostSafe`, `RadioEnds`, `LinkAgreed`,
`NothingCrosses`, `CompiledAsMeant`, `WordsKeepSlots`, `EventsGoOn`,
`SessionFaithful`.

## Saved programs

### Model and code

A slot of flash is a record: the verdict of reading it (`empty`, `corrupt`,
`other` release, `valid`), its backend generation, the program in its payload,
and whether the payload decoder accepts it. A program gives each library word
and each user word a definition or nothing. The runtime `rt` holds the current
and the mounted (base) value of each word and `table`, the program whose code
is installed.

The prompt is single threaded, so `pc` names the step its command is at and
each action is one step between two moments at which the power can go:
`begin → erase → write → header` for a commit (`StreamBegin` … `StreamFinalize`),
`mount → apply → mount_commit` for one turn of
`fr_persist_restore_read_and_apply` (`Mount`, `Apply`, `MountCommit`),
`user_pass` for the second boot pass and `wipe0 → wipe1` for the erase of a
wipe. `cmd` holds the locals of the command: the candidate index, `latest_only`,
whether the commit failed, whether an image was mounted when it began, the
payload it streamed. `PowerLoss` can follow any state; the slot being erased or
stamped is left as any of the images it can be torn into.

Two constants choose the board. `Verify` is the RP2040: flash is read in place
and finalize reads the slot back. `BadFlash` lets a write go wrong unnoticed
(when not verified) and a scan miss a slot it cannot read (`Seen`).

`ProgramStore` is the promise without flash: at most two programs, one taken
whole or not at all, the one in use never displaced, only a wipe loses it.
`Store` maps the slots to it.

### Bounds

One library word, one user word, two definitions, generations up to 3. One
word per tier is enough because no rule relates two words of a tier; two
definitions let programs differ; generation 3 allows three saves, in which both
slots are overwritten and each is newest in turn.

### Fairness

`FairSpec` adds weak fairness of `Run`, the next step of the running command.
The code justifies it: the prompt loop calls the command and returns only when
it is done, no step waits for anybody, and only loss of power (after which
`CommandEnds` asks nothing) stops it. Nothing is assumed about the user, the
power or which steps fail.

### Proofs

For every set of words and definitions and every `MaxGen`.

First, on every flash: `TypeOK`, `CodeMatchesImage`, `PinIsMounted`,
`MountedNeverWritten`. None but the types is inductive alone.
That the mounted image is intact needs to know that a save streams to the
*other* slot (`StreamSafe`), that the candidate a mount applies is a good image
and its code the installed one (`CandidateSafe`), that the pin is dropped before
anything else mounts or erases (`PinSafe`), and that good images hold programs
(`ImagesHold`). `IInv` is their conjunction; there is one lemma per action,
resting on lemmas about the appliers (`AppliedType`), the scan (`SeenImages`:
it sees no image that is not there) and the choice of a slot
(`CommitSlotSpares`).

Two layers come on top. `TInv`, on every flash, says which
operation each step belongs to (`OpFits`), what the library is between the two
boot passes (`BootSafe`), and what a save that has tried its commit has left of
unsaved definitions (`EditsSafe`); `BootIsOneImage` and `FailedSaveDropsEdits`
follow. `KInv` holds under the hypothesis `BadFlash => Verify`: flash writes do
not go wrong unnoticed, or are read back, as on the RP2040. It says that two
good images never have the same generation (`Distinct`), that the image of a
save is newer than both and takes no slot that is needed (`StreamNewest`), and
that the mount after a save tries that image first (`SaveMounts`).
`SaveAnswersOk` follows, and step by step so does `ImplementsStore`: each step
of a command is a step of `ProgramStore` or none. The hypothesis is needed:
without it the first property fails, see "Where the code says more than it
does".

`CommandEnds` is liveness, and only model-checked.

### Left out

Record layout, code relocation and name bytes in a payload; read-only queries;
the wrap of the 32-bit generation (after four billion saves). The host's base
image reinstallation after a wipe is the `idle` outcome of `WipeErase(1)`.

## Words, slots, tables and payload

### Model and code

`FrothySlots`, `FrothyTables`, `FrothyPayload` and `FrothyMount` are operators
on a runtime record: the slot table with its names, the code and object tables,
the armed events. Each operator stands for one function of `slot.c`, `code.c`,
`object.c`, `image.c`, `runtime.c` or `persist_payload.c`, with its checks in
their order and its answer. `FrothyOverlay` is the prompt over them: one action
per command (`Define…`, assignments and writes, `Clear`, `Save`, `InstallUser`,
`InstallLibrary`, `WipeUser`, `Wipe`, `Restore`, `Reboot`). A command is one
step, because the prompt runs one at a time; what power loss does inside one is
`FrothyPersist`'s. A literal definition is a name and a right-hand side: a
number, a Text, a function that calls another word, a timer's body, a shape and
its record, cells, nil. Texts, names and codes are model values; ids and slot
numbers are numbers, as their reuse is what matters.

`NoDangling` follows everything that can be reached from slots, library copies,
events and names through code and objects. `WordsKeepSlots` says that a name
and a slot are one to one and that the slot a body names still belongs to the
word its source names. `SavedImageMounts` says that each image a save writes
mounts in both boot passes. `WordBook` knows no slots, ids or records: a book of
words, now and stored in two layers; `BookSpec` checks that the code's commands
are its commands.

`Rough` names five uses that lose one of these promises (see "Where the code
says more than it does"). The passing runs leave them out, by name.

### Bounds

Two names and a redefinable base word. `overlay`: four slots, three names, three
codes, three objects, so every table fills up. `overlay_book`: cells and Texts
written into them, handles and failing definitions, over three slots, two names
and two objects. The answer of the last command decides nothing, so it is left
out of the view.

## Handles

### Model and code

An entry is `(target, gen, retired)`: kind and platform index together are the
`target`, a resource, or `Free`, or `Reserved` while a native is between
`fr_handle_reserve` and `fr_handle_activate`. `Reserved` never shows between
actions, because a native runs to its end. Three kinds of resources differ in
what a second open does: `Plain` ones are refused by the platform, `Listeners`
are opened idempotently, `Ble` connections vanish when the radio stops.
`Cleared`, `Usable`, `Scanned`, `Reserve`, `Activate`, `Release`, `BulkClose`,
`ForgetBle` and `HeldIds` are the functions of `handle.c`, one for one.

| action | code |
|---|---|
| `OpenRefused`, `OpenFails`, `Open` | reserve, the platform's open, activate or release (`pwm.open`, `tcp.accept`, …) |
| `Listen` | `tcp.listen`, which opens first |
| `Close`, `Write` | close natives, a word assigned |
| `BleOff`, `CloseHandles`, `Restore`, `Clear`, `WipeUser` | bulk closes, each with any subset of platform closes failing |
| `Save`, `Remount`, `SaveEnds`, `ApplyFails`, `Recover` | the tolerant save: set the handle values aside, commit nil in their place, reset with the hold, put the values back, or recover without it |
| `SaveAtOnce` | the other saves, which end in a clear however they end |
| `Restart` | restart: the hardware lets go, the table is zeroed |

Copies of references are the danger, so `Close` and `Write` take any reference
ever issued, live or stale. `issued` is a history variable of all of them;
`refused` and `reply` record what the last clear could not close and how the
last save ended.

An open of something that is open already, and a close the platform refuses,
change nothing and have no action. Handles in library words make a save strict,
which refuses them; they are not modelled. Two things are left out: a board
that reinstalls its base image after a wipe instead of restarting, while a
platform close keeps failing (the table is zeroed and the resource stays open;
the comment in `fr_native_pwm_open` names it), and closes the platform does on
its own, which leave the entry until user code closes it.

### Bounds

Two entries, two generations each, one resource of each kind, two words. Two
entries make the scan, retirement of one entry and a second owner possible; two
generations make a stale reference to a reused entry, and exhaustion; two words
hold a live and a stale reference to the same entry, or the same one twice. It
never deadlocks: a restart is always possible.

### Proofs

`FrothyHandlesProof` proves the type invariant and all five properties of the
run for every table size, generation limit, set of resources and set of words.
The argument has one idea: seen from the table, every action has one of three
shapes. It takes entries away with their resources (`Shrinks`), retires spent
ones (`Keeps`), or gives one usable entry a resource nobody owns (`Grows`);
`NextShape` proves it, action by action. Each shape preserves `TableInv` and is
a step of `Capabilities` (`ShrinksDies`, `GrowsGives`), so both the invariant
and the refinement follow.

`TableInv` strengthens `Ownership` and `OnlyUseSpendsEntries` by `IssuedMean`:
a reference was issued for one resource, and means it while it is live. That
the new reference of an open was never issued follows from
`OnlyUseSpendsEntries`, which says the issued generations of an entry are
exactly `1 .. gen`; `ReleasedTable` shows a reservation followed by a release to
be a mere scan, which is why polling `tcp.accept` costs nothing. For saves,
`HoldSpent` says a hold lasts only until the first mount, `HoldWhole` that it
holds all it set aside, and `AppliedHeld` that after the mount nothing else is
live: together they give `NothingLeftOpen` and `SaveKeepsHandles`.

Assumptions: the table has an entry, generations start below the limit, and
`Free` and `Reserved` are no resources (`CapacityAssumption`,
`MaxGenAssumption`, `TargetAssumption`).

## Events

### Model and code

`entries[i]` is a row of `events.entries`: what it is bound to (`name`: a pin,
a period, a delay or a Wi-Fi kind), its generation, pending flag, debounce
window and the two times. `activeCount` is `active_count`. `unreported` is
`overflow_count - overflow_reported_count`: the code uses the two counters only
through their difference. `armed[p]` is the handler the platform keeps on a
pin, in the timer slot of a table index, or for a Wi-Fi kind: the index and
generation packed into its argument, and whether the timer has stopped.
`leaked` are timers that run although the platform gave up their handle.
`queue` and `overflow` are the FreeRTOS queue and its refused count.

| action | code |
|---|---|
| `Fire`, `LeakedFire`, `Tick` | the GPIO interrupt, the timer callback, the Wi-Fi handler, at any time; the millisecond clock |
| `Register` (`Arm`), then `Record` | `fr_event_register`: the platform is armed, then the row is written; interrupts come between |
| `Cancel`, `CallFails` | `fr_event_cancel`; a register or cancel whose platform call fails half way |
| `SafePoint`, `IdleService` | the drain of a safe point (only with something bound) and of the waiting prompt: `fr_platform_event_drain` takes a batch under its lock |
| `Accept` | one turn of `fr_event_drain`: generation, half-range and debounce rules, then the pending flag |
| `Dispatch` | the overflow notice and the start of `fr_event_dispatch`, or its return when one runs already |
| `StartBody`, `EndBody`, `EndRound`, `BreakRound` | a round: the flag goes down and a one-shot is removed before the body runs; its error; the end; an interrupt |
| `StartEval`, `EndEval`, `Interrupt` | a program at the prompt, Ctrl-C |
| `Clear`, `Save`, `Restore`, `RestoreNext`, `RestoreFails`, `RestoreDone` | the clears of the table, and the registrations of an image, one at a time in the order of its rows |

`stack` holds the dispatches on the C stack with the loop's index, the body in
progress and the first error. It is a sequence, so that nesting is something
the model could do and the code's flag has to prevent. `regs`, `epoch`,
`drops`, `shown`, `done`, `faults` and the `origin` of a pending flag are
history: they number registrations and clears the code does not number, so that
"a candidate of *this* registration" has a meaning. No guard but those of the
named bounds reads them. `program` counts saves and restores; that it is not
zero is that an image was saved, which `Restore` needs.

What is abstracted: a drain is linearised where its lock is released, with
the accepts after it still interleaved with interrupts; one saved image stands
for the fallback loop, which `FrothyPersist` has; `wipe-user` appears as
`Clear` or `Save`; a second clear of an already cleared table is one clear. A
pin's edge kind, the body's own effect (any registers, cancels and drains) and
the Bytes mark a dispatch rewinds to are not there. Generations do not wrap at
2^16. The platform is the ESP32's; the RP2040 keeps its candidates in a ring of
the same depth under a critical section, with its own timer scan, and on the
host build only tests post candidates.

### Bounds

`events`: two rows make the first-free search, a replaced neighbour and a full
table possible; a queue of one refuses candidates at once; two registrations
let a row be replaced and taken by another binding; two clears separate "before
the last" from "before any"; two millisecond values separate "the same
millisecond" from "later" and let a debounce window of one pass. `ClockMod` is
16, far above `MaxMs`. `events_live` has no clears and no failing calls, because
a restore that runs out of registrations would wait for ever, which is the
bound's doing and not the code's. Registrations, clears, drops, failing calls
and uptime are bounded, so the runs allow deadlock: a state in which every bound
is spent may have no step, while the system would go on.

### Fairness

`FairSpec` assumes what one thread running to its next step gives: weak
fairness of recording, accepting, dispatching, starting bodies, ending rounds
and restoring. Three are strong. `EndBody`: a body returns though its safe
points drain again and again, which disable it for a moment; this is an
assumption about user code, and interrupts exist for bodies that loop.
`SafePoint` and `IdleService`: a program passes safe points at every call and
backward branch, and the prompt serves events whenever it waits, however often
the two alternate. Nothing is assumed about interrupts, timers, the clock or
the user. `EventsGoOn` lets an interrupt excuse a delay: what is pending then
stays pending (`PendingConsumed`), and is served at the next round.

### Proofs

For every table size, queue depth, clock, set of names and bounds, with failing
platform calls.

The first part is what the table alone implies: the types, that dispatches
do not nest, that a name has one binding, `ActiveCountExact`, `DropsAccounted`,
`AfterOnce` and `PendingConsumed`. Only five steps write the table, and one
lemma describes each (`RecordedTable`, `FreedTable`, the accepting and starting
lemmas, `ClearKeeps`). `TableInv` strengthens what is to be shown by three
facts. `ArmingTarget`: between arming and recording nobody takes the chosen row,
so the row a registration counts is the row it found. `RegsFresh`: live rows
hold different registrations, none of which was run as a one-shot; that makes
`AfterOnce` a consequence of taking a one-shot off the table before its body
runs. `PendingLive`: only live rows are pending, so a body that starts belongs
to a binding.

The second part needs the way from the interrupt to the table: `ArmedIsTable`, `PendingIsOwn`, `FreshAccepted` and `FaultReported`. A
stamp (index, generation, registration) is carried by handlers, by candidates
in the queue and in the batch, and by the rows; `StampsInv` says which stamps
can still meet which rows: a stamp with a row's index and generation is that
row's, unless it is from before a clear. `ArmedInv` relates installed handlers
to rows and to the registration under way, `FaultInv` follows the error of a
round. `FreshAccepted` and `PendingIsOwn` have the hypothesis
`MaxMs <= HalfRange`: the board has been up for less than 24.8 days. It is
needed, see below.

`EventsGoOn` is liveness, and only model-checked.

## Bluetooth

### Model and code

One lock, `fr_esp_ble_lock`, guards the driver, and is released around every
call into NimBLE. So every locked section is one action, every NimBLE call and
every wait an action of its own, and three tasks interleave between them: the
evaluator (`fg`: which call it is in and where), the host task with NimBLE's
callbacks, and the worker task of the blocking stop.

`FrothyBleRadio` has the life of the host: the flags of `fr_esp_ble`
(`radio`, `life`, `done`, `portFlag`, `created`, `running`, `shut`, `need`) and
what they are to describe (`port`, `host`, `enabled`, `barrier`). `FrothyBleLink`
adds scanning, advertising and the one connection, with the generations that
callbacks are compared with; `nim` is what NimBLE and the controller hold.
`FrothyBleGatt` adds the server's writes, subscriptions and indications, the
client's procedures and notifications, and puts the driver together: reset,
shutdown, off and the five sections of the project clear.

Assumed of NimBLE: one link at a time; a link of one role leaves the other
role's advertisement or pending connect alone; its stop brings links down before
the host leaves; a refused call changes nothing. Refused writes and notifications
change nothing and have no action.

`BlePower` is what a program can rely on: five states, at most one port, none
released while READY.

### Bounds

`ble_radio`: three starts: one that is interrupted, one that finds its remains,
one that runs over whatever the second left. `ble`: two starts, two
generations, two links, two reports, three numbered values, queues of one and
two, and four builds (peripheral with server, central with client, observer
with broadcaster, and a broadcaster that accepts and connects). The ESP32
profile enables all six roles; the builds take them in the groups that share the
controller or the connection slot.

### Fairness

`FrothyBleRadio` assumes that a call in progress goes on (its waits end by
their own time-outs), that FreeRTOS schedules the host task and the worker, and
that the controller answers the start-up command; `RadioEnds` needs the last,
because the stop waits for it.

### Proofs

`FrothyBleRadioProof` proves `HostSafe` (its seven parts) and `PowerKept` for any
number of starts. `IInv` says for each point at which one of the three tasks can
stand what is true of the other two: `HostTruth` (the flags against the host
task and the port), `RadioTruth` (what each state of the radio tells),
`ShutTruth` (one shutdown at a time, and somebody is at work on it: the queued
barrier, the worker or the evaluator), `WorkerTruth` and `StartTruth` (how far a
stop and a start have come). There is one lemma per action. The refinement is
step by step: `NextPower` shows each action to be a step of `BlePower` or one
that a program cannot tell from none.

`FrothyBleGattProof` does the same for the driver put together, for every
build, queue length, and number of starts, links and values. `Whole` is the
inductive invariant:

- `LinkInv`: the driver has a handle exactly while its link is up, but for the
  callbacks that stand between two locked sections, and NimBLE's callback
  argument is the connection's generation.
- `PlaceInv`: what a call still knows of the connection it began with, at each
  point where it can stand; what a clear has left behind it in the sections it
  has passed.
- `SubInv`, `DataInv`: subscriptions, cached handles and queued values belong to
  the connection of now, or, in the queues, to an earlier generation that the
  read will drop.
- `IndInv`, `ProcInv`, `MtuInv`: an indication, a request, an exchange of the MTU
  is pending exactly while NimBLE has it, or a named call is still at it.
- `Asked`: NimBLE and the radio are asked for something only while the radio is
  READY.
- `OrderInv`: numbers in a queue only grow, and follow what was taken before.
- `R!IInv`: the radio's own invariant. A call of the driver is to the radio
  whatever step of the radio it contains (`RadioCall`), and under that mapping
  every action of the driver is one of `FrothyBleRadio` or none
  (`RadioIsTheSame`). So the radio's theorems carry over: `HostStaysSafe`, and
  `DriverKeepsPower`.

The parts need each other: only a stopped host loses its link unheard, which is
the radio's to say, and only a ready radio is asked for anything.
`FrothyBleStepsProof` has one lemma for each of the 68 actions. Most rest on two:
`AsideKeeps` for actions that leave connection and link alone, `DataKept` for
those that leave the queues alone. `NothingCrosses`, `BusyIsOwed` and `InOrder`
follow.

`LinkAgreed` needs more, since it relates the driver to the controller and the two
differ while a call or a callback is under way. `Agreed` adds to `Whole` by how
much:

- `UseInv`: for each point of a start, a stop and a clear, whether the controller
  scans or advertises and whether the driver says so (`ScanInv`, `AdvInv`); and
  whoever uses the radio has it alone (`ApartInv`).
- `SlotInv`: a link has an owner, or is refused, terminated or dropped by a clear
  (`OwnerInv`); NimBLE connects for the connection of now, and a connection that
  waits is known to it or to the call about to ask (`PendingInv`); the program
  holds the handle of what it may use or close (`HandleInv`); a pending
  connection is in the notices, and there is room to say so (`NoticeInv`).
- `SizeInv`: no queue outgrows its bound.

Between two operations the exceptions are gone and `LinkIsAgreed` follows.
`RadioEnds` is liveness and stays with TLC.

## Language

### Model and code

A line is a sequence of tokens. `FrothyParse` is the recursive-descent parser,
`FrothyCompile` the compiler with its locals, hidden loop checkpoints and
fragments joined by relative jumps, `FrothyVm` the machine: one instruction per
step, calls, attempts and rescues, safe points, the Bytes arena, and every
limit. `FrothyRender` is the renderer of `see`, form by form.
`FrothyLanguage` sends a line through them: define, show, call, run to the end.
A native may fail, and at any safe point an interrupt or a failing event body
may strike.

`LanguageMeaning` says what source means without code: a printer and an
evaluator over trees. `CompiledAsMeant`: source parses to the tree it was
printed from, and the compiled code gives the answer and the effects the tree
means. `SeeRecompiles`: what `see` writes compiles to the same code.
`ErrorScoped`: the error of a rescue can be read there and nowhere else.
`InterruptEndsRun`: Ctrl-C ends every run, under weak fairness of the machine's
next step, which is one loop of one task.

### Bounds

2329 programs: every loop, if, attempt, call, Bytes and event form nested up to
three deep in the positions that differ, with depth 12, eight values on the
stack, three calls, two attempts, integers up to 7, four cells of arena. The
evaluator has fuel for 12 passes; no program of the run needs more. A run that
has ended has no step, so deadlock is allowed.

### Proofs

`FrothyVmProof` proves `ErrorScoped` for every code that frames may hold and
every native: `VmSpec` is the machine alone, whose steps the lines of
`FrothyLanguage` run take. The invariant is a chain: a rescue saves the error
that was readable before it, a frame that of its caller, and the saved errors
link the one of now to `None` for the caller of the program; each instruction
either leaves the chain, puts one link on or takes one off. The rest of the
language is recursion over trees and stays with TLC.

## The command-line program

`FrothySend` is `send`, `install` and `wipe-user` against a board that boots,
reads, evaluates, interrupts and queues type-ahead; every wait can time out at
any moment, and Ctrl-C is forwarded by a goroutine of its own. `FrothyConnect`
is the pump that finds prompts and resets in a stream split anywhere, and the
loop with its echo filter, held text and exits. `FrothyHost` runs one of the
two.

`AnswersMatch`: unless an answer came after the host stopped waiting for it, the
answer taken for a line is its own. `InstallLeavesLibrary`: however an install
ends, the board gets back to the user tier if its lines end. `SessionFaithful`:
the pump tells the same whatever the split, and the terminal shows each byte
once. Fairness: the board goes on and a line it evaluates ends; a wait of the
host ends by its time-out.

Bounds: two forms, two resent status requests, one Ctrl-C, four bytes of
type-ahead; streams of four bytes of five kinds, one echo, three keys. A prompt
takes two bytes and a banner line two, so four are the least with both next to
each other.

### Proofs

`FrothyHostProof` proves `AnswersMatch` of `SendSpec`, the conversation without
the terminal, for any number of forms, resends and signals and any type-ahead
(`AnswersAreOwn`), and of `HostSpec` (`HostAnswersAreOwn`).
An answer carries no number, so the invariant says what can be on the line while
none is late:

- `Exact`, of what the host has read and what is still to be read, put together:
  outputs of no line (a boot report, its prompt) come first, then those of the
  last line written, and nothing after that line's prompt. So the first prompt
  after a status line ends the last line's answer and leaves nothing behind.
- `Fitting` and `Apart`, of the lines the board has not answered, wherever they
  are (line, type-ahead, evaluator): each is the last one or one the host gave
  up, no line is there twice, and a form of `send` is there only while the host
  waits for it, so that Ctrl-C can only interrupt that one.
- `EndInv`: every earlier line was carried out, or given up and never answered,
  or the verb has failed.
- `Budget` counts lines against forms, resends and the stage of the
  conversation, so that no verb writes more lines than the model numbers.

The board's two answers that nothing asked for, a boot report and the reply to
Ctrl-C at the prompt, are why `Exact` speaks of outputs of no line; the second
always counts as late. There is one lemma per action, and one for each pattern
of the host's (answer and send, answer and end, time-out and send, time-out and
end).

It also proves `SessionFaithful` of `HostSpec` (`SessionIsShown`), for streams,
lines and keys of any number and chunks cut anywhere. The rounds of
`processChunk` and the echo filter are recursive functions, so what they compute
is proved by induction over the rounds, with a least counterexample where the
library's induction takes an operator. The invariant has two halves:

- `Took`: what the pump has told of the bytes taken is `Told`, the meaning of
  each of them put together, and its line buffer, line start and reset session
  are those of the stream (`After`). A byte keeps its meaning when more arrives
  (`MeaningKept`), unless it is a `>` that starts a line and comes last: just
  the byte the pump holds. So `Took` speaks of the stream without a held `>`.
  A stretch without a prompt (`Segment`), a prompt (`PromptOn`), a round
  (`RoundOn`), all rounds of a chunk (`RoundsOn`, `ScanOn`) and a chunk behind a
  held `>` (`ChunkOn`) each keep it.
- `ShownInv`: shown and held text put together is the text taken, or, once the
  user has emptied the line while text was held, holds every byte as often
  (`Ordered`). Text is held behind an empty line only in that case, and wherever
  it is held the timer runs and the loop has not ended.

## Proofs in general

TLAPS proves 44 listed theorems in eight modules. Of the properties the runs
check, it proves all safety properties of `persist_faults`, `persist_safe`,
`handles`, `events`, `ble_radio`, `ble` and `host`, and `ErrorScoped`:
29 in all, among them three refinements
(`ImplementsStore`, `ImplementsCapabilities`, `PowerKept`). A fourth, of
`FrothyBleRadio` by the whole driver, is `RadioIsTheSame`.
They rest on the named assumptions of the modules, on sizes and on names being
different, and on the two hypotheses given above.

What stays with TLC:

- Liveness (`CommandEnds`, `EventsGoOn`, `RadioEnds`, `InterruptEndsRun`,
  `InstallLeavesLibrary`): the prover does not reason about fairness or
  `ENABLED`.
- What recursion computes (`CompiledAsMeant`, `SeeRecompiles`, and `NoDangling`,
  `WordsKeepSlots`, `SavedImageMounts`, `BookSpec`, whose tables are walked by
  recursive operators): it needs induction over data.

## Where the code says more than it does

One disagreement is shown by a run, and was seen on the host build:

- **A word that is nil is lost by save** (`save_loses_nil`). `g is nil`, `f is
  fn [ g ]`, `save:`. A slot whose value is nil like its base is no overlay
  (`slot.c:267`), so the save writes neither a BIND nor a NAME for it
  (`persist_payload.c:1463`, `:1819`), while the saved code names it; the mount
  answers CORRUPT. `persist_payload.c:3670` says that code names a slot only
  when the image names it.

The others are exceptions in properties or uses that a run leaves out by name.

Saved programs:

- *An `ok` on the older program.* ESP-IDF's finalize answers without reading
  the slot back. If the write went wrong, the mount that follows finds the
  previous image as its newest (`persist.c:148-151` says otherwise). Hence the
  hypothesis of `SaveAnswersOk`.
- *The skipped image comes back.* After a safe boot, an at-once save that
  commits but cannot mount its image runs the ordinary loop, which can load
  the image the user skipped (`persist.c:301-303`).
- *A library without code.* `restore` keeps library words but can fall back to
  an older image with another library (`persist.c:451-452`,
  `persist_payload.c:4677-4682`).
- `repl.c:1550-1552` wants the user pass to run so that a corrupt library tier
  does not strand the user's, but that pass needs the image the library pass
  pinned and restores nothing without it.

Words (`Rough`):

- *library*: a program that assigns to a library word changes a value that
  `save` does not store, and a `restore` leaves the word with an id of an
  object that is gone.
- *element*: writing a new Text into saved cells and then `clear` leaves the
  cells with an id that was cut off.
- *repeat*: a library definition that repeats the value the user saved lands in
  the user's tier.
- *armed*: `restore` does not clear the event table, so an event armed by code
  that was not saved keeps an id of it (`persist_payload.c:4284`, `:4694`,
  `persist.c:571-573`).
- *nil*: above.
- After `wipe-user` a redefined word of the base image has no value until a
  restart.
- After an interrupt a rebound word can have its new value though the line
  failed (`repl.c:2568-2620`).

Events:

- *Deaf after 24.8 days.* The half-range rule drops every candidate of a binding
  that is older than half the clock's range (`event.c:213`). Hence the
  hypothesis of `FreshAccepted`.
- *A lost fault.* An interrupt that breaks the round overwrites the error of an
  earlier body (`event.c:271`, `:300`): `FaultReported` says that an error is
  answered, and not which.
- A clear zeroes generations and not the queue, so an old candidate passes for a
  binding registered in the same millisecond, and a timer given up with its old
  generation is filtered only until a clear starts generations again:
  `PendingIsOwn` has both exceptions, and no other.
- One source can fill the queue by itself, and the only firing of an `after` is
  then refused: `DropsAccounted` says it is counted.
- An `after` that fires between being armed and being recorded, a millisecond
  earlier, is taken for older than its registration: `FreshAccepted` is about
  candidates from after it.

Bluetooth: a find that is interrupted after its wait last looked, in which time
a stage completed, stays pending until the connection ends (`ble.c:1633`):
`BusyIsOwed` names it.

Language: `see` writes `(set x to 1) + 2` without the parentheses it needs
(`CHANGELOG.md:369` says the source compiles again), and a slot named like a
local is captured by it; statements as operands and such slots are left out of
the programs. A Bytes value kept in a cell over a rewind of the arena names
memory that is free (`tagged.h:46-48`, `object.c:1754`).

Command-line program:

- `readDeviceStatus` sends `status` again every 300 ms without draining. A busy
  board answers all of them later, every later form is matched with an earlier
  answer, and `send` can report success although its last forms failed
  (`CHANGELOG.md:329-335` promises that it waits for the prompt after each
  line). The same follows a Ctrl-C that crosses a form's own answer. Nothing on
  the line says which request an answer is for; `AnswersMatch` excludes late
  answers, and only those.
- `send` to a board whose startup printed an error ends with "status failed".
- `install` that is killed by a signal midway leaves library mode on.
- `connect` shows text held behind a typed line after later text if the line is
  emptied within the 50 ms window (`ShownOnce` names it); the echo filter loses
  what it swallowed when output only begins like the echo; a typed line that
  starts like a ROM banner counts as a reset; bytes that arrive with the end of
  the port can be lost.

## Not modelled

- *Natives, tagged values and the base image* (`native.c`, `tagged.c`,
  `types.c`, `base_*.c`, `lib_native.c`, `crc.c`, `profile.c`): look-ups and
  encodings without state of their own.
- *NINA radio* (`nina.cpp`): one half of a protocol whose other half, the
  co-processor's firmware, is outside the repository; each command is one
  blocking request and answer.
- *The rest of the platforms*: GPIO, buses, consoles, Wi-Fi and sockets, but for
  the open/close protocol of handles and the interrupts of events.
- *The rest of BLE*: attribute tables and values, status queries, the RSSI wait,
  address and error conversions.
- *The rest of the prompt*: control frames, read-only listings, reading a line.
- *The rest of the command-line program*: terminal keys, drawing, history files,
  and the commands that build, flash or fetch.
- *VS Code extension*: its state is the editor's.
- *Boards, profiles, tools, examples, tests*: configuration and scripts.

## Plan

What is left, in order:

1. The control frames of the prompt as a module of their own.
