--------------------------- MODULE FrothyHandles ---------------------------
(***************************************************************************)
(* The table of platform handles (src/handle.c) and what moves through it: *)
(* the natives that open and close resources (targets/common/target_defs), *)
(* bulk closes, ble.off, restore and wipe-user, the project clear, and the *)
(* tolerant save, which keeps the handles of the words it stores as nil.   *)
(*                                                                         *)
(* A handle value is a reference: the id of a table entry and a generation *)
(* number.  References are plain words; copies of a closed one stay about, *)
(* so all that keeps them harmless is the generation.                      *)
(***************************************************************************)
EXTENDS FiniteSets, Integers

CONSTANTS
    Capacity,   \* FR_PROFILE_MAX_HANDLES
    MaxGen,     \* FR_TAGGED_HANDLE_MAX_GENERATION (2^23 - 1 in the code)
    Plain,      \* resources the platform refuses to open twice (uart, pwm,
                \* i2c, tcp, trace, pulse)
    Listeners,  \* listening ports, which the platform opens idempotently
    Ble,        \* the BLE connection
    Words,      \* user-tier words that may hold a handle
    Free, Reserved, \* the target of an entry that owns no resource
    Nil         \* the word holds no handle

Resources == Plain \cup Listeners \cup Ble

ASSUME CapacityAssumption == Capacity \in Nat \ {0}
ASSUME MaxGenAssumption == MaxGen \in Nat \ {0}
ASSUME TargetAssumption ==
    /\ Free \notin Resources /\ Reserved \notin Resources /\ Free # Reserved
ASSUME KindsAssumption ==
    Plain \cap Listeners = {} /\ Plain \cap Ble = {} /\ Listeners \cap Ble = {}

Ids == 0 .. Capacity - 1
Entry(target, gen) == [target |-> target, gen |-> gen, retired |-> FALSE]
Refs == [id : Ids, gen : 1 .. MaxGen]
ASSUME NilAssumption == Nil \notin Refs

Entries == [target : Resources \cup {Free, Reserved}, gen : 0 .. MaxGen,
            retired : BOOLEAN]

VARIABLES
    table,      \* handles.entries: kind and platform index are the target
    open,       \* the resources the platform has open
    words,      \* the handle a word holds
    issued,     \* history: every reference given to user code, and to what
    held,       \* the handle values a tolerant save has set aside
    holding,    \* the runtime borrows them for the next bulk close
    refused,    \* history: entries the platform would not close in a clear
    pc,         \* "idle", or the step a save is at
    reply       \* how the last save or clear ended

vars == <<table, open, words, issued, held, holding, refused, pc, reply>>

Live(t, i) == t[i].target \in Resources
LiveIds(t) == {i \in Ids : Live(t, i)}
Owners(t, res) == {i \in Ids : t[i].target = res}

\* fr_handle_lookup: the reference names a live entry of its generation.
Resolves(t, ref) == Live(t, ref.id) /\ t[ref.id].gen = ref.gen

NoWords == [w \in Words |-> Nil]
HeldRefs(ws) == {ws[w] : w \in Words} \ {Nil}

TypeOK ==
    /\ table \in [Ids -> Entries]
    /\ open \subseteq Resources
    /\ words \in [Words -> Refs \cup {Nil}]
    /\ issued \subseteq [ref : Refs, target : Resources]
    /\ held \in [Words -> Refs \cup {Nil}]
    /\ holding \in BOOLEAN
    /\ refused \subseteq Ids
    /\ pc \in {"idle", "remount", "applied", "recover"}
    /\ reply \in {"none", "saved", "cleared"}

Init ==
    /\ table = [i \in Ids |-> Entry(Free, 0)]
    /\ open = {} /\ words = NoWords /\ issued = {}
    /\ held = NoWords /\ holding = FALSE /\ refused = {}
    /\ pc = "idle" /\ reply = "none"

(***************************************************************************)
(* The operations of the table.                                            *)
(***************************************************************************)
Cleared(entry) == [entry EXCEPT !.target = Free]

Spent(entry) == entry.target = Free /\ entry.gen = MaxGen

Usable(t, i) == t[i].target = Free /\ ~t[i].retired /\ t[i].gen < MaxGen
FirstUsable(t, i) == Usable(t, i) /\ \A j \in Ids : j < i => ~Usable(t, j)

\* The scan for a usable entry retires the spent ones it passes.
Scanned(t, upto) ==
    [j \in Ids |-> IF j < upto /\ Spent(t[j])
                     THEN [t[j] EXCEPT !.retired = TRUE] ELSE t[j]]

Reserve(t, i) ==
    [Scanned(t, i) EXCEPT ![i] = Entry(Reserved, t[i].gen + 1)]

\* Mutant: a failed open burns the generation.
ReleaseBurns(t, i) == [t EXCEPT ![i] = Entry(Free, t[i].gen)]

\* A reservation that was never given to user code rolls its generation back.
Release(t, i) == [t EXCEPT ![i] = Entry(Free, t[i].gen - 1)]

\* The entry takes the resource, unless another one owns it: then the native
\* closes the resource and releases the reservation.
Activate(t, i, res) ==
    IF Owners(t, res) \ {i} # {} THEN Release(t, i)
    ELSE [t EXCEPT ![i] = Entry(res, t[i].gen)]

\* Mutant: a hold names the entry by its id alone.
HeldIdsById(t) ==
    {i \in LiveIds(t) : holding /\ \E ref \in HeldRefs(held) : ref.id = i}

\* A hold names the live entry by id and generation: a stale reference holds
\* nothing.
HeldIds(t) ==
    {i \in LiveIds(t) : holding /\ [id |-> i, gen |-> t[i].gen] \in HeldRefs(held)}

\* Mutant: an entry whose platform close failed is forgotten.
BulkCloseForgets(t, kept, failed) ==
    [i \in Ids |-> IF i \in kept THEN t[i] ELSE Cleared(t[i])]

\* A bulk close leaves the held entries and those the platform would not
\* close, which stay for the next one to retry.
BulkClose(t, kept, failed) ==
    [i \in Ids |-> IF i \in kept \cup failed THEN t[i] ELSE Cleared(t[i])]

\* What the platform still has open after a bulk close.
StillOpen(t, kept, failed) ==
    open \ {t[i].target : i \in LiveIds(t) \ (kept \cup failed)}

\* The radio dropped every connection: its entries own nothing any more.
ForgetBle(t) ==
    [i \in Ids |-> IF t[i].target \in Ble THEN Cleared(t[i]) ELSE t[i]]

(***************************************************************************)
(* Opening and closing at the prompt.                                      *)
(***************************************************************************)
Prompt ==
    /\ pc = "idle" /\ reply' = "none" /\ refused' = {}
    /\ UNCHANGED <<held, holding, pc>>

\* The reference is user code's from here on, if the entry got the resource.
Issue(i, res) ==
    LET taken == {r \in {res} : table'[i].target = r} IN
    /\ open' = open \cup taken
    /\ issued' = issued \cup
        {[ref |-> [id |-> i, gen |-> table'[i].gen], target |-> r] : r \in taken}

TableFull == \A i \in Ids : ~Usable(table, i)

\* Every entry is live or retired: the open is refused with "capacity".
OpenRefused ==
    /\ Prompt /\ TableFull
    /\ table' = Scanned(table, Capacity)
    /\ UNCHANGED <<open, words, issued>>

\* The platform's own open fails after the reservation.
OpenFails ==
    /\ Prompt
    /\ \E i \in Ids :
        FirstUsable(table, i) /\ table' = Release(Reserve(table, i), i)
    /\ UNCHANGED <<open, words, issued>>

\* reserve, then the platform's open, then activate.  An open of a resource
\* that is open already is refused or answers the handle that owns it.
Open(res) ==
    /\ Prompt /\ res \notin open
    /\ \E i \in Ids :
        /\ FirstUsable(table, i)
        /\ table' = Activate(Reserve(table, i), i, res)
        /\ Issue(i, res)
    /\ UNCHANGED words

\* tcp.listen opens first.  A port that is listening already answers the
\* handle that owns it; without a usable entry the port is closed again.
Listen(res) ==
    /\ Prompt /\ Owners(table, res) = {}
    /\ \/ /\ TableFull
          /\ table' = Scanned(table, Capacity) /\ open' = open \ {res}
          /\ UNCHANGED issued
       \/ \E i \in Ids :
            /\ FirstUsable(table, i)
            /\ table' = Activate(Reserve(table, i), i, res)
            /\ Issue(i, res)
    /\ UNCHANGED words

\* Mutant: closing gives the generation back.
CloseRollsBack(ref) ==
    /\ Prompt /\ Resolves(table, ref)
    /\ table' = Release(table, ref.id)
    /\ open' = open \ {table[ref.id].target}
    /\ UNCHANGED <<words, issued>>

\* A close the platform refuses changes nothing.
Close(ref) ==
    /\ Prompt /\ Resolves(table, ref)
    /\ table' = [table EXCEPT ![ref.id] = Cleared(@)]
    /\ open' = open \ {table[ref.id].target}
    /\ UNCHANGED <<words, issued>>

Write(w, value) ==
    /\ Prompt /\ words' = [words EXCEPT ![w] = value]
    /\ UNCHANGED <<table, open, issued>>

\* ble.off closes the connections, then turns the radio off, which drops
\* whatever the closes could not.
BleOff ==
    /\ Prompt
    /\ table' = ForgetBle(table) /\ open' = open \ Ble
    /\ UNCHANGED <<words, issued>>

\* close-handles, and the bulk close that restore and wipe-user begin with.
CloseAll(t, failed) ==
    /\ table' = BulkClose(t, {}, failed) /\ open' = StillOpen(t, {}, failed)

CloseHandles(failed) ==
    /\ Prompt /\ CloseAll(table, failed)
    /\ UNCHANGED <<words, issued>>

\* restore drops BLE and closes the handles before it looks for an image;
\* the user tier goes only when one applies, or fails to.  (Its first step
\* can fail and end it, which leaves what ble.off leaves.)
Restore(failed) ==
    /\ Prompt
    /\ table' = BulkClose(ForgetBle(table), {}, failed)
    /\ open' = StillOpen(ForgetBle(table), {}, failed) \ Ble
    /\ words' \in {words, NoWords}
    /\ UNCHANGED issued

(***************************************************************************)
(* The project clear, and the saves that go through it.                    *)
(***************************************************************************)
\* close_all takes the hold, the BLE stack is cleared, words go to base.
ClearProject(failed) ==
    /\ table' = ForgetBle(BulkClose(table, HeldIds(table), failed))
    /\ open' = StillOpen(table, HeldIds(table), failed) \ Ble
    /\ refused' = failed
    /\ words' = NoWords /\ holding' = FALSE
    /\ UNCHANGED issued

Clear(failed) ==
    /\ pc = "idle" /\ ClearProject(failed) /\ reply' = "cleared"
    /\ UNCHANGED <<held, pc>>

\* wipe-user closes the handles and drops the words.  Its save, like that of
\* every at-once command, clears the project however it ends.
WipeUser(failed) ==
    /\ pc = "idle" /\ pc' = "recover" /\ reply' = "none" /\ refused' = {}
    /\ CloseAll(table, failed) /\ words' = NoWords
    /\ UNCHANGED <<issued, held, holding>>

SaveAtOnce ==
    /\ pc = "idle" /\ pc' = "recover" /\ reply' = "none" /\ refused' = {}
    /\ UNCHANGED <<table, open, words, issued, held, holding>>

Savable ==
    /\ Cardinality({w \in Words : words[w] # Nil}) <= Capacity
    /\ \A ref \in HeldRefs(words) :
        Resolves(table, ref) => table[ref.id].target \notin Ble

\* Mutant: the save sets the values aside but does not hold the handles.
SaveWithoutHold ==
    /\ pc = "idle" /\ Savable
    /\ held' = words /\ holding' = FALSE
    /\ pc' = "remount" /\ reply' = "none" /\ refused' = {}
    /\ UNCHANGED <<table, open, words, issued>>

\* A save that can be tolerant sets the handle values aside and commits an
\* image with nil in their place.  (A save that cannot, or whose commit
\* fails, is refused and changes nothing.)
Save ==
    /\ pc = "idle" /\ Savable
    /\ held' = words /\ holding' = (words # NoWords)
    /\ pc' = "remount" /\ reply' = "none" /\ refused' = {}
    /\ UNCHANGED <<table, open, words, issued>>

\* The mount of the new image resets the runtime, whether it then applies or
\* not; a mount that misses resets it too.
Remount(failed) ==
    /\ pc = "remount" /\ ClearProject(failed)
    /\ pc' \in {"applied", "recover"}
    /\ UNCHANGED <<held, reply>>

\* The image applied: the words get their handles back.
SaveEnds ==
    /\ pc = "applied" /\ pc' = "idle"
    /\ words' = held /\ held' = NoWords /\ reply' = "saved"
    /\ UNCHANGED <<table, open, issued, holding, refused>>

\* It did not: the clean-up clears again, this time without a hold.
ApplyFails(failed) ==
    /\ pc = "applied" /\ ClearProject(failed) /\ pc' = "recover"
    /\ UNCHANGED <<held, reply>>

\* The ordinary mount loop, which clears the project at least once.
Recover(failed) ==
    /\ pc = "recover" /\ ClearProject(failed)
    /\ held' = NoWords /\ pc' = "idle" /\ reply' = "cleared"

\* A restart: the hardware lets go of everything, the table is zeroed.
Restart ==
    /\ table' = [i \in Ids |-> Entry(Free, 0)]
    /\ open' = {} /\ words' = NoWords /\ issued' = {}
    /\ held' = NoWords /\ holding' = FALSE /\ refused' = {}
    /\ pc' = "idle" /\ reply' = "none"

Next ==
    \/ OpenRefused \/ OpenFails
    \/ \E res \in Plain \cup Ble : Open(res)
    \/ \E res \in Listeners : Listen(res)
    \/ \E ref \in {x.ref : x \in issued} : Close(ref)
    \/ \E w \in Words, value \in {x.ref : x \in issued} \cup {Nil} : Write(w, value)
    \/ BleOff
    \/ \E failed \in SUBSET LiveIds(table) :
        \/ CloseHandles(failed) \/ Restore(failed) \/ Clear(failed)
        \/ WipeUser(failed)
        \/ Remount(failed) \/ ApplyFails(failed) \/ Recover(failed)
    \/ SaveAtOnce \/ Save \/ SaveEnds
    \/ Restart

Spec == Init /\ [][Next]_vars

(***************************************************************************)
(* Properties.                                                             *)
(***************************************************************************)

\* The table and the platform agree on who owns what: everything open has
\* one live entry, and no live entry is for something that is closed.  A
\* resource without an entry stays busy until the next restart.
Ownership ==
    /\ open = {table[i].target : i \in LiveIds(table)}
    /\ \A i, j \in LiveIds(table) : table[i].target = table[j].target => i = j

\* Failed opens never use the table up: each generation of an entry was a
\* reference in user code's hands, and only a spent entry is retired.
OnlyUseSpendsEntries ==
    \A i \in Ids :
        /\ {x.ref.gen : x \in {y \in issued : y.ref.id = i}} = 1 .. table[i].gen
        /\ table[i].retired => Spent(table[i])

\* A save that answered ok left open only what the words hold, and a save
\* that failed or a clear left nothing open, except what the platform
\* refused to close.
NothingLeftOpen ==
    reply \in {"saved", "cleared"} =>
        \A i \in LiveIds(table) \ refused :
            [id |-> i, gen |-> table[i].gen] \in HeldRefs(words)

\* From its commit to its answer a tolerant save loses no handle it holds,
\* and gives every word its value back.
SaveKeepsHandles ==
    [][pc' = "applied" \/ reply' = "saved" =>
        /\ \A ref \in HeldRefs(held) :
            Resolves(table, ref) => Resolves(table', ref)
        /\ reply' = "saved" => words' = held]_vars

\* References are unforgeable as far as user code can tell: one that was
\* issued means its resource or nothing, and nothing for ever once closed.
Refers ==
    {[ref |-> ref, target |-> table[ref.id].target] :
        ref \in {r \in {x.ref : x \in issued} : Resolves(table, r)}}
Caps == INSTANCE Capabilities WITH
    Resources <- Resources, live <- Refers, given <- issued
ImplementsCapabilities == Caps!Spec
=============================================================================
