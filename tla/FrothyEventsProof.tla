------------------------- MODULE FrothyEventsProof --------------------------
(***************************************************************************)
(* Proofs about the event table. Five steps write its entries: Record,     *)
(* Cancel, Accept, StartBody and the clear. The first invariant says which *)
(* registration each live entry holds, which makes a one-shot's run final  *)
(* and every fall of a pending flag a withdrawal or a run. The second says *)
(* where events come from: what is pending, and so what runs, was fired by *)
(* the handler of the binding that is in the table. Handlers and           *)
(* candidates carry an index and a generation; it says what these can      *)
(* still be when they meet their entry, across replacements, cancels,      *)
(* clears and failing platform calls.                                      *)
(***************************************************************************)
EXTENDS FrothyEvents, FiniteSetTheorems, SequenceTheorems, TLAPS

(***************************************************************************)
(* The inductive invariant.                                                *)
(***************************************************************************)
\* Only a live binding is pending.
PendingLive == \A i \in Idx : entries[i].pending => Live(i)

\* Between arming and recording nothing takes the chosen entry.
ArmingTarget ==
    step = "arming" => arming.name \in Names /\ Target(arming.name, arming.idx)

\* A live entry has a registration of its own, not run as a one-shot yet; the
\* one between arming and recording is nobody's.
RegsFresh ==
    /\ done \subseteq 1 .. regs
    /\ \A i \in Idx : Live(i) => entries[i].reg \in 1 .. regs /\ entries[i].reg \notin done
    /\ \A i, j \in Idx : Live(i) /\ Live(j) /\ entries[i].reg = entries[j].reg => i = j
    /\ step = "arming" =>
         /\ regs \in Nat \ {0} /\ regs \notin done
         /\ \A i \in Idx : Live(i) => entries[i].reg # regs

TableInv ==
    /\ ActiveCountExact
    /\ OneEntryPerName
    /\ PendingLive
    /\ ArmingTarget
    /\ RegsFresh

IInv == TypeOK /\ NoNesting /\ DropsAccounted /\ TableInv

(***************************************************************************)
(* Data.                                                                   *)
(***************************************************************************)
\* What is added on both sides keeps a balance.
LEMMA Balance ==
    ASSUME drops = shown + unreported + overflow,
           drops \in Nat, shown \in Nat, unreported \in Nat, overflow \in Nat,
           drops' \in Nat, overflow' \in Nat, drops' = drops + (overflow' - overflow)
    PROVE  drops' = shown + unreported + overflow'
OBVIOUS

\* The numbers, one fact each.
LEMMA BindingCountType == BindingCount \in Nat \ {0} BY SizesAssumption
LEMMA QueueDepthType == QueueDepth \in Nat \ {0} BY SizesAssumption
LEMMA MaxMsType == MaxMs \in Nat BY ClockAssumption
LEMMA MaxRegsType == MaxRegs \in Nat BY BoundsAssumption
LEMMA MaxEpochsType == MaxEpochs \in Nat BY BoundsAssumption
LEMMA MaxFaultsType == MaxFaults \in Nat BY BoundsAssumption

USE BindingCountType, QueueDepthType, MaxMsType, MaxRegsType, MaxEpochsType, MaxFaultsType

\* A set of indices is finite and has at most BindingCount members.
LEMMA IdxFinite ==
    ASSUME NEW S \in SUBSET Idx
    PROVE  IsFiniteSet(S) /\ Cardinality(S) \in 0 .. BindingCount
<1>1. IsFiniteSet(Idx) /\ Cardinality(Idx) = BindingCount
  BY FS_Interval DEF Idx
<1>2. IsFiniteSet(S) /\ Cardinality(S) <= BindingCount
  BY <1>1, FS_Subset
<1>3. Cardinality(S) \in Nat
  BY <1>2, FS_CardinalityType
<1> QED BY <1>2, <1>3

\* A handler is of its type, also when stopped or fired.
LEMMA HandlerType ==
    ASSUME NEW i \in Idx, NEW gen \in Nat, NEW name, NEW reg \in Regs
    PROVE  Handler(i, gen, name, reg) \in Handlers
BY DEF Handler, Handlers

LEMMA StoppedType ==
    ASSUME NEW h \in Handlers, NEW b \in BOOLEAN
    PROVE  [h EXCEPT !.stopped = b] \in Handlers /\ h.stopped \in BOOLEAN
           /\ Fired(h) \in Handlers
BY DEF Handlers, Fired

\* A free entry has no binding, no registration and nothing pending.
LEMMA FreeEntryType ==
    ASSUME NEW gen \in Nat
    PROVE  /\ FreeEntry(gen) \in Entries
           /\ FreeEntry(gen).name = None /\ FreeEntry(gen).reg = 0
           /\ FreeEntry(gen).pending = FALSE
<1>1. NoOrigin \in Origins
  BY DEF NoOrigin, Origins, Regs, Ms, Epochs
<1>2. 0 \in Ms /\ 0 \in Regs /\ 0 \in Epochs
  BY DEF Ms, Regs, Epochs
<1> QED BY <1>1, <1>2 DEF FreeEntry, Entries

\* The fields of an entry the proofs look at.
LEMMA EntryFields ==
    ASSUME NEW e \in Entries
    PROVE  /\ e.name \in Names \cup {None} /\ e.gen \in Nat /\ e.pending \in BOOLEAN
           /\ e.reg \in Regs /\ e.origin \in Origins
BY DEF Entries

\* Marking an entry changes neither its binding nor its registration, and
\* marks live entries only.
LEMMA MarkedEntry ==
    ASSUME NEW e \in Entries, NEW c \in Candidates
    PROVE  /\ Marked(e, c) \in Entries
           /\ Marked(e, c).name = e.name /\ Marked(e, c).reg = e.reg
           /\ e.pending => Marked(e, c).pending
           /\ Marked(e, c).pending => e.pending \/ e.name # None
<1>1. OriginOf(c) \in Origins /\ c.at \in Ms
  BY DEF OriginOf, Origins, Candidates
<1>2. CASE Accepts(e, c)
  <2>1. Marked(e, c) = [e EXCEPT !.pending = TRUE, !.lastFire = c.at,
                                 !.hasFired = TRUE, !.origin = OriginOf(c)]
    BY <1>2 DEF Marked
  <2>2. e.name # None
    BY <1>2 DEF Accepts
  <2> QED BY <1>1, <2>1, <2>2 DEF Entries
<1>3. CASE ~Accepts(e, c)
  BY <1>3 DEF Marked
<1> QED BY <1>2, <1>3

\* Taking an entry for its body clears the flag; an `after` leaves the table.
LEMMA TakenEntry ==
    ASSUME entries \in [Idx -> Entries], NEW i \in Idx
    PROVE  /\ Taken(i) \in Entries
           /\ ~Taken(i).pending
           /\ entries[i].name \in Afters => Taken(i).name = None /\ Taken(i).reg = 0
           /\ entries[i].name \notin Afters =>
                Taken(i).name = entries[i].name /\ Taken(i).reg = entries[i].reg
<1>1. entries[i] \in Entries
  OBVIOUS
<1>2. CASE entries[i].name \in Afters
  <2>1. Taken(i) = FreeEntry(entries[i].gen + 1)
    BY <1>2 DEF Taken
  <2>2. entries[i].gen + 1 \in Nat
    BY <1>1, EntryFields
  <2> QED BY <1>2, <2>1, <2>2, FreeEntryType
<1>3. CASE entries[i].name \notin Afters
  <2> DEFINE e == entries[i]
  <2>1. Taken(i) = [e EXCEPT !.pending = FALSE, !.origin = NoOrigin]
    BY <1>3 DEF Taken
  <2>2. NoOrigin \in Origins
    BY DEF NoOrigin, Origins, Regs, Ms, Epochs
  <2> HIDE DEF e
  <2>3. /\ [e EXCEPT !.pending = FALSE, !.origin = NoOrigin] \in Entries
        /\ [e EXCEPT !.pending = FALSE, !.origin = NoOrigin].name = e.name
        /\ [e EXCEPT !.pending = FALSE, !.origin = NoOrigin].reg = e.reg
        /\ [e EXCEPT !.pending = FALSE, !.origin = NoOrigin].pending = FALSE
    BY <1>1, <2>2 DEF e, Entries
  <2> QED BY <1>3, <2>1, <2>3 DEF e
<1> QED BY <1>2, <1>3

\* The ports of bindings.
LEMMA PortType ==
    ASSUME NEW name \in Names, NEW i \in Idx
    PROVE  Port(name, i) \in Ports
BY DEF Port, Ports, Names

\* Rounds and their bodies.
LEMMA FrameTypes ==
    /\ NewFrame \in Frames
    /\ \A f \in Frames, n \in 1 .. BindingCount + 1, b \in Regs,
          o \in Origins :
         [f EXCEPT !.next = n, !.body = b, !.origin = o] \in Frames
    /\ \A f \in Frames, err \in Errs :
         [f EXCEPT !.body = 0, !.origin = NoOrigin,
                   !.err = FirstError(@, err),
                   !.faulted = @ \/ err = "fault"] \in Frames
    /\ \A f \in Frames : f.next \in 1 .. BindingCount + 1 /\ f.err \in Errs /\ f.faulted \in BOOLEAN
<1>1. NoOrigin \in Origins /\ 0 \in Regs /\ 0 \in Epochs
  BY DEF NoOrigin, Origins, Regs, Ms, Epochs
<1>2. NewFrame \in Frames
  BY <1>1 DEF NewFrame, Frames, Errs
<1>3. \A f \in Frames, n \in 1 .. BindingCount + 1, b \in Regs,
         o \in Origins :
        [f EXCEPT !.next = n, !.body = b, !.origin = o] \in Frames
  BY DEF Frames
<1>4. ASSUME NEW f \in Frames, NEW err \in Errs
      PROVE  [f EXCEPT !.body = 0, !.origin = NoOrigin,
                       !.err = FirstError(@, err),
                       !.faulted = @ \/ err = "fault"] \in Frames
  BY <1>1 DEF Frames, Errs, FirstError
<1>5. \A f \in Frames : f.next \in 1 .. BindingCount + 1 /\ f.err \in Errs /\ f.faulted \in BOOLEAN
  BY DEF Frames
<1> QED BY <1>2, <1>3, <1>4, <1>5

(***************************************************************************)
(* What several actions do.                                                *)
(***************************************************************************)
\* The queue keeps its type and its depth, and a refused candidate counts on
\* both sides.
LEMMA EnqueueKeeps ==
    ASSUME TypeOK, NEW h \in Handlers, Enqueue(h)
    PROVE  /\ queue' \in Seq(Candidates) /\ Len(queue') <= QueueDepth
           /\ overflow' \in Nat /\ drops' \in Nat
           /\ drops' = drops + (overflow' - overflow)
<1> DEFINE c == [idx |-> h.idx, gen |-> h.gen, at |-> now, reg |-> h.reg, epoch |-> epoch]
<1>1. c \in Candidates
  BY DEF TypeOK, Handlers, Candidates
<1>2. CASE Len(queue) < QueueDepth /\ queue' = Append(queue, c)
           /\ UNCHANGED <<overflow, drops>>
  <2> HIDE DEF c
  <2>1. Append(queue, c) \in Seq(Candidates) /\ Len(Append(queue, c)) = Len(queue) + 1
        /\ Len(queue) \in Nat
    BY <1>1, AppendProperties, LenProperties DEF TypeOK
  <2> QED BY <1>2, <2>1 DEF TypeOK
<1>3. CASE overflow' = overflow + 1 /\ drops' = drops + 1 /\ UNCHANGED queue
  BY <1>3 DEF TypeOK
<1> QED BY <1>2, <1>3 DEF Enqueue

\* Arming a name takes a free registration number and a fitting entry, and
\* keeps the platform's types.
LEMMA ArmKeeps ==
    ASSUME TypeOK, NEW name \in Names, NEW debounce \in Debounces \cup {0},
           Arm(name, debounce)
    PROVE  /\ armed' \in [Ports -> Handlers \cup {None}] /\ leaked' \subseteq Handlers
           /\ arming' \in Armings /\ arming'.name = name
           /\ Target(name, arming'.idx)
           /\ regs' \in Regs /\ regs' = regs + 1
           /\ faults' \in 0 .. MaxFaults
<1>1. PICK i \in Idx :
        LET p == Port(name, i)
            h == Handler(i, entries[i].gen + 1, name, regs + 1)
        IN /\ Target(name, i)
           /\ arming' = [idx |-> i, name |-> name, debounce |-> debounce]
           /\ \/ armed' = [armed EXCEPT ![p] = h] /\ UNCHANGED <<leaked, faults>>
              \/ /\ name \in Timers /\ armed[p] # None /\ faults < MaxFaults
                 /\ faults' = faults + 1
                 /\ leaked' = IF armed[p].stopped THEN leaked
                                                  ELSE leaked \cup {armed[p]}
                 /\ \E off \in BOOLEAN :
                      armed' = [armed EXCEPT ![p] = [h EXCEPT !.stopped = off]]
  BY DEF Arm
<1> DEFINE p == Port(name, i)
           h == Handler(i, entries[i].gen + 1, name, regs + 1)
<1>2. regs + 1 \in Regs
  BY DEF Arm, TypeOK, Regs
<1>3. h \in Handlers
  <2>1. entries[i].gen + 1 \in Nat
    BY EntryFields DEF TypeOK
  <2> QED BY <1>2, <2>1, HandlerType
<1>4. p \in Ports
  BY PortType
<1>5. arming' \in Armings /\ arming'.name = name /\ Target(name, arming'.idx)
  BY <1>1 DEF Armings
<1>6. \A off \in BOOLEAN : [h EXCEPT !.stopped = off] \in Handlers
  BY <1>3, StoppedType
<1> HIDE DEF h, p
<1>7. armed' \in [Ports -> Handlers \cup {None}]
  <2>1. armed \in [Ports -> Handlers \cup {None}]
    BY DEF TypeOK
  <2>2. CASE armed' = [armed EXCEPT ![p] = h]
    BY <1>3, <1>4, <2>1, <2>2
  <2>3. CASE \E off \in BOOLEAN : armed' = [armed EXCEPT ![p] = [h EXCEPT !.stopped = off]]
    <3>1. PICK off \in BOOLEAN : armed' = [armed EXCEPT ![p] = [h EXCEPT !.stopped = off]]
      BY <2>3
    <3> DEFINE g == [h EXCEPT !.stopped = off]
    <3>2. g \in Handlers
      BY <1>6
    <3> HIDE DEF g
    <3> QED BY <1>4, <2>1, <3>1, <3>2 DEF g
  <2> QED BY <1>1, <2>2, <2>3 DEF h, p
<1>8. leaked' \subseteq Handlers
  <2>1. leaked \subseteq Handlers /\ (armed[p] # None => armed[p] \in Handlers)
    BY <1>4 DEF TypeOK
  <2> QED BY <1>1, <2>1 DEF p
<1>9. faults' \in 0 .. MaxFaults
  BY <1>1 DEF TypeOK
<1> QED BY <1>2, <1>5, <1>7, <1>8, <1>9 DEF Arm

\* A clear leaves free entries, whatever the platform answers.
LEMMA ClearKeeps ==
    ASSUME TypeOK, DropsAccounted, ClearTable
    PROVE  /\ entries' = [i \in Idx |-> FreeEntry(0)] /\ activeCount' = 0
           /\ armed' \in [Ports -> Handlers \cup {None}]
           /\ unreported' = 0 /\ drops' \in Nat /\ drops' = shown + overflow
           /\ epoch' \in Epochs /\ faults' \in 0 .. MaxFaults
           /\ UNCHANGED <<leaked, queue, overflow, shown, now, step, arming, batch,
                          round, regs>>
<1>1. PICK stuck \in SUBSET {i \in LiveIdx : entries[i].name \notin Wifis} :
        /\ epoch < MaxEpochs /\ epoch' = epoch + 1
        /\ faults + Cardinality(stuck) <= MaxFaults
        /\ faults' = faults + Cardinality(stuck)
        /\ armed' = [p \in Ports |->
              IF \E i \in LiveIdx \ stuck : p = Port(entries[i].name, i)
                THEN None ELSE armed[p]]
        /\ entries' = [i \in Idx |-> FreeEntry(0)] /\ activeCount' = 0
        /\ unreported' = 0 /\ drops' = drops - unreported
        /\ UNCHANGED <<leaked, queue, overflow, shown, now, step, arming, batch,
                       round, regs>>
  BY DEF ClearTable
<1>2. Cardinality(stuck) \in Nat
  BY IdxFinite DEF LiveIdx
<1>3. faults' \in 0 .. MaxFaults /\ epoch' \in Epochs
  BY <1>1, <1>2 DEF TypeOK, Epochs
<1>4. drops' = shown + overflow /\ drops' \in Nat
  <2>1. drops' = drops - unreported
    BY <1>1
  <2>2. drops = shown + unreported + overflow
    BY DEF DropsAccounted
  <2>3. shown \in Nat /\ unreported \in Nat /\ overflow \in Nat
    BY DEF TypeOK
  <2> QED BY <2>1, <2>2, <2>3
<1>5. armed' \in [Ports -> Handlers \cup {None}]
  BY <1>1 DEF TypeOK
<1> QED BY <1>1, <1>3, <1>4, <1>5

(***************************************************************************)
(* The ways a step can write the table.                                    *)
(***************************************************************************)
\* It does not, and no registration starts.
LEMMA SameTable ==
    ASSUME TableInv, UNCHANGED <<entries, activeCount, done, regs, arming>>,
           step' = "arming" => step = "arming"
    PROVE  TableInv'
<1>1. \A i \in Idx : entries'[i] = entries[i] /\ (Live(i)' <=> Live(i))
  BY DEF Live
<1>2. LiveIdx' = LiveIdx
  BY DEF LiveIdx, Live
<1>3. ActiveCountExact'
  BY <1>2 DEF TableInv, ActiveCountExact
<1>4. OneEntryPerName'
  BY <1>2 DEF TableInv, OneEntryPerName
<1>5. PendingLive'
  BY DEF TableInv, PendingLive, Live
<1>6. ArmingTarget'
  BY DEF TableInv, ArmingTarget, Target, Matches, Live
<1>7. RegsFresh'
  BY DEF TableInv, RegsFresh, Live
<1> QED BY <1>3, <1>4, <1>5, <1>6, <1>7 DEF TableInv

\* A registration starts: its number is fresh, its entry fits.
LEMMA ArmedTable ==
    ASSUME TypeOK, TableInv, UNCHANGED <<entries, activeCount, done>>,
           regs' = regs + 1,
           arming'.name \in Names, Target(arming'.name, arming'.idx)
    PROVE  TableInv'
<1>1. LiveIdx' = LiveIdx
  BY DEF LiveIdx, Live
<1>2. ActiveCountExact' /\ OneEntryPerName'
  BY <1>1 DEF TableInv, ActiveCountExact, OneEntryPerName
<1>3. PendingLive'
  BY DEF TableInv, PendingLive, Live
<1>4. ArmingTarget'
  BY DEF TableInv, ArmingTarget, Target, Matches, Live
<1>5. RegsFresh'
  <2>1. regs \in Nat
    BY DEF TypeOK, Regs
  <2> QED BY <2>1 DEF TableInv, RegsFresh, Live
<1> QED BY <1>2, <1>3, <1>4, <1>5 DEF TableInv

\* Flags change, bindings do not.
LEMMA KeptTable ==
    ASSUME TableInv, step' # "arming",
           \A i \in Idx : /\ entries'[i].name = entries[i].name
                          /\ entries'[i].reg = entries[i].reg
                          /\ entries'[i].pending => entries[i].pending \/ Live(i),
           UNCHANGED <<activeCount, done, regs>>
    PROVE  TableInv'
<1>1. LiveIdx' = LiveIdx /\ \A i \in Idx : Live(i)' <=> Live(i)
  BY DEF LiveIdx, Live
<1>2. ActiveCountExact'
  BY <1>1 DEF TableInv, ActiveCountExact
<1>3. OneEntryPerName'
  BY <1>1 DEF TableInv, OneEntryPerName, LiveIdx
<1>4. PendingLive'
  BY <1>1 DEF TableInv, PendingLive
<1>5. ArmingTarget'
  BY DEF ArmingTarget
<1>6. RegsFresh'
  BY <1>1 DEF TableInv, RegsFresh
<1> QED BY <1>2, <1>3, <1>4, <1>5, <1>6 DEF TableInv

\* A live binding leaves the table, and at most its own registration is done.
LEMMA FreedEntry ==
    ASSUME TypeOK, TableInv, step' # "arming", NEW i \in Idx, Live(i), NEW e \in Entries,
           e.name = None, ~e.pending,
           entries' = [entries EXCEPT ![i] = e], activeCount' = activeCount - 1,
           done' \subseteq done \cup {entries[i].reg}, regs' = regs
    PROVE  TableInv'
<1>1. entries'[i] = e /\ \A j \in Idx : j # i => entries'[j] = entries[j]
  BY DEF TypeOK
<1>2. ~Live(i)' /\ \A j \in Idx : j # i => (Live(j)' <=> Live(j))
  BY <1>1 DEF Live
<1>3. LiveIdx' = LiveIdx \ {i} /\ i \in LiveIdx
  BY <1>2 DEF LiveIdx
<1>4. ActiveCountExact'
  <2>1. IsFiniteSet(LiveIdx)
    BY IdxFinite DEF LiveIdx
  <2>2. Cardinality(LiveIdx') = Cardinality(LiveIdx) - 1
    BY <1>3, <2>1, FS_RemoveElement
  <2> QED BY <2>2 DEF TableInv, ActiveCountExact
<1>5. OneEntryPerName'
  BY <1>1, <1>3 DEF TableInv, OneEntryPerName, LiveIdx
<1>6. PendingLive'
  BY <1>1, <1>2 DEF TableInv, PendingLive
<1>7. ArmingTarget'
  BY DEF ArmingTarget
<1>8. RegsFresh'
  <2>1. done' \subseteq 1 .. regs'
    BY DEF TableInv, RegsFresh
  <2>2. ASSUME NEW j \in Idx, Live(j)'
        PROVE  entries'[j].reg \in 1 .. regs' /\ entries'[j].reg \notin done'
    <3>1. j # i /\ Live(j) /\ entries'[j].reg = entries[j].reg
      BY <1>1, <1>2, <2>2
    <3>2. entries[j].reg # entries[i].reg
      BY <3>1 DEF TableInv, RegsFresh
    <3> QED BY <3>1, <3>2 DEF TableInv, RegsFresh
  <2>3. \A j, k \in Idx : Live(j)' /\ Live(k)' /\ entries'[j].reg = entries'[k].reg => j = k
    BY <1>1, <1>2 DEF TableInv, RegsFresh
  <2> QED BY <2>1, <2>2, <2>3 DEF RegsFresh
<1> QED BY <1>4, <1>5, <1>6, <1>7, <1>8 DEF TableInv

\* The whole table is freed.
LEMMA FreedTable ==
    ASSUME TypeOK, TableInv, entries' = [i \in Idx |-> FreeEntry(0)], activeCount' = 0,
           UNCHANGED <<done, regs>>, step' # "arming"
    PROVE  TableInv'
<1>1. \A i \in Idx : ~Live(i)' /\ ~entries'[i].pending
  BY FreeEntryType DEF Live
<1>2. LiveIdx' = {}
  BY <1>1 DEF LiveIdx
<1>3. ActiveCountExact'
  BY <1>2, FS_EmptySet DEF ActiveCountExact
<1>4. OneEntryPerName' /\ PendingLive'
  BY <1>1, <1>2 DEF OneEntryPerName, PendingLive
<1>5. ArmingTarget' /\ RegsFresh'
  BY <1>1 DEF TableInv, ArmingTarget, RegsFresh
<1> QED BY <1>3, <1>4, <1>5 DEF TableInv

\* The registration under way is recorded.
LEMMA RecordedTable ==
    ASSUME TypeOK, TableInv, Record
    PROVE  TableInv' /\ Recorded \in Entries /\ Recorded.reg = regs
           /\ arming.idx \in Idx /\ Counted \in 0 .. BindingCount
<1>0. PICK i \in Idx, name \in Names : i = arming.idx /\ name = arming.name
  BY DEF Record, TableInv, ArmingTarget, TypeOK, Armings
<1>1. Target(name, i) /\ name # None
  BY <1>0, NamesAssumption DEF Record, TableInv, ArmingTarget
<1>2. Recorded \in Entries /\ Recorded.name = name /\ Recorded.reg = regs
      /\ Recorded.pending = FALSE
  <2>1. entries[i].gen + 1 \in Nat
    BY EntryFields DEF TypeOK
  <2>2. NoOrigin \in Origins /\ 0 \in Ms
    BY DEF NoOrigin, Origins, Regs, Ms, Epochs
  <2>3. arming.debounce \in Debounces \cup {0} /\ regs \in Regs /\ now \in Ms
        /\ program \in Epochs
    BY DEF TypeOK, Armings
  <2> QED BY <1>0, <1>1, <2>1, <2>2, <2>3 DEF Recorded, Entries
<1>3. entries' = [entries EXCEPT ![i] = Recorded] /\ step' = "ready" /\ step = "arming"
      /\ done' = done /\ regs' = regs /\ activeCount' = Counted
  BY <1>0 DEF Record, round
<1>4. entries'[i] = Recorded /\ \A j \in Idx : j # i => entries'[j] = entries[j]
  BY <1>1, <1>3 DEF TypeOK
<1>5. Live(i)' /\ \A j \in Idx : j # i => (Live(j)' <=> Live(j))
  BY <1>1, <1>2, <1>4 DEF Live
<1>6. LiveIdx' = LiveIdx \cup {i}
  BY <1>1, <1>5 DEF LiveIdx
<1>7. ActiveCountExact' /\ Counted \in 0 .. BindingCount
  <2>0. IsFiniteSet(LiveIdx)
    BY IdxFinite DEF LiveIdx
  <2>1. Cardinality(LiveIdx') = IF i \in LiveIdx THEN Cardinality(LiveIdx)
                                ELSE Cardinality(LiveIdx) + 1
    BY <1>6, <2>0, FS_AddElement
  <2>2. i \in LiveIdx <=> Live(i)
    BY <1>1 DEF LiveIdx
  <2>3. Cardinality(LiveIdx) \in Nat /\ activeCount = Cardinality(LiveIdx)
    BY IdxFinite DEF LiveIdx, TableInv, ActiveCountExact
  <2>4. Counted = Cardinality(LiveIdx')
    BY <1>0, <2>1, <2>2, <2>3 DEF Counted
  <2>5. Cardinality(LiveIdx') \in 0 .. BindingCount
    <3>1. LiveIdx' \in SUBSET Idx
      BY <1>1, <1>6 DEF LiveIdx
    <3> QED BY <3>1, IdxFinite
  <2> QED BY <1>3, <2>4, <2>5 DEF ActiveCountExact
<1>8. OneEntryPerName'
  <2>1. ASSUME NEW j \in Idx, j # i, Live(j)
        PROVE  entries[j].name # name
    BY <1>1, <2>1 DEF Target, Matches, TableInv, OneEntryPerName, LiveIdx, Live
  <2>2. entries'[i].name = name /\ \A j \in Idx : j # i => entries'[j].name = entries[j].name
    BY <1>2, <1>4
  <2>3. \A j, k \in Idx : Live(j)' /\ Live(k)' /\ entries'[j].name = entries'[k].name => j = k
    BY <1>1, <1>5, <2>1, <2>2 DEF TableInv, OneEntryPerName, LiveIdx
  <2> QED BY <2>3 DEF OneEntryPerName, LiveIdx
<1>9. PendingLive'
  BY <1>2, <1>4, <1>5 DEF TableInv, PendingLive
<1>10. ArmingTarget'
  BY <1>3 DEF ArmingTarget
<1>11. RegsFresh'
  <2>1. entries'[i].reg = regs /\ \A j \in Idx : j # i => entries'[j].reg = entries[j].reg
    BY <1>2, <1>4
  <2>2. done \subseteq 1 .. regs /\ regs \in 1 .. regs /\ regs \notin done
    BY <1>3 DEF TableInv, RegsFresh
  <2>3. \A j \in Idx : Live(j) => entries[j].reg \in 1 .. regs /\ entries[j].reg \notin done
                                  /\ entries[j].reg # regs
    BY <1>3 DEF TableInv, RegsFresh
  <2>4. \A j, k \in Idx : Live(j) /\ Live(k) /\ entries[j].reg = entries[k].reg => j = k
    BY DEF TableInv, RegsFresh
  <2> QED BY <1>3, <1>5, <2>1, <2>2, <2>3, <2>4 DEF RegsFresh
<1> QED BY <1>0, <1>2, <1>7, <1>8, <1>9, <1>10, <1>11 DEF TableInv

\* The one round on the stack.
LEMMA OneRound ==
    ASSUME TypeOK, NoNesting, stack # <<>>
    PROVE  /\ Len(stack) = 1 /\ Top \in Frames
           /\ \A f \in Frames : /\ WithTop(f) \in Seq(Frames) /\ Len(WithTop(f)) = 1
                                /\ WithTop(f)[1] = f /\ WithTop(f) # <<>>
           /\ SubSeq(stack, 1, Len(stack) - 1) = <<>>
<1>1. stack \in Seq(Frames) /\ Len(stack) = 1
  <2>1. stack \in Seq(Frames) /\ Len(stack) <= 1
    BY DEF TypeOK, NoNesting
  <2>2. Len(stack) \in Nat /\ Len(stack) # 0
    BY <2>1, EmptySeq
  <2>3. \A n \in Nat : n # 0 /\ n <= 1 => n = 1
    OBVIOUS
  <2>4. Len(stack) = 1
    BY <2>1, <2>2, <2>3
  <2> QED BY <2>1, <2>4
<1>2. Top \in Frames
  BY <1>1, ElementOfSeq DEF Top
<1>3. ASSUME NEW f \in Frames
      PROVE  /\ WithTop(f) \in Seq(Frames) /\ Len(WithTop(f)) = 1
             /\ WithTop(f)[1] = f /\ WithTop(f) # <<>>
  BY <1>1, ExceptSeq, EmptySeq DEF WithTop
<1>4. SubSeq(stack, 1, Len(stack) - 1) = <<>>
  BY <1>1, SubSeqEmpty
<1> QED BY <1>1, <1>2, <1>3, <1>4

(***************************************************************************)
(* Every step preserves the invariant.                                     *)
(***************************************************************************)
\* The invariant holds in the empty table.
LEMMA InitInv == Init => IInv
<1> SUFFICES ASSUME Init PROVE IInv
  OBVIOUS
<1>1. 0 \in Ms /\ 0 \in Regs /\ 0 \in Epochs /\ 0 \in 0 .. MaxFaults
  BY DEF Ms, Regs, Epochs
<1>2. \A i \in Idx : FreeEntry(0) \in Entries /\ ~Live(i) /\ ~entries[i].pending
  BY FreeEntryType DEF Init, Live
<1>3. NoArming \in Armings /\ 1 \in Idx
  BY DEF NoArming, Armings, Idx
<1>4. TypeOK
  <2>1. queue \in Seq(Candidates) /\ batch \in Seq(Candidates) /\ stack \in Seq(Frames)
        /\ Len(queue) <= QueueDepth /\ Len(batch) <= BindingCount
    BY EmptySeq DEF Init
  <2>2. entries \in [Idx -> Entries] /\ armed \in [Ports -> Handlers \cup {None}]
    BY <1>2 DEF Init
  <2>3. result \in [err : Errs, faulted : BOOLEAN]
    BY DEF Init, Errs
  <2>4. step = "ready" /\ mode = "prompt" /\ arming = NoArming /\ faults = 0 /\ now = 0
        /\ leaked = {} /\ todo = {} /\ saved = {} /\ done = {} /\ regs = 0 /\ epoch = 0
        /\ program = 0 /\ overflow = 0 /\ unreported = 0 /\ drops = 0 /\ shown = 0
        /\ dispatching = FALSE /\ interrupted = FALSE
    BY DEF Init
  <2>5. activeCount \in 0 .. BindingCount
    BY DEF Init
  <2>6. regs \in Regs /\ epoch \in Epochs /\ program \in Epochs /\ now \in Ms
        /\ faults \in 0 .. MaxFaults /\ arming \in Armings
    BY <1>1, <1>3, <2>4
  <2>7. overflow \in Nat /\ unreported \in Nat /\ drops \in Nat /\ shown \in Nat
    BY <2>4
  <2>8. leaked \subseteq Handlers /\ todo \subseteq Bindings /\ saved \subseteq Bindings
        /\ done \subseteq Regs
    BY <2>4
  <2>9. step \in {"ready", "arming", "draining"} /\ mode \in {"prompt", "program", "restoring"}
        /\ dispatching \in BOOLEAN /\ interrupted \in BOOLEAN
    BY <2>4
  <2> QED BY <2>1, <2>2, <2>3, <2>5, <2>6, <2>7, <2>8, <2>9 DEF TypeOK
<1>5. NoNesting
  BY EmptySeq DEF Init, NoNesting
<1>6. LiveIdx = {}
  BY <1>2 DEF LiveIdx
<1>7. ActiveCountExact /\ OneEntryPerName
  BY <1>6, FS_EmptySet DEF Init, ActiveCountExact, OneEntryPerName
<1>8. PendingLive /\ ArmingTarget /\ RegsFresh
  BY <1>2 DEF Init, PendingLive, ArmingTarget, RegsFresh
<1> QED BY <1>4, <1>5, <1>7, <1>8 DEF IInv, TableInv, Init, DropsAccounted

\* Interrupts, timers and the clock write neither the table nor the rounds.
LEMMA InterruptSteps ==
    ASSUME IInv, Tick \/ (\E p \in Ports : Fire(p)) \/ \E h \in leaked : LeakedFire(h)
    PROVE  IInv'
<1> USE DEF table, platform, notice, round, session
<1>1. CASE Tick
  <2>1. TypeOK'
    BY <1>1 DEF IInv, Tick, TypeOK, Ms
  <2>2. NoNesting' /\ DropsAccounted'
    BY <1>1 DEF IInv, Tick, NoNesting, DropsAccounted
  <2>3. TableInv'
    BY <1>1, SameTable DEF IInv, Tick
  <2> QED BY <2>1, <2>2, <2>3 DEF IInv
<1>2. ASSUME NEW p \in Ports, Fire(p) PROVE IInv'
  <2>1. armed[p] \in Handlers
    BY <1>2 DEF IInv, TypeOK, Fire
  <2>2. /\ queue' \in Seq(Candidates) /\ Len(queue') <= QueueDepth
        /\ overflow' \in Nat /\ drops' \in Nat
        /\ drops' = drops + (overflow' - overflow)
    BY <1>2, <2>1, EnqueueKeeps DEF IInv, Fire
  <2>3. armed' \in [Ports -> Handlers \cup {None}]
    <3>1. Fired(armed[p]) \in Handlers
      BY <2>1, StoppedType
    <3>2. armed' = [armed EXCEPT ![p] = Fired(armed[p])]
      BY <1>2 DEF Fire
    <3>3. armed \in [Ports -> Handlers \cup {None}]
      BY DEF IInv, TypeOK
    <3> QED BY <3>1, <3>2, <3>3
  <2>4. TypeOK'
    BY <1>2, <2>2, <2>3 DEF IInv, Fire, TypeOK
  <2>5. NoNesting'
    BY <1>2 DEF IInv, Fire, NoNesting
  <2>6. DropsAccounted'
    <3>1. drops = shown + unreported + overflow
      BY DEF IInv, DropsAccounted
    <3>2. drops \in Nat /\ shown \in Nat /\ unreported \in Nat /\ overflow \in Nat
      BY DEF IInv, TypeOK
    <3>3. shown' = shown /\ unreported' = unreported
      BY <1>2 DEF Fire
    <3>4. drops' \in Nat /\ overflow' \in Nat /\ drops' = drops + (overflow' - overflow)
      BY <2>2
    <3>5. drops' = shown + unreported + overflow'
      BY <3>1, <3>2, <3>4, Balance
    <3> QED BY <3>3, <3>5 DEF DropsAccounted
  <2>7. TableInv'
    BY <1>2, SameTable DEF IInv, Fire
  <2> QED BY <2>4, <2>5, <2>6, <2>7 DEF IInv
<1>3. ASSUME NEW h \in leaked, LeakedFire(h) PROVE IInv'
  <2>1. h \in Handlers
    BY DEF IInv, TypeOK
  <2>2. /\ queue' \in Seq(Candidates) /\ Len(queue') <= QueueDepth
        /\ overflow' \in Nat /\ drops' \in Nat
        /\ drops' = drops + (overflow' - overflow)
    BY <1>3, <2>1, EnqueueKeeps DEF IInv, LeakedFire
  <2>3. TypeOK'
    BY <1>3, <2>2 DEF IInv, LeakedFire, TypeOK
  <2>4. NoNesting'
    BY <1>3 DEF IInv, LeakedFire, NoNesting
  <2>5. DropsAccounted'
    <3>1. drops = shown + unreported + overflow
      BY DEF IInv, DropsAccounted
    <3>2. drops \in Nat /\ shown \in Nat /\ unreported \in Nat /\ overflow \in Nat
      BY DEF IInv, TypeOK
    <3>3. shown' = shown /\ unreported' = unreported
      BY <1>3 DEF LeakedFire
    <3>4. drops' \in Nat /\ overflow' \in Nat /\ drops' = drops + (overflow' - overflow)
      BY <2>2
    <3>5. drops' = shown + unreported + overflow'
      BY <3>1, <3>2, <3>4, Balance
    <3> QED BY <3>3, <3>5 DEF DropsAccounted
  <2>6. TableInv'
    BY <1>3, SameTable DEF IInv, LeakedFire
  <2> QED BY <2>3, <2>4, <2>5, <2>6 DEF IInv
<1> QED BY <1>1, <1>2, <1>3

\* An armed registration, from user code or from a restore.
LEMMA ArmStep ==
    ASSUME IInv, NEW name \in Names, NEW debounce \in Debounces \cup {0},
           Arm(name, debounce),
           mode' \in {"prompt", "program", "restoring"}, todo' \subseteq Bindings,
           UNCHANGED <<saved, interrupted, program, epoch>>
    PROVE  IInv'
<1> USE DEF table, platform, notice, round, session
<1>1. /\ armed' \in [Ports -> Handlers \cup {None}] /\ leaked' \subseteq Handlers
      /\ arming' \in Armings /\ arming'.name = name
      /\ Target(name, arming'.idx)
      /\ regs' \in Regs /\ regs' = regs + 1
      /\ faults' \in 0 .. MaxFaults
  BY ArmKeeps DEF IInv
<1>2. /\ step' = "arming"
      /\ UNCHANGED <<table, queue, overflow, notice, now, batch, round>>
  BY DEF Arm
<1>3. TypeOK'
  BY <1>1, <1>2 DEF IInv, TypeOK
<1>4. NoNesting' /\ DropsAccounted'
  BY <1>2 DEF IInv, NoNesting, DropsAccounted
<1>5. TableInv'
  BY <1>1, <1>2, ArmedTable DEF IInv
<1> QED BY <1>3, <1>4, <1>5 DEF IInv

\* Registering, cancelling and their failures.
LEMMA UserSteps ==
    ASSUME IInv,
           \/ \E name \in Names : \E debounce \in DebounceOf(name) : Register(name, debounce)
           \/ Record
           \/ \E name \in Names : Cancel(name)
           \/ \E i \in Idx : CallFails(i)
    PROVE  IInv'
<1> USE DEF table, platform, notice, round, session
<1>1. ASSUME NEW name \in Names, NEW debounce \in DebounceOf(name), Register(name, debounce)
      PROVE  IInv'
  <2>1. debounce \in Debounces \cup {0}
    BY DEF DebounceOf
  <2>2. Arm(name, debounce) /\ UNCHANGED <<mode, todo, saved, interrupted, program, epoch>>
    BY <1>1 DEF Register
  <2>3. mode' \in {"prompt", "program", "restoring"} /\ todo' \subseteq Bindings
    BY <2>2 DEF IInv, TypeOK
  <2> QED BY <2>1, <2>2, <2>3, ArmStep
<1>2. CASE Record
  <2>1. TableInv' /\ Recorded \in Entries /\ Recorded.reg = regs
        /\ arming.idx \in Idx /\ Counted \in 0 .. BindingCount
    BY <1>2, RecordedTable DEF IInv
  <2>2. NoArming \in Armings
    BY DEF NoArming, Armings, Idx
  <2>3. entries' \in [Idx -> Entries]
    BY <1>2, <2>1 DEF IInv, TypeOK, Record
  <2>4. TypeOK'
    BY <1>2, <2>1, <2>2, <2>3 DEF IInv, TypeOK, Record
  <2>5. NoNesting' /\ DropsAccounted'
    BY <1>2 DEF IInv, Record, NoNesting, DropsAccounted
  <2> QED BY <2>1, <2>4, <2>5 DEF IInv
<1>3. ASSUME NEW name \in Names, Cancel(name) PROVE IInv'
  <2>1. PICK i \in Matches(name) :
          /\ armed' = [armed EXCEPT ![Port(name, i)] = None]
          /\ entries' = [entries EXCEPT ![i] = FreeEntry(@.gen + 1)]
    BY <1>3 DEF Cancel
  <2>2. i \in Idx /\ entries[i].name = name /\ Live(i)
    BY NamesAssumption DEF Matches, Live
  <2> DEFINE e == FreeEntry(entries[i].gen + 1)
  <2>3. e \in Entries /\ e.name = None /\ ~e.pending
    <3>1. entries[i].gen + 1 \in Nat
      BY <2>2, EntryFields DEF IInv, TypeOK
    <3> QED BY <3>1, FreeEntryType
  <2>4. entries' = [entries EXCEPT ![i] = e] /\ activeCount' = activeCount - 1
        /\ UNCHANGED <<done, regs, step>> /\ step = "ready"
    BY <1>3, <2>1 DEF Cancel, Running
  <2> HIDE DEF e
  <2>5. TableInv'
    BY <2>2, <2>3, <2>4, FreedEntry DEF IInv
  <2>6. activeCount' \in 0 .. BindingCount
    BY <2>5, IdxFinite DEF TableInv, ActiveCountExact, LiveIdx
  <2>7. entries' \in [Idx -> Entries] /\ armed' \in [Ports -> Handlers \cup {None}]
    BY <2>1, <2>2, <2>3, <2>4 DEF IInv, TypeOK
  <2>8. TypeOK'
    BY <1>3, <2>6, <2>7 DEF IInv, TypeOK, Cancel
  <2>9. NoNesting' /\ DropsAccounted'
    BY <1>3 DEF IInv, Cancel, NoNesting, DropsAccounted
  <2> QED BY <2>5, <2>8, <2>9 DEF IInv
<1>4. ASSUME NEW i \in Idx, CallFails(i) PROVE IInv'
  <2> DEFINE p == Port(entries[i].name, i)
  <2>1. entries[i].name \in Names
    BY <1>4, EntryFields DEF IInv, TypeOK, CallFails, Live
  <2>2. p \in Ports
    BY <2>1, PortType
  <2>3. armed' \in [Ports -> Handlers \cup {None}]
    <3>1. armed \in [Ports -> Handlers \cup {None}]
      BY DEF IInv, TypeOK
    <3> DEFINE h == armed[p]
               g == [h EXCEPT !.stopped = TRUE]
    <3>2. \/ armed' = [armed EXCEPT ![p] = None]
          \/ h # None /\ armed' = [armed EXCEPT ![p] = g]
      BY <1>4 DEF CallFails
    <3>3. h # None => g \in Handlers
      BY <2>2, <3>1, StoppedType
    <3> HIDE DEF g
    <3> QED BY <2>2, <3>1, <3>2, <3>3
  <2>4. TypeOK'
    BY <1>4, <2>3 DEF IInv, TypeOK, CallFails
  <2>5. NoNesting' /\ DropsAccounted'
    BY <1>4 DEF IInv, CallFails, NoNesting, DropsAccounted
  <2>6. TableInv'
    BY <1>4, SameTable DEF IInv, CallFails
  <2> QED BY <2>4, <2>5, <2>6 DEF IInv
<1> QED BY <1>1, <1>2, <1>3, <1>4

\* The drain and the start of a round.
LEMMA DrainSteps ==
    ASSUME IInv, SafePoint \/ IdleService \/ Accept \/ Dispatch
    PROVE  IInv'
<1> USE DEF table, platform, notice, round, session
<1>1. CASE TakeBatch
  <2> DEFINE count == IF Len(queue) < BindingCount THEN Len(queue) ELSE BindingCount
  <2>1. queue \in Seq(Candidates) /\ Len(queue) <= QueueDepth /\ Len(queue) \in Nat
    BY LenProperties DEF IInv, TypeOK
  <2>2. count \in Nat /\ count <= BindingCount /\ count <= Len(queue)
    BY <2>1
  <2>3. batch' = SubSeq(queue, 1, count) /\ queue' = SubSeq(queue, count + 1, Len(queue))
    BY <1>1 DEF TakeBatch
  <2> HIDE DEF count
  <2>4. \A k \in 1 .. Len(queue) : queue[k] \in Candidates
    BY <2>1, ElementOfSeq
  <2>5. batch' \in Seq(Candidates) /\ Len(batch') = count
    <3>1. \A k \in 1 .. count : queue[k] \in Candidates
      BY <2>1, <2>2, <2>4
    <3>2. count \in Int /\ (1 <= count => count - 1 + 1 = count) /\ (~(1 <= count) => count = 0)
      BY <2>2
    <3>3. /\ SubSeq(queue, 1, count) \in Seq(Candidates)
          /\ Len(SubSeq(queue, 1, count)) = IF 1 <= count THEN count - 1 + 1 ELSE 0
      BY <3>1, <3>2, SubSeqProperties
    <3> QED BY <2>3, <3>2, <3>3
  <2>6. queue' \in Seq(Candidates) /\ Len(queue') <= QueueDepth
    <3> DEFINE n == Len(queue)
    <3>1. count + 1 \in Int /\ n \in Int /\ \A k \in count + 1 .. n : queue[k] \in Candidates
      BY <2>1, <2>2, <2>4
    <3>2. /\ SubSeq(queue, count + 1, n) \in Seq(Candidates)
          /\ Len(SubSeq(queue, count + 1, n)) =
               IF count + 1 <= n THEN n - (count + 1) + 1 ELSE 0
      BY <3>1, SubSeqProperties
    <3>3. (IF count + 1 <= n THEN n - (count + 1) + 1 ELSE 0) <= QueueDepth
      BY <2>1, <2>2
    <3> HIDE DEF n
    <3>4. queue' = SubSeq(queue, count + 1, n)
      BY <2>3 DEF n
    <3> QED BY <3>2, <3>3, <3>4
  <2>7. Len(batch') <= BindingCount
    BY <2>2, <2>5
  <2>8. TypeOK'
    <3>1. overflow' \in Nat /\ unreported' \in Nat
      BY <1>1 DEF IInv, TypeOK, TakeBatch, OverflowLeft
    <3> QED BY <1>1, <2>5, <2>6, <2>7, <3>1 DEF IInv, TypeOK, TakeBatch
  <2>9. NoNesting'
    BY <1>1 DEF IInv, TakeBatch, NoNesting
  <2>10. DropsAccounted'
    <3>1. drops = shown + unreported + overflow
      BY DEF IInv, DropsAccounted
    <3>2. shown \in Nat /\ unreported \in Nat /\ overflow \in Nat
      BY DEF IInv, TypeOK
    <3>3. drops' = drops /\ shown' = shown /\ unreported' = unreported + overflow /\ overflow' = 0
      BY <1>1 DEF TakeBatch, OverflowLeft
    <3> QED BY <3>1, <3>2, <3>3 DEF DropsAccounted
  <2>11. TableInv'
    BY <1>1, SameTable DEF IInv, TakeBatch
  <2> QED BY <2>8, <2>9, <2>10, <2>11 DEF IInv
<1>2. CASE Accept
  <2> DEFINE c == Head(batch)
             i == c.idx
             e == Marked(entries[i], c)
  <2>1. batch \in Seq(Candidates) /\ batch # <<>> /\ Len(batch) <= BindingCount
    BY <1>2 DEF IInv, TypeOK, Accept
  <2>2. c \in Candidates /\ Tail(batch) \in Seq(Candidates) /\ Len(Tail(batch)) = Len(batch) - 1
        /\ Len(batch) \in Nat
    BY <2>1, HeadTailProperties, LenProperties
  <2>3. i \in Idx
    BY <2>2 DEF Candidates
  <2>4. entries \in [Idx -> Entries] /\ entries' = [entries EXCEPT ![i] = e] /\ batch' = Tail(batch)
    BY <1>2 DEF IInv, TypeOK, Accept
  <2>5. entries[i] \in Entries
    BY <2>3, <2>4
  <2>6. /\ e \in Entries
        /\ e.name = entries[i].name /\ e.reg = entries[i].reg
        /\ e.pending => entries[i].pending \/ entries[i].name # None
    BY <2>2, <2>5, MarkedEntry
  <2> HIDE DEF c, i, e
  <2>7. entries' \in [Idx -> Entries]
    BY <2>3, <2>4, <2>6
  <2>8. \A j \in Idx : /\ entries'[j].name = entries[j].name
                       /\ entries'[j].reg = entries[j].reg
                       /\ entries'[j].pending => entries[j].pending \/ Live(j)
    BY <2>3, <2>4, <2>6 DEF Live
  <2>9. Len(batch') <= BindingCount
    BY <2>1, <2>2, <2>4
  <2>10. TypeOK'
    BY <1>2, <2>2, <2>4, <2>7, <2>9 DEF IInv, TypeOK, Accept
  <2>11. NoNesting' /\ DropsAccounted'
    BY <1>2 DEF IInv, Accept, NoNesting, DropsAccounted
  <2>12. TableInv'
    BY <1>2, <2>8, KeptTable DEF IInv, Accept
  <2> QED BY <2>10, <2>11, <2>12 DEF IInv
<1>3. CASE Dispatch
  <2>1. stack' \in Seq(Frames) /\ NoNesting' /\ dispatching' \in BOOLEAN
    <3>1. CASE dispatching
      BY <1>3, <3>1 DEF Dispatch, Nested, IInv, TypeOK, NoNesting
    <3>2. CASE ~dispatching
      <4>1. stack = <<>> /\ stack' = Append(stack, NewFrame) /\ dispatching' = TRUE
        BY <1>3, <3>2 DEF Dispatch, Nested, IInv, NoNesting
      <4>2. stack' \in Seq(Frames) /\ Len(stack') = 1
        <5>1. <<>> \in Seq(Frames) /\ Len(<<>>) = 0 /\ NewFrame \in Frames
          BY EmptySeq, FrameTypes
        <5>2. Append(<<>>, NewFrame) \in Seq(Frames) /\ Len(Append(<<>>, NewFrame)) = 0 + 1
          BY <5>1, AppendProperties
        <5> QED BY <4>1, <5>2
      <4>3. stack' # <<>>
        BY <4>2, EmptySeq
      <4> QED BY <4>1, <4>2, <4>3 DEF NoNesting
    <3> QED BY <3>1, <3>2 DEF IInv, TypeOK
  <2>2. shown \in Nat /\ unreported \in Nat /\ overflow \in Nat
    BY DEF IInv, TypeOK
  <2>3. shown' = shown + unreported /\ unreported' = 0 /\ drops' = drops /\ overflow' = overflow
    BY <1>3 DEF Dispatch
  <2>4. TypeOK'
    <3>1. shown' \in Nat /\ unreported' \in Nat
      BY <2>2, <2>3
    <3> QED BY <1>3, <2>1, <3>1 DEF IInv, TypeOK, Dispatch
  <2>5. DropsAccounted'
    <3>1. drops = shown + unreported + overflow
      BY DEF IInv, DropsAccounted
    <3> QED BY <2>2, <2>3, <3>1 DEF DropsAccounted
  <2>6. TableInv'
    BY <1>3, SameTable DEF IInv, Dispatch
  <2> QED BY <2>1, <2>4, <2>5, <2>6 DEF IInv
<1> QED BY <1>1, <1>2, <1>3 DEF SafePoint, IdleService

\* A body starts: its entry is taken and is the round's.
LEMMA StartBodyStep ==
    ASSUME IInv, NEW i \in Idx, StartBody(i)
    PROVE  IInv' /\ Live(i) /\ Len(stack) = 1 /\ stack' # stack
           /\ stack'[1].body = entries[i].reg
<1> USE DEF table, platform, notice, round, session
<1>1. stack # <<>> /\ step = "ready" /\ Top.body = 0 /\ entries[i].pending
  BY DEF StartBody, InRound, Pending
<1>2. Live(i)
  BY <1>1 DEF IInv, TableInv, PendingLive
<1>3. /\ Len(stack) = 1 /\ Top \in Frames
      /\ \A f \in Frames : /\ WithTop(f) \in Seq(Frames) /\ Len(WithTop(f)) = 1
                           /\ WithTop(f)[1] = f /\ WithTop(f) # <<>>
  BY <1>1, OneRound DEF IInv
<1> DEFINE f == [Top EXCEPT !.next = Afterwards(i), !.body = entries[i].reg,
                            !.origin = entries[i].origin]
<1>4. entries \in [Idx -> Entries] /\ entries[i] \in Entries
  BY DEF IInv, TypeOK
<1>5. f \in Frames /\ f.body = entries[i].reg
  <2>1. Afterwards(i) \in 1 .. BindingCount + 1
    BY DEF Afterwards, Idx
  <2>2. entries[i].reg \in Regs /\ entries[i].origin \in Origins
    BY <1>4, EntryFields
  <2>3. f \in Frames
    BY <1>3, <2>1, <2>2, FrameTypes
  <2>4. f.body = entries[i].reg
    BY <1>3 DEF Frames
  <2> QED BY <2>3, <2>4
<1>6. stack' = WithTop(f)
  BY DEF StartBody
<1> HIDE DEF f
<1>7. stack' \in Seq(Frames) /\ Len(stack') = 1 /\ stack'[1] = f /\ stack' # <<>>
  BY <1>3, <1>5, <1>6
<1>8. /\ Taken(i) \in Entries /\ ~Taken(i).pending
      /\ entries[i].name \in Afters => Taken(i).name = None /\ Taken(i).reg = 0
      /\ entries[i].name \notin Afters =>
           Taken(i).name = entries[i].name /\ Taken(i).reg = entries[i].reg
  BY <1>4, TakenEntry
<1>9. entries' = [entries EXCEPT ![i] = Taken(i)] /\ step' = "ready" /\ regs' = regs
  BY <1>1 DEF StartBody
<1>10. TableInv' /\ done' \subseteq Regs
       /\ activeCount' \in 0 .. BindingCount /\ armed' \in [Ports -> Handlers \cup {None}]
  <2>1. CASE entries[i].name \in Afters
    <3>1. activeCount' = activeCount - 1 /\ done' = done \cup {entries[i].reg}
          /\ armed' = [armed EXCEPT ![i] = None]
      BY <2>1 DEF StartBody
    <3>2. TableInv'
      BY <1>2, <1>8, <1>9, <2>1, <3>1, FreedEntry DEF IInv
    <3>3. activeCount' \in 0 .. BindingCount
      BY <3>2, IdxFinite DEF TableInv, ActiveCountExact, LiveIdx
    <3>4. done' \subseteq Regs /\ armed' \in [Ports -> Handlers \cup {None}]
      BY <1>4, <3>1, EntryFields DEF IInv, TypeOK
    <3> QED BY <3>2, <3>3, <3>4
  <2>2. CASE entries[i].name \notin Afters
    <3>1. UNCHANGED <<activeCount, armed, done>>
      BY <2>2 DEF StartBody
    <3>2. \A j \in Idx : /\ entries'[j].name = entries[j].name
                         /\ entries'[j].reg = entries[j].reg
                         /\ entries'[j].pending => entries[j].pending \/ Live(j)
      BY <1>4, <1>8, <1>9, <2>2
    <3>3. TableInv'
      BY <1>9, <3>1, <3>2, KeptTable DEF IInv
    <3> QED BY <3>1, <3>3 DEF IInv, TypeOK
  <2> QED BY <2>1, <2>2
<1>11. TypeOK'
  <2>1. entries' \in [Idx -> Entries]
    BY <1>4, <1>8, <1>9
  <2> QED BY <1>7, <1>10, <2>1 DEF IInv, TypeOK, StartBody
<1>12. NoNesting' /\ DropsAccounted'
  <2>1. dispatching' = dispatching /\ dispatching
    BY <1>1 DEF StartBody, IInv, NoNesting
  <2>2. NoNesting'
    BY <1>7, <2>1 DEF NoNesting
  <2>3. DropsAccounted'
    BY DEF IInv, StartBody, DropsAccounted
  <2> QED BY <2>2, <2>3
<1>13. stack' # stack
  <2>1. entries[i].reg \in 1 .. regs /\ regs \in Nat
    BY <1>2 DEF IInv, TableInv, RegsFresh, TypeOK, Regs
  <2>2. stack[1].body = 0
    BY <1>1, <1>3 DEF Top
  <2>3. stack'[1].body = entries[i].reg
    BY <1>5, <1>7
  <2> QED BY <2>1, <2>2, <2>3
<1> QED BY <1>2, <1>3, <1>5, <1>7, <1>10, <1>11, <1>12, <1>13 DEF IInv

\* A body ends, or the round does.
LEMMA RoundSteps ==
    ASSUME IInv,
           \/ \E i \in Idx : StartBody(i)
           \/ \E err \in Errs : EndBody(err)
           \/ EndRound \/ BreakRound
    PROVE  IInv'
<1> USE DEF table, platform, notice, round, session
<1>1. ASSUME NEW i \in Idx, StartBody(i) PROVE IInv'
  BY <1>1, StartBodyStep
<1>2. ASSUME NEW err \in Errs, EndBody(err) PROVE IInv'
  <2>1. stack # <<>>
    BY <1>2 DEF EndBody, InBody
  <2>2. /\ Len(stack) = 1 /\ Top \in Frames
        /\ \A f \in Frames : /\ WithTop(f) \in Seq(Frames) /\ Len(WithTop(f)) = 1
                             /\ WithTop(f) # <<>>
    BY <2>1, OneRound DEF IInv
  <2> DEFINE f == [Top EXCEPT !.body = 0, !.origin = NoOrigin,
                              !.err = FirstError(@, err),
                              !.faulted = @ \/ err = "fault"]
  <2>3. f \in Frames
    BY <2>2, FrameTypes
  <2>4. stack' = WithTop(f)
    BY <1>2 DEF EndBody
  <2> HIDE DEF f
  <2>5. stack' \in Seq(Frames) /\ Len(stack') = 1 /\ stack' # <<>>
    BY <2>2, <2>3, <2>4
  <2>6. TypeOK'
    BY <1>2, <2>5 DEF IInv, TypeOK, EndBody
  <2>7. NoNesting'
    <3>1. dispatching' = dispatching /\ dispatching
      BY <1>2, <2>1 DEF EndBody, IInv, NoNesting
    <3> QED BY <2>5, <3>1 DEF NoNesting
  <2>8. DropsAccounted'
    BY <1>2 DEF IInv, EndBody, DropsAccounted
  <2>9. TableInv'
    BY <1>2, SameTable DEF IInv, EndBody
  <2> QED BY <2>6, <2>7, <2>8, <2>9 DEF IInv
<1>3. ASSUME NEW err \in Errs, InRound, Return(err) PROVE IInv'
  <2>1. Top \in Frames /\ SubSeq(stack, 1, Len(stack) - 1) = <<>>
    BY <1>3, OneRound DEF IInv, InRound
  <2>2. stack' = <<>> /\ dispatching' = FALSE
    BY <1>3, <2>1 DEF Return, DispatchOver
  <2>3. result' \in [err : Errs, faulted : BOOLEAN]
    <3>1. Top.faulted \in BOOLEAN
      BY <2>1, FrameTypes
    <3> QED BY <1>3, <3>1 DEF Return
  <2>4. TypeOK'
    <3>1. stack' \in Seq(Frames)
      BY <2>2, EmptySeq
    <3>2. mode' \in {"prompt", "program", "restoring"}
      BY <1>3 DEF IInv, TypeOK, Return
    <3> QED BY <1>3, <2>2, <2>3, <3>1, <3>2 DEF IInv, TypeOK, Return
  <2>5. NoNesting'
    BY <2>2, EmptySeq DEF NoNesting
  <2>6. DropsAccounted'
    BY <1>3 DEF IInv, Return, DropsAccounted
  <2>7. TableInv'
    BY <1>3, SameTable DEF IInv, Return
  <2> QED BY <2>4, <2>5, <2>6, <2>7 DEF IInv
<1>4. InRound => Top.err \in Errs
  BY OneRound, FrameTypes DEF IInv, InRound
<1>5. CASE EndRound
  BY <1>3, <1>4, <1>5 DEF EndRound
<1>6. CASE BreakRound
  <2>1. "interrupted" \in Errs
    BY DEF Errs
  <2>2. \E err \in Errs : Return(err)
    BY <1>4, <1>6, <2>1 DEF BreakRound
  <2> QED BY <1>3, <1>6, <2>2 DEF BreakRound
<1> QED BY <1>1, <1>2, <1>5, <1>6

\* The prompt's commands.
LEMMA PromptSteps ==
    ASSUME IInv, \/ StartEval \/ EndEval \/ Interrupt
                 \/ Clear \/ Save \/ Restore \/ RestoreNext \/ RestoreFails \/ RestoreDone
    PROVE  IInv'
<1> USE DEF table, platform, notice, round, session
<1>1. ASSUME UNCHANGED <<table, platform, notice, now, step, arming, batch, round,
                         saved, epoch, regs, faults>>,
             mode' \in {"prompt", "program", "restoring"}, interrupted' \in BOOLEAN,
             todo' \subseteq Bindings, program' \in Epochs
      PROVE  IInv'
  <2>1. TypeOK'
    BY <1>1 DEF IInv, TypeOK
  <2>2. NoNesting' /\ DropsAccounted'
    BY <1>1 DEF IInv, NoNesting, DropsAccounted
  <2>3. TableInv'
    BY <1>1, SameTable DEF IInv
  <2> QED BY <2>1, <2>2, <2>3 DEF IInv
<1>2. ASSUME ClearTable, step = "ready",
             mode' \in {"prompt", "program", "restoring"}, interrupted' \in BOOLEAN,
             todo' \subseteq Bindings, saved' \subseteq Bindings, program' \in Epochs
      PROVE  IInv'
  <2>1. /\ entries' = [i \in Idx |-> FreeEntry(0)] /\ activeCount' = 0
        /\ armed' \in [Ports -> Handlers \cup {None}]
        /\ unreported' = 0 /\ drops' \in Nat /\ drops' = shown + overflow
        /\ epoch' \in Epochs /\ faults' \in 0 .. MaxFaults
        /\ UNCHANGED <<leaked, queue, overflow, shown, now, step, arming, batch,
                       round, regs>>
    BY <1>2, ClearKeeps DEF IInv
  <2>2. TypeOK'
    <3>1. entries' \in [Idx -> Entries]
      BY <2>1, FreeEntryType
    <3>2. activeCount' \in 0 .. BindingCount
      BY <2>1
    <3> QED BY <1>2, <2>1, <3>1, <3>2 DEF IInv, TypeOK
  <2>3. NoNesting'
    BY <2>1 DEF IInv, NoNesting
  <2>4. DropsAccounted'
    <3>1. shown \in Nat /\ overflow \in Nat
      BY DEF IInv, TypeOK
    <3> QED BY <2>1, <3>1 DEF DropsAccounted
  <2>5. TableInv'
    BY <1>2, <2>1, FreedTable DEF IInv
  <2> QED BY <2>2, <2>3, <2>4, <2>5 DEF IInv
<1>3. program < MaxEpochs => program + 1 \in Epochs
  BY DEF IInv, TypeOK, Epochs
<1>4. /\ mode \in {"prompt", "program", "restoring"} /\ interrupted \in BOOLEAN
      /\ todo \subseteq Bindings /\ saved \subseteq Bindings /\ program \in Epochs
  BY DEF IInv, TypeOK
<1>5. {BindingOf(i) : i \in LiveIdx} \subseteq Bindings
  <2>1. ASSUME NEW i \in LiveIdx PROVE BindingOf(i) \in Bindings
    <3>1. i \in Idx /\ entries[i] \in Entries /\ entries[i].name # None
      BY DEF LiveIdx, Live, IInv, TypeOK
    <3> QED BY <3>1 DEF BindingOf, Bindings, Entries
  <2> QED BY <2>1
<1>6. CASE StartEval
  BY <1>1, <1>4, <1>6 DEF StartEval
<1>7. CASE EndEval
  BY <1>1, <1>4, <1>7 DEF EndEval
<1>8. CASE Interrupt
  BY <1>1, <1>4, <1>8 DEF Interrupt
<1>9. CASE Clear
  BY <1>2, <1>4, <1>9 DEF Clear, AtPrompt
<1>10. CASE Save
  BY <1>2, <1>3, <1>4, <1>5, <1>10 DEF Save, AtPrompt
<1>11. CASE Restore
  BY <1>1, <1>3, <1>4, <1>11 DEF Restore
<1>12. CASE RestoreNext
  <2>1. PICK b \in todo : Arm(b.name, b.debounce) /\ todo' = todo \ {b}
    BY <1>12 DEF RestoreNext
  <2>2. b.name \in Names /\ b.debounce \in Debounces \cup {0}
    BY <1>4 DEF Bindings
  <2>3. UNCHANGED <<saved, interrupted, program, epoch>>
        /\ mode' \in {"prompt", "program", "restoring"} /\ todo' \subseteq Bindings
    BY <1>4, <1>12, <2>1 DEF RestoreNext
  <2> QED BY <2>1, <2>2, <2>3, ArmStep
<1>13. CASE RestoreFails
  BY <1>2, <1>4, <1>13 DEF RestoreFails
<1>14. CASE RestoreDone
  BY <1>1, <1>4, <1>14 DEF RestoreDone
<1> QED BY <1>6, <1>7, <1>8, <1>9, <1>10, <1>11, <1>12, <1>13, <1>14

\* A step that changes nothing keeps everything.
LEMMA StutterStep == IInv /\ UNCHANGED vars => IInv'
<1> SUFFICES ASSUME IInv, UNCHANGED vars PROVE IInv'
  OBVIOUS
<1> USE DEF vars, table, platform, notice, round, session
<1>1. TypeOK'
  BY DEF IInv, TypeOK
<1>2. NoNesting' /\ DropsAccounted'
  BY DEF IInv, NoNesting, DropsAccounted
<1>3. TableInv'
  BY SameTable DEF IInv
<1> QED BY <1>1, <1>2, <1>3 DEF IInv

\* The invariant is inductive.
LEMMA NextInv == IInv /\ [Next]_vars => IInv'
<1> SUFFICES ASSUME IInv, [Next]_vars PROVE IInv'
  OBVIOUS
<1>1. CASE UNCHANGED vars
  BY <1>1, StutterStep
<1>2. CASE Tick \/ (\E p \in Ports : Fire(p)) \/ \E h \in leaked : LeakedFire(h)
  BY <1>2, InterruptSteps
<1>3. CASE \/ \E name \in Names : \E debounce \in DebounceOf(name) : Register(name, debounce)
           \/ Record
           \/ \E name \in Names : Cancel(name)
           \/ \E i \in Idx : CallFails(i)
  BY <1>3, UserSteps
<1>4. CASE SafePoint \/ IdleService \/ Accept \/ Dispatch
  BY <1>4, DrainSteps
<1>5. CASE \/ \E i \in Idx : StartBody(i)
           \/ \E err \in Errs : EndBody(err)
           \/ EndRound \/ BreakRound
  BY <1>5, RoundSteps
<1>6. CASE \/ StartEval \/ EndEval \/ Interrupt
           \/ Clear \/ Save \/ Restore \/ RestoreNext \/ RestoreFails \/ RestoreDone
  BY <1>6, PromptSteps
<1>7. Next \/ UNCHANGED vars
  OBVIOUS
<1> QED BY <1>1, <1>2, <1>3, <1>4, <1>5, <1>6, <1>7, Zenon DEF Next

\* The table, the rounds and the counts keep the invariant for ever.
THEOREM Inductive == Spec => []IInv
<1>1. Init => IInv
  BY InitInv
<1>2. IInv /\ [Next]_vars => IInv'
  BY NextInv
<1> QED BY <1>1, <1>2, PTL DEF Spec

(***************************************************************************)
(* What follows.                                                           *)
(***************************************************************************)
\* Types, for every number of bindings, queue depth and set of names: the
\* queue never outgrows its depth, nor a batch the table.
THEOREM TypeCorrect == Spec => []TypeOK
<1>1. IInv => TypeOK
  BY DEF IInv
<1> QED BY <1>1, Inductive, PTL

\* A dispatch never starts inside a dispatch, and its flag does not outlive it.
THEOREM DispatchesDoNotNest == Spec => []NoNesting
<1>1. IInv => NoNesting
  BY DEF IInv
<1> QED BY <1>1, Inductive, PTL

\* active_count is the number of live bindings, whatever calls fail.
THEOREM CountIsExact == Spec => []ActiveCountExact
<1>1. IInv => ActiveCountExact
  BY DEF IInv, TableInv
<1> QED BY <1>1, Inductive, PTL

\* A pin, a period, a delay and a Wi-Fi kind have one binding at most.
THEOREM OneBindingPerName == Spec => []OneEntryPerName
<1>1. IInv => OneEntryPerName
  BY DEF IInv, TableInv
<1> QED BY <1>1, Inductive, PTL

\* Every refused candidate is reported once, pending a report, or cleared.
THEOREM DropsAreAccounted == Spec => []DropsAccounted
<1>1. IInv => DropsAccounted
  BY DEF IInv
<1> QED BY <1>1, Inductive, PTL

\* Only a drain, a body or the end of a round writes the stack.
LEMMA StackSteps ==
    ASSUME IInv, Next, stack' # stack
    PROVE  \/ \E i \in Idx : StartBody(i)
           \/ \E err \in Errs : EndBody(err)
           \/ Dispatch \/ EndRound \/ BreakRound
<1> USE DEF table, platform, notice, round, session
<1>1. ~Tick /\ (\A p \in Ports : ~Fire(p)) /\ \A h \in leaked : ~LeakedFire(h)
  BY DEF Tick, Fire, LeakedFire
<1>2. /\ \A name \in Names : \A debounce \in DebounceOf(name) : ~Register(name, debounce)
      /\ ~Record /\ (\A name \in Names : ~Cancel(name)) /\ \A i \in Idx : ~CallFails(i)
  BY DEF Register, Arm, Record, Cancel, CallFails
<1>3. ~SafePoint /\ ~IdleService /\ ~Accept
  BY DEF SafePoint, IdleService, TakeBatch, Accept
<1>4. ~StartEval /\ ~EndEval /\ ~Interrupt /\ ~Restore /\ ~RestoreNext /\ ~RestoreDone
  BY DEF StartEval, EndEval, Interrupt, Restore, RestoreNext, Arm, RestoreDone
<1>5. ~Clear /\ ~Save /\ ~RestoreFails
  <2>1. ~ClearTable
    BY ClearKeeps DEF IInv
  <2> QED BY <2>1 DEF Clear, Save, RestoreFails
<1> QED BY <1>1, <1>2, <1>3, <1>4, <1>5, Zenon DEF Next

\* An `after` runs at most once per registration.
THEOREM OneShotsRunOnce == Spec => AfterOnce
<1> DEFINE Once == InRound /\ stack' # stack /\ Len(stack') = Len(stack)
                     => stack'[Len(stack)].body \notin done
<1>1. IInv /\ [Next]_vars => [Once]_vars
  <2> SUFFICES ASSUME IInv, Next, InRound, stack' # stack, Len(stack') = Len(stack)
               PROVE  stack'[Len(stack)].body \notin done
    OBVIOUS
  <2>1. Top.body = 0 /\ step = "ready" /\ stack # <<>>
    BY DEF InRound
  <2>2. ASSUME NEW err \in Errs, EndBody(err) PROVE FALSE
    BY <2>1, <2>2 DEF EndBody, InBody, Top
  <2>3. ~Dispatch
    BY <2>1 DEF Dispatch
  <2>4. ~EndRound /\ ~BreakRound
    <3>1. Len(stack) = 1 /\ SubSeq(stack, 1, Len(stack) - 1) = <<>>
      BY <2>1, OneRound DEF IInv
    <3>2. Len(stack') # 0
      BY <3>1
    <3> QED BY <3>1, <3>2, EmptySeq DEF EndRound, BreakRound, Return
  <2>5. \/ \E i \in Idx : StartBody(i)
        \/ \E err \in Errs : EndBody(err)
        \/ Dispatch \/ EndRound \/ BreakRound
    BY StackSteps
  <2>6. PICK i \in Idx : StartBody(i)
    BY <2>2, <2>3, <2>4, <2>5, Zenon
  <2>7. Live(i) /\ Len(stack) = 1 /\ stack'[1].body = entries[i].reg
    BY <2>6, StartBodyStep
  <2>8. entries[i].reg \notin done
    BY <2>7 DEF IInv, TableInv, RegsFresh
  <2> QED BY <2>7, <2>8
<1>2. []IInv /\ [][Next]_vars => [][Once]_vars
  BY <1>1, PTL
<1>3. Spec => [][Once]_vars
  BY <1>2, Inductive, PTL DEF Spec
<1> QED BY <1>3 DEF AfterOnce, Once

\* A pending event is run, or its binding replaced, cancelled or cleared.
THEOREM PendingIsKept == Spec => PendingConsumed
<1> DEFINE Used(i) == \/ stack' # stack /\ stack'[Len(stack)].body = entries[i].reg
                      \/ stack' = stack /\ entries'[i].reg # entries[i].reg
           Kept == \A i \in Idx : entries[i].pending /\ ~entries'[i].pending => Used(i)
<1>1. ASSUME IInv, Next, NEW i \in Idx, entries[i].pending, ~entries'[i].pending
      PROVE  Used(i)
  <2> USE DEF table, platform, notice, round, session
  <2>1. Live(i) /\ entries[i].reg \in 1 .. regs /\ regs \in Nat
    BY <1>1 DEF IInv, TypeOK, Regs, TableInv, PendingLive, RegsFresh
  <2>2. entries' # entries /\ entries \in [Idx -> Entries]
    BY <1>1 DEF IInv, TypeOK
  <2>3. CASE ClearTable
    <3>1. entries'[i].reg = 0 /\ stack' = stack
      <4>1. TypeOK /\ DropsAccounted
        BY <1>1 DEF IInv
      <4>2. /\ entries' = [j \in Idx |-> FreeEntry(0)]
            /\ stack' = stack
        BY <2>3, <4>1, ClearKeeps
      <4>3. FreeEntry(0).reg = 0
        BY FreeEntryType
      <4> QED BY <4>2, <4>3
    <3> QED BY <2>1, <3>1
  <2>4. CASE Record
    <3>1. Recorded.reg = regs /\ entries' = [entries EXCEPT ![arming.idx] = Recorded]
          /\ stack' = stack /\ step = "arming"
      BY <1>1, <2>4, RecordedTable DEF IInv, Record
    <3>2. i = arming.idx
      BY <1>1, <2>2, <3>1
    <3>3. entries'[i] = Recorded
      BY <2>2, <3>1, <3>2
    <3>4. entries[i].reg # regs
      BY <1>1, <2>1, <3>1 DEF IInv, TableInv, RegsFresh
    <3> QED BY <3>1, <3>3, <3>4
  <2>5. ASSUME NEW name \in Names, Cancel(name) PROVE Used(i)
    <3>1. PICK j \in Matches(name) : entries' = [entries EXCEPT ![j] = FreeEntry(@.gen + 1)]
      BY <2>5 DEF Cancel
    <3>2. j = i /\ stack' = stack
      BY <1>1, <2>2, <2>5, <3>1 DEF Matches, Cancel
    <3>3. entries[i].gen + 1 \in Nat
      BY <2>2, EntryFields
    <3>4. entries'[i].reg = 0
      BY <2>2, <3>1, <3>2, <3>3, FreeEntryType
    <3> QED BY <2>1, <3>2, <3>4
  <2>6. CASE Accept
    <3> DEFINE c == Head(batch)
    <3>1. c \in Candidates
      <4>1. batch \in Seq(Candidates) /\ batch # <<>>
        BY <1>1, <2>6 DEF IInv, TypeOK, Accept
      <4> QED BY <4>1, HeadTailProperties
    <3>2. c.idx \in Idx
      BY <3>1 DEF Candidates
    <3>3. entries' = [entries EXCEPT ![c.idx] = Marked(entries[c.idx], c)]
      BY <2>6 DEF Accept
    <3>4. entries[c.idx] \in Entries
      BY <2>2, <3>2
    <3>5. entries[c.idx].pending => Marked(entries[c.idx], c).pending
      BY <3>1, <3>4, MarkedEntry
    <3> HIDE DEF c
    <3>6. entries'[i].pending
      BY <1>1, <2>2, <3>2, <3>3, <3>5
    <3> QED BY <1>1, <3>6
  <2>7. ASSUME NEW j \in Idx, StartBody(j) PROVE Used(i)
    <3>1. Len(stack) = 1 /\ stack' # stack /\ stack'[1].body = entries[j].reg
      BY <1>1, <2>7, StartBodyStep
    <3>2. entries' = [entries EXCEPT ![j] = Taken(j)]
      BY <2>7 DEF StartBody
    <3>3. j = i
      BY <1>1, <2>2, <3>2
    <3> QED BY <3>1, <3>3
  <2>8. ~Tick /\ (\A p \in Ports : ~Fire(p)) /\ (\A h \in leaked : ~LeakedFire(h))
        /\ (\A name \in Names : \A debounce \in DebounceOf(name) : ~Register(name, debounce))
        /\ \A j \in Idx : ~CallFails(j)
    BY <2>2 DEF Tick, Fire, LeakedFire, Register, Arm, CallFails
  <2>9. ~SafePoint /\ ~IdleService /\ ~Dispatch /\ (\A err \in Errs : ~EndBody(err))
        /\ ~EndRound /\ ~BreakRound
    BY <2>2 DEF SafePoint, IdleService, TakeBatch, Dispatch, EndBody, EndRound, BreakRound,
                Return
  <2>10. ~StartEval /\ ~EndEval /\ ~Interrupt /\ ~Restore /\ ~RestoreNext /\ ~RestoreDone
    BY <2>2 DEF StartEval, EndEval, Interrupt, Restore, RestoreNext, Arm, RestoreDone
  <2>11. Clear \/ Save \/ RestoreFails => ClearTable
    BY DEF Clear, Save, RestoreFails
  <2> HIDE DEF Used
  <2>12. \/ ClearTable \/ Record \/ (\E name \in Names : Cancel(name)) \/ Accept
         \/ \E j \in Idx : StartBody(j)
    BY <1>1, <2>8, <2>9, <2>10, <2>11, Zenon DEF Next
  <2> QED BY <2>3, <2>4, <2>5, <2>6, <2>7, <2>12
<1>2. IInv /\ [Next]_vars => [Kept]_vars
  BY <1>1
<1>3. []IInv /\ [][Next]_vars => [][Kept]_vars
  BY <1>2, PTL
<1>4. Spec => [][Kept]_vars
  BY <1>3, Inductive, PTL DEF Spec
<1> QED BY <1>4 DEF PendingConsumed, Kept, Used

(***************************************************************************)
(* Where events come from: the inductive invariant.                        *)
(***************************************************************************)
\* What a handler and a candidate carry of the binding they were armed for.
Stamp(x) == [idx |-> x.idx, gen |-> x.gen, reg |-> x.reg]
Stamps == [idx : Idx, gen : Nat, reg : Regs]

\* The handlers that may still fire, and the candidates no drain has looked at.
Held == {h \in leaked \cup {armed[p] : p \in Ports} : h # None}
Waiting == {queue[k] : k \in 1 .. Len(queue)} \cup {batch[k] : k \in 1 .. Len(batch)}

\* The stamp of the registration between arming and recording.
Arriving(s) ==
    step = "arming" /\ s.idx = arming.idx /\ s.gen = entries[s.idx].gen + 1 /\ s.reg = regs

\* A registration has one generation, whatever was cleared since.
Known(s) ==
    /\ s.reg \in 1 .. regs
    /\ Live(s.idx) /\ s.reg = entries[s.idx].reg => s.gen = entries[s.idx].gen
    /\ step = "arming" /\ s.reg = regs => Arriving(s)

\* A generation has one registration, until the table is cleared.
Own(s) ==
    \/ s.gen < entries[s.idx].gen
    \/ s.gen = entries[s.idx].gen /\ (Live(s.idx) => s.reg = entries[s.idx].reg)
    \/ Arriving(s)

\* A candidate of an earlier epoch is no younger than any live binding.
Past(c) ==
    /\ c.at <= now /\ c.epoch <= epoch
    /\ c.epoch < epoch => \A i \in Idx : Live(i) => c.at <= entries[i].regAt

StampsInv ==
    /\ \A h \in Held : Known(Stamp(h))
    /\ \A c \in Waiting : Known(Stamp(c)) /\ Past(c)
    /\ faults = 0 \/ epoch = 0 =>
         /\ \A h \in Held : Own(Stamp(h))
         /\ \A c \in Waiting : c.epoch = epoch => Own(Stamp(c))

\* While nothing fails, the handler of a binding is armed for it and stops
\* only if it is a one-shot.
HeldFor(p, i, gen, reg, name) ==
    /\ armed[p] # None
    /\ armed[p].idx = i /\ armed[p].gen = gen /\ armed[p].reg = reg
    /\ armed[p].stopped \/ armed[p].once => name \in Afters

ArmedInv ==
    faults = 0 =>
      /\ leaked = {}
      /\ \A i \in LiveIdx : ~(step = "arming" /\ i = arming.idx) =>
           HeldFor(Port(entries[i].name, i), i, entries[i].gen, entries[i].reg, entries[i].name)
      /\ step = "arming" =>
           HeldFor(Port(arming.name, arming.idx), arming.idx,
                   entries[arming.idx].gen + 1, regs, arming.name)
      /\ \A p \in Ports : armed[p] # None =>
           \/ Live(armed[p].idx) /\ p = Port(entries[armed[p].idx].name, armed[p].idx)
           \/ step = "arming" /\ armed[p].idx = arming.idx /\ p = Port(arming.name, arming.idx)

FaultInv ==
    /\ \A k \in 1 .. Len(stack) : stack[k].faulted => stack[k].err # "ok"
    /\ FaultReported

SInv == StampsInv /\ ArmedInv /\ FaultInv

(***************************************************************************)
(* Stamps and bindings.                                                    *)
(***************************************************************************)

\* What is held is a handler, what waits is a candidate.
LEMMA StampTypes ==
    ASSUME TypeOK
    PROVE  /\ \A h \in Held : h \in Handlers /\ Stamp(h) \in Stamps
           /\ \A c \in Waiting : c \in Candidates /\ Stamp(c) \in Stamps
<1>1. \A h \in Held : h \in Handlers
  BY DEF TypeOK, Held
<1>2. \A c \in Waiting : c \in Candidates
  BY ElementOfSeq DEF TypeOK, Waiting
<1>3. \A h \in Handlers : Stamp(h) \in Stamps
  BY DEF Handlers, Stamp, Stamps
<1>4. \A c \in Candidates : Stamp(c) \in Stamps
  BY DEF Candidates, Stamp, Stamps
<1> QED BY <1>1, <1>2, <1>3, <1>4

\* The stamp of the registration under way is known and own.
LEMMA ArrivingKnown ==
    ASSUME TypeOK, TableInv, NEW s \in Stamps, Arriving(s)
    PROVE  Known(s) /\ Own(s)
<1>1. /\ regs \in Nat \ {0} /\ s.reg = regs /\ s.idx \in Idx
      /\ Live(s.idx) => entries[s.idx].reg # regs
  BY DEF Arriving, TableInv, RegsFresh, Stamps
<1> QED BY <1>1 DEF Known, Own, Arriving

\* The same of the state after a step.
LEMMA NextStamps ==
    (TypeOK /\ TableInv =>
      /\ \A h \in Held : Stamp(h) \in Stamps
      /\ \A s \in Stamps : Arriving(s) => Known(s) /\ Own(s))'
<1>1. TypeOK /\ TableInv =>
        /\ \A h \in Held : Stamp(h) \in Stamps
        /\ \A s \in Stamps : Arriving(s) => Known(s) /\ Own(s)
  BY StampTypes, ArrivingKnown
<1> QED BY <1>1, PTL

\* Bindings stay, so do their stamps.
LEMMA BindingsStay ==
    ASSUME NEW s \in Stamps, UNCHANGED <<regs, arming>>,
           step' = "arming" <=> step = "arming",
           \A i \in Idx : /\ entries'[i].name = entries[i].name
                          /\ entries'[i].gen = entries[i].gen
                          /\ entries'[i].reg = entries[i].reg
    PROVE  (Known(s) => Known(s)') /\ (Own(s) => Own(s)')
<1>1. s.idx \in Idx
  BY DEF Stamps
<1>2. Arriving(s)' <=> Arriving(s)
  BY <1>1 DEF Arriving
<1>3. Live(s.idx)' <=> Live(s.idx)
  BY <1>1 DEF Live
<1> QED BY <1>1, <1>2, <1>3 DEF Known, Own

\* A freed entry has a generation of its own.
LEMMA EntryFreed ==
    ASSUME TypeOK, NEW s \in Stamps, NEW i \in Idx, NEW e \in Entries,
           entries' = [entries EXCEPT ![i] = e], e.name = None,
           e.gen = entries[i].gen + 1,
           UNCHANGED regs, step # "arming", step' # "arming"
    PROVE  (Known(s) => Known(s)') /\ (Own(s) => Own(s)')
<1>1. s.idx \in Idx /\ s.gen \in Nat
  BY DEF Stamps
<1>2. ~Arriving(s) /\ ~Arriving(s)'
  BY DEF Arriving
<1>3. entries'[i] = e /\ \A j \in Idx : j # i => entries'[j] = entries[j]
  BY DEF TypeOK
<1>4. ~Live(i)' /\ \A j \in Idx : j # i => (Live(j)' <=> Live(j))
  BY <1>3 DEF Live
<1>5. entries[i].gen \in Nat
  BY EntryFields DEF TypeOK
<1>6. CASE s.idx = i
  <2>1. Known(s) => Known(s)'
    BY <1>4, <1>6 DEF Known
  <2>2. Own(s) => s.gen <= entries[i].gen
    BY <1>1, <1>2, <1>5, <1>6 DEF Own
  <2>3. s.gen <= entries[i].gen => s.gen < entries'[i].gen
    BY <1>1, <1>3, <1>5
  <2> QED BY <1>6, <2>1, <2>2, <2>3 DEF Own
<1>7. CASE s.idx # i
  BY <1>1, <1>2, <1>3, <1>4, <1>7 DEF Known, Own
<1> QED BY <1>6, <1>7

\* A registration starts: its number is new, and so is its generation.
LEMMA EntryArmed ==
    ASSUME TypeOK, NEW s \in Stamps, UNCHANGED entries, step # "arming",
           regs' = regs + 1
    PROVE  (Known(s) => Known(s)') /\ (Own(s) => Own(s)')
<1>1. s.idx \in Idx /\ s.reg \in Nat /\ regs \in Nat
  BY DEF Stamps, Regs, TypeOK
<1>2. ~Arriving(s) /\ (Live(s.idx)' <=> Live(s.idx))
  BY DEF Arriving, Live
<1>3. Known(s) => Known(s)'
  BY <1>1, <1>2 DEF Known
<1>4. Own(s) => Own(s)'
  BY <1>2 DEF Own
<1> QED BY <1>3, <1>4

\* The registration is recorded: what came with its number has its entry.
LEMMA EntryRecorded ==
    ASSUME TypeOK, TableInv, NEW s \in Stamps, Record
    PROVE  (Known(s) => Known(s)') /\ (Own(s) => Own(s)')
<1> DEFINE i == arming.idx
<1>1. i \in Idx /\ s.idx \in Idx /\ s.gen \in Nat /\ entries[i].gen \in Nat
  BY EntryFields DEF TypeOK, Armings, Stamps
<1>2. Recorded.gen = entries[i].gen + 1 /\ Recorded.reg = regs
  BY DEF Recorded
<1>3. step = "arming" /\ step' = "ready" /\ regs' = regs
      /\ entries' = [entries EXCEPT ![i] = Recorded]
  BY DEF Record
<1>4. entries'[i] = Recorded /\ \A j \in Idx : j # i => entries'[j] = entries[j]
  BY <1>1, <1>3 DEF TypeOK
<1>5. \A j \in Idx : j # i => (Live(j)' <=> Live(j))
  BY <1>4 DEF Live
<1>6. ~Arriving(s)' /\ (Arriving(s) => s.idx = i /\ s.gen = entries[i].gen + 1 /\ s.reg = regs)
  BY <1>3 DEF Arriving
<1>7. CASE s.idx = i
  <2>1. Known(s) => Known(s)'
    BY <1>2, <1>3, <1>4, <1>6, <1>7 DEF Known
  <2>2. Own(s) => s.gen <= entries[i].gen \/ (s.gen = entries[i].gen + 1 /\ s.reg = regs)
    BY <1>1, <1>6, <1>7 DEF Own
  <2>3. Own(s) => s.gen < entries'[i].gen \/ (s.gen = entries'[i].gen /\ s.reg = entries'[i].reg)
    BY <1>1, <1>2, <1>4, <2>2
  <2> QED BY <1>7, <2>1, <2>3 DEF Own
<1>8. CASE s.idx # i
  <2>1. ~Arriving(s)
    BY <1>6, <1>8
  <2> QED BY <1>1, <1>3, <1>4, <1>5, <1>6, <1>8, <2>1 DEF Known, Own
<1> QED BY <1>7, <1>8

\* A step of one epoch keeps the stamps, if it keeps those that there were,
\* and what is new is the registration under way or a candidate just fired.
LEMMA StampsStep ==
    ASSUME TypeOK, TypeOK', TableInv', StampsInv,
           \A h \in Held' : \/ Arriving(Stamp(h))'
                            \/ \E g \in Held : Stamp(g) = Stamp(h),
           \A c \in Waiting' :
              \/ c \in Waiting
              \/ c.at = now /\ c.epoch = epoch /\ \E g \in Held : Stamp(g) = Stamp(c),
           epoch' = epoch, faults' = 0 => faults = 0, now <= now',
           \A s \in Stamps : (Known(s) => Known(s)') /\ (Own(s) => Own(s)'),
           \A i \in Idx : Live(i)' =>
              \/ entries'[i].regAt = now
              \/ Live(i) /\ entries'[i].regAt = entries[i].regAt
    PROVE  StampsInv'
<1>1. now \in Nat /\ now' \in Nat /\ epoch \in Nat
  BY DEF TypeOK, Ms, Epochs
<1>2. \A h \in Held : Stamp(h) \in Stamps
  BY StampTypes
<1>3. \A h \in Held' : Stamp(h) \in Stamps
  BY NextStamps
<1>4. \A c \in Waiting : c.at \in Nat /\ Stamp(c) \in Stamps
  BY StampTypes DEF Candidates, Ms
<1>5. ASSUME NEW h \in Held'
      PROVE  Known(Stamp(h))' /\ (faults' = 0 \/ epoch' = 0 => Own(Stamp(h))')
  <2>1. CASE Arriving(Stamp(h))'
    <3>1. \A s \in Stamps : Arriving(s)' => Known(s)' /\ Own(s)'
      BY NextStamps
    <3> QED BY <1>3, <2>1, <3>1
  <2>2. CASE \E g \in Held : Stamp(g) = Stamp(h)
    <3>1. PICK g \in Held : Stamp(g) = Stamp(h)
      BY <2>2
    <3>2. Known(Stamp(g)) /\ (faults = 0 \/ epoch = 0 => Own(Stamp(g)))
      BY DEF StampsInv
    <3> QED BY <1>2, <3>1, <3>2
  <2> QED BY <2>1, <2>2
<1>6. ASSUME NEW c \in Waiting'
      PROVE  /\ Known(Stamp(c))' /\ Past(c)'
             /\ faults' = 0 \/ epoch' = 0 => (c.epoch = epoch' => Own(Stamp(c))')
  <2>1. CASE c \in Waiting
    <3>1. Known(Stamp(c)) /\ Past(c)
          /\ (faults = 0 \/ epoch = 0 => (c.epoch = epoch => Own(Stamp(c))))
      BY <2>1 DEF StampsInv
    <3>2. Past(c)'
      BY <1>1, <1>4, <2>1, <3>1 DEF Past
    <3> QED BY <1>4, <2>1, <3>1, <3>2
  <2>2. CASE c.at = now /\ c.epoch = epoch /\ \E g \in Held : Stamp(g) = Stamp(c)
    <3>1. PICK g \in Held : Stamp(g) = Stamp(c)
      BY <2>2
    <3>2. Known(Stamp(g)) /\ (faults = 0 \/ epoch = 0 => Own(Stamp(g)))
      BY DEF StampsInv
    <3>3. Past(c)'
      BY <1>1, <2>2 DEF Past
    <3> QED BY <1>2, <3>1, <3>2, <3>3
  <2> QED BY <2>1, <2>2
<1> QED BY <1>5, <1>6 DEF StampsInv

(***************************************************************************)
(* Handlers and the table.                                                 *)
(***************************************************************************)
\* Two bindings have two ports.
LEMMA PortsDiffer ==
    ASSUME NEW n \in Names, NEW m \in Names, NEW i \in Idx, NEW j \in Idx, n # m, i # j
    PROVE  Port(n, i) # Port(m, j)
BY NamesAssumption DEF Port, Names

\* So the port of a live binding is not the port of another one.
LEMMA LivePorts ==
    ASSUME TypeOK, TableInv, NEW i \in Idx, NEW j \in Idx, i # j, Live(i), Live(j)
    PROVE  Port(entries[i].name, i) # Port(entries[j].name, j)
<1>1. entries[i].name \in Names /\ entries[j].name \in Names
  BY EntryFields DEF TypeOK, Live
<1>2. entries[i].name # entries[j].name
  BY DEF TableInv, OneEntryPerName, LiveIdx
<1> QED BY <1>1, <1>2, PortsDiffer

\* A registration under way has a port that no other binding has.
LEMMA TargetPorts ==
    ASSUME TypeOK, TableInv, NEW name \in Names, NEW i \in Idx, Target(name, i),
           NEW j \in Idx, j # i, Live(j)
    PROVE  Port(entries[j].name, j) # Port(name, i)
<1>1. entries[j].name \in Names
  BY EntryFields DEF TypeOK, Live
<1>2. entries[j].name # name
  BY NamesAssumption DEF Target, Matches, TableInv, OneEntryPerName, LiveIdx, Live
<1> QED BY <1>1, <1>2, PortsDiffer

\* It replaces the binding of its port, if there is one.
LEMMA TargetPort ==
    ASSUME TypeOK, NEW name \in Names, NEW i \in Idx, Target(name, i), Live(i)
    PROVE  entries[i].name = name
BY DEF Target, Matches

\* Handlers only stop, as one-shots do; bindings stay.
LEMMA HandlersStay ==
    ASSUME TypeOK, TableInv, ArmedInv, UNCHANGED <<regs, arming>>,
           step' = "arming" <=> step = "arming",
           \A i \in Idx : /\ entries'[i].name = entries[i].name
                          /\ entries'[i].gen = entries[i].gen
                          /\ entries'[i].reg = entries[i].reg,
           faults' = 0 => faults = 0 /\ leaked' \subseteq leaked,
           \A p \in Ports :
             faults' = 0 =>
               /\ armed'[p] = None <=> armed[p] = None
               /\ armed[p] # None =>
                    /\ armed'[p].idx = armed[p].idx /\ armed'[p].gen = armed[p].gen
                    /\ armed'[p].reg = armed[p].reg /\ armed'[p].once = armed[p].once
                    /\ armed'[p].stopped => armed[p].stopped \/ armed[p].once
    PROVE  ArmedInv'
<1> SUFFICES ASSUME faults' = 0 PROVE ArmedInv'
  BY DEF ArmedInv
<1>1. LiveIdx' = LiveIdx /\ \A i \in Idx : Live(i)' <=> Live(i)
  BY DEF LiveIdx, Live
<1>2. faults = 0 /\ leaked = {}
  BY DEF ArmedInv
<1>3. ASSUME NEW p \in Ports, NEW i, NEW gen, NEW reg, NEW name,
             HeldFor(p, i, gen, reg, name)
      PROVE  HeldFor(p, i, gen, reg, name)'
  BY <1>3 DEF HeldFor
<1>4. \A i \in LiveIdx : i \in Idx /\ Port(entries[i].name, i) \in Ports
  BY PortType, EntryFields DEF LiveIdx, Live, TypeOK
<1>5. ASSUME NEW i \in LiveIdx', ~(step' = "arming" /\ i = arming'.idx)
      PROVE  HeldFor(Port(entries[i].name, i), i, entries[i].gen, entries[i].reg, entries[i].name)'
  <2>1. i \in Idx /\ i \in LiveIdx /\ Port(entries[i].name, i) \in Ports
    BY <1>1, <1>4
  <2>2. HeldFor(Port(entries[i].name, i), i, entries[i].gen, entries[i].reg, entries[i].name)
    BY <1>2, <1>5, <2>1 DEF ArmedInv
  <2>3. entries'[i].name = entries[i].name /\ entries'[i].gen = entries[i].gen
        /\ entries'[i].reg = entries[i].reg
    BY <2>1
  <2>4. armed[Port(entries[i].name, i)] # None
    BY <2>2 DEF HeldFor
  <2> QED BY <2>1, <2>2, <2>3, <2>4 DEF HeldFor
<1>6. ASSUME step' = "arming"
      PROVE  HeldFor(Port(arming.name, arming.idx), arming.idx,
                     entries[arming.idx].gen + 1, regs, arming.name)'
  <2>1. arming.idx \in Idx /\ Port(arming.name, arming.idx) \in Ports
    BY <1>6, PortType DEF TypeOK, Armings, TableInv, ArmingTarget
  <2>2. HeldFor(Port(arming.name, arming.idx), arming.idx,
                entries[arming.idx].gen + 1, regs, arming.name)
    BY <1>2, <1>6 DEF ArmedInv
  <2>3. entries'[arming.idx].gen = entries[arming.idx].gen
    BY <2>1
  <2> QED BY <2>1, <2>2, <2>3 DEF HeldFor
<1>7. ASSUME NEW p \in Ports, armed'[p] # None
      PROVE  \/ Live(armed[p].idx)' /\ p = Port(entries[armed[p].idx].name, armed[p].idx)'
             \/ step' = "arming" /\ armed'[p].idx = arming'.idx /\ p = Port(arming.name, arming.idx)'
  <2>1. armed[p] # None /\ armed'[p].idx = armed[p].idx /\ armed[p].idx \in Idx
    BY <1>7 DEF TypeOK, Handlers
  <2>2. \/ Live(armed[p].idx) /\ p = Port(entries[armed[p].idx].name, armed[p].idx)
        \/ step = "arming" /\ armed[p].idx = arming.idx /\ p = Port(arming.name, arming.idx)
    BY <1>2, <2>1 DEF ArmedInv
  <2>3. entries'[armed[p].idx].name = entries[armed[p].idx].name
        /\ (Live(armed[p].idx)' <=> Live(armed[p].idx))
    BY <1>1, <2>1 DEF Live
  <2> QED BY <2>1, <2>2, <2>3
<1>8. leaked' = {}
  BY <1>2
<1> QED BY <1>5, <1>6, <1>7, <1>8 DEF ArmedInv

\* A live binding leaves the table together with its handler.
LEMMA HandlerFreed ==
    ASSUME TypeOK, TableInv, ArmedInv, step # "arming", step' # "arming",
           NEW i \in Idx, Live(i), NEW e \in Entries, e.name = None,
           entries' = [entries EXCEPT ![i] = e],
           armed' = [armed EXCEPT ![Port(entries[i].name, i)] = None],
           UNCHANGED <<leaked, faults>>
    PROVE  ArmedInv'
<1> SUFFICES ASSUME faults = 0 PROVE ArmedInv'
  BY DEF ArmedInv
<1> DEFINE p == Port(entries[i].name, i)
<1>1. p \in Ports
  BY PortType, EntryFields DEF Live, TypeOK
<1>2. armed'[p] = None /\ \A q \in Ports : q # p => armed'[q] = armed[q]
  BY <1>1 DEF TypeOK
<1>3. entries'[i] = e /\ \A j \in Idx : j # i => entries'[j] = entries[j]
  BY DEF TypeOK
<1>4. ~Live(i)' /\ \A j \in Idx : j # i => (Live(j)' <=> Live(j))
  BY <1>3 DEF Live
<1>5. ASSUME NEW j \in LiveIdx'
      PROVE  HeldFor(Port(entries[j].name, j), j, entries[j].gen, entries[j].reg, entries[j].name)'
  <2>1. j \in Idx /\ j # i /\ Live(j) /\ j \in LiveIdx
    BY <1>4 DEF LiveIdx
  <2>2. HeldFor(Port(entries[j].name, j), j, entries[j].gen, entries[j].reg, entries[j].name)
    BY <2>1 DEF ArmedInv
  <2>3. Port(entries[j].name, j) # p /\ Port(entries[j].name, j) \in Ports
    BY <2>1, LivePorts, PortType, EntryFields DEF Live, TypeOK
  <2> QED BY <1>2, <1>3, <2>1, <2>2, <2>3 DEF HeldFor
<1>6. ASSUME NEW q \in Ports, armed'[q] # None
      PROVE  Live(armed[q].idx)' /\ q = Port(entries[armed[q].idx].name, armed[q].idx)'
  <2>1. q # p /\ armed'[q] = armed[q] /\ armed[q].idx \in Idx
    BY <1>2, <1>6 DEF TypeOK, Handlers
  <2>2. Live(armed[q].idx) /\ q = Port(entries[armed[q].idx].name, armed[q].idx)
    BY <1>6, <2>1 DEF ArmedInv
  <2>3. armed[q].idx # i
    BY <2>1, <2>2
  <2> QED BY <1>3, <1>4, <2>1, <2>2, <2>3
<1> HIDE DEF p
<1> QED BY <1>5, <1>6 DEF ArmedInv

\* A registration starts: its handler takes the port of the binding it
\* replaces.
LEMMA HandlerArmed ==
    ASSUME TypeOK, TableInv, ArmedInv, NEW name \in Names, NEW debounce, Arm(name, debounce)
    PROVE  ArmedInv'
<1> USE DEF table
<1> SUFFICES ASSUME faults' = 0 PROVE ArmedInv'
  BY DEF ArmedInv
<1>1. PICK i \in Idx :
        LET p == Port(name, i)
            h == Handler(i, entries[i].gen + 1, name, regs + 1)
        IN /\ Target(name, i)
           /\ arming' = [idx |-> i, name |-> name, debounce |-> debounce]
           /\ \/ armed' = [armed EXCEPT ![p] = h] /\ UNCHANGED <<leaked, faults>>
              \/ faults < MaxFaults /\ faults' = faults + 1
  BY DEF Arm
<1> DEFINE p == Port(name, i)
           h == Handler(i, entries[i].gen + 1, name, regs + 1)
<1>2. armed' = [armed EXCEPT ![p] = h] /\ UNCHANGED <<leaked, faults>>
  BY <1>1 DEF TypeOK
<1>3. p \in Ports /\ h # None /\ h.idx = i /\ h.gen = entries[i].gen + 1 /\ h.reg = regs + 1
      /\ ~h.stopped /\ (h.once => name \in Afters)
  <2>1. regs + 1 \in Regs
    BY DEF Arm, TypeOK, Regs
  <2>5. entries[i].gen + 1 \in Nat
    BY EntryFields DEF TypeOK
  <2>2. h \in Handlers /\ p \in Ports
    BY <2>1, <2>5, HandlerType, PortType
  <2>3. h.idx = i /\ h.gen = entries[i].gen + 1 /\ h.reg = regs + 1
        /\ ~h.stopped /\ (h.once => name \in Afters)
    BY DEF Handler
  <2>4. None \notin Handlers
    BY NoneAssumption
  <2> QED BY <2>2, <2>3, <2>4
<1>4. armed'[p] = h /\ \A q \in Ports : q # p => armed'[q] = armed[q]
  BY <1>2, <1>3 DEF TypeOK
<1> HIDE DEF h
<1>5. faults = 0 /\ leaked' = {} /\ step = "ready" /\ step' = "arming" /\ regs' = regs + 1
      /\ entries' = entries /\ arming'.idx = i /\ arming'.name = name /\ Target(name, i)
  BY <1>1, <1>2 DEF Arm, ArmedInv
<1> HIDE DEF p
<1>6. ASSUME NEW j \in LiveIdx', ~(step' = "arming" /\ j = arming'.idx)
      PROVE  HeldFor(Port(entries[j].name, j), j, entries[j].gen, entries[j].reg, entries[j].name)'
  <2>1. j \in Idx /\ j # i /\ Live(j) /\ j \in LiveIdx
    BY <1>5, <1>6 DEF LiveIdx, Live
  <2>2. HeldFor(Port(entries[j].name, j), j, entries[j].gen, entries[j].reg, entries[j].name)
    BY <1>5, <2>1 DEF ArmedInv
  <2>3. Port(entries[j].name, j) # p /\ Port(entries[j].name, j) \in Ports
    BY <1>5, <2>1, TargetPorts, PortType, EntryFields DEF Live, TypeOK, p
  <2> QED BY <1>4, <1>5, <2>1, <2>2, <2>3 DEF HeldFor
<1>7. HeldFor(Port(arming.name, arming.idx), arming.idx,
              entries[arming.idx].gen + 1, regs, arming.name)'
  BY <1>3, <1>4, <1>5 DEF HeldFor, p
<1>8. ASSUME NEW q \in Ports, armed'[q] # None
      PROVE  \/ Live(armed[q].idx)' /\ q = Port(entries[armed[q].idx].name, armed[q].idx)'
             \/ step' = "arming" /\ armed'[q].idx = arming'.idx /\ q = Port(arming.name, arming.idx)'
  <2>1. CASE q = p
    BY <1>3, <1>4, <1>5, <2>1 DEF p
  <2>2. CASE q # p
    <3>1. armed'[q] = armed[q]
      BY <1>4, <2>2
    <3>2. Live(armed[q].idx) /\ q = Port(entries[armed[q].idx].name, armed[q].idx)
      BY <1>5, <1>8, <3>1 DEF ArmedInv
    <3> QED BY <1>5, <3>1, <3>2 DEF Live
  <2> QED BY <2>1, <2>2
<1> QED BY <1>5, <1>6, <1>7, <1>8 DEF ArmedInv

\* The registration is recorded: its handler is that of its entry.
LEMMA HandlerRecorded ==
    ASSUME TypeOK, TableInv, ArmedInv, Record
    PROVE  ArmedInv'
<1> USE DEF platform
<1> SUFFICES ASSUME faults = 0 PROVE ArmedInv'
  BY DEF ArmedInv, Record
<1>0. PICK i \in Idx, name \in Names : i = arming.idx /\ name = arming.name
  BY DEF Record, TypeOK, Armings, TableInv, ArmingTarget
<1> DEFINE p == Port(name, i)
<1>1. step = "arming" /\ step' = "ready" /\ UNCHANGED <<armed, leaked, faults, regs>>
      /\ entries' = [entries EXCEPT ![i] = Recorded]
  BY <1>0 DEF Record
<1>2. Target(name, i) /\ p \in Ports /\ name # None
  BY <1>0, <1>1, PortType, NamesAssumption DEF TableInv, ArmingTarget
<1>3. Recorded.gen = entries[i].gen + 1 /\ Recorded.reg = regs /\ Recorded.name = name
  BY <1>0 DEF Recorded
<1>4. entries'[i] = Recorded /\ \A j \in Idx : j # i => entries'[j] = entries[j]
  BY <1>1, <1>2 DEF TypeOK
<1>6. HeldFor(p, i, entries[i].gen + 1, regs, name)
  BY <1>0, <1>1 DEF ArmedInv
<1> HIDE DEF p
<1>5. Live(i)' /\ \A j \in Idx : j # i => (Live(j)' <=> Live(j))
  <2>1. entries'[i].name # None
    BY <1>2, <1>3, <1>4
  <2> QED BY <1>4, <2>1 DEF Live
<1>7. ASSUME NEW j \in LiveIdx'
      PROVE  HeldFor(Port(entries[j].name, j), j, entries[j].gen, entries[j].reg, entries[j].name)'
  <2>1. CASE j = i
    BY <1>1, <1>3, <1>4, <1>6, <2>1 DEF HeldFor, p
  <2>2. CASE j # i
    <3>1. j \in Idx /\ j \in LiveIdx /\ ~(j = arming.idx)
      BY <1>0, <1>5, <2>2 DEF LiveIdx
    <3>2. HeldFor(Port(entries[j].name, j), j, entries[j].gen, entries[j].reg, entries[j].name)
      BY <3>1 DEF ArmedInv
    <3> QED BY <1>1, <1>4, <2>2, <3>1, <3>2 DEF HeldFor
  <2> QED BY <2>1, <2>2
<1>8. ASSUME NEW q \in Ports, armed'[q] # None
      PROVE  Live(armed[q].idx)' /\ q = Port(entries[armed[q].idx].name, armed[q].idx)'
  <2>1. PICK k \in Idx : k = armed[q].idx /\ k = armed'[q].idx /\ armed[q] # None
    BY <1>1, <1>8 DEF TypeOK, Handlers
  <2>2. \/ Live(k) /\ q = Port(entries[k].name, k)
        \/ k = i /\ q = p
    BY <1>0, <2>1 DEF ArmedInv, p
  <2>3. CASE k # i
    BY <1>4, <1>5, <2>1, <2>2, <2>3
  <2>4. CASE k = i
    <3>1. Live(i) => entries[i].name = name
      BY <1>2, TargetPort
    <3> QED BY <1>3, <1>4, <1>5, <2>1, <2>2, <2>4, <3>1 DEF p
  <2> QED BY <2>3, <2>4
<1>9. leaked' = {}
  BY <1>1 DEF ArmedInv
<1> QED BY <1>1, <1>7, <1>8, <1>9 DEF ArmedInv

\* A clear in which nothing fails leaves no handler.
LEMMA HandlersCleared ==
    ASSUME TypeOK, ArmedInv, ClearTable, step # "arming"
    PROVE  /\ ArmedInv'
           /\ faults' = 0 => faults = 0 /\ leaked' = {} /\ \A p \in Ports : armed'[p] = None
<1> USE DEF round
<1>1. PICK stuck \in SUBSET {i \in LiveIdx : entries[i].name \notin Wifis} :
        /\ faults' = faults + Cardinality(stuck)
        /\ armed' = [p \in Ports |->
              IF \E i \in LiveIdx \ stuck : p = Port(entries[i].name, i)
                THEN None ELSE armed[p]]
        /\ entries' = [i \in Idx |-> FreeEntry(0)]
        /\ UNCHANGED <<leaked, step>>
  BY DEF ClearTable
<1>2. LiveIdx' = {}
  BY <1>1, FreeEntryType DEF LiveIdx, Live
<1>3. IsFiniteSet(stuck) /\ Cardinality(stuck) \in Nat /\ faults \in Nat
  BY IdxFinite DEF LiveIdx, TypeOK
<1>4. ASSUME faults' = 0
      PROVE  faults = 0 /\ leaked' = {} /\ \A p \in Ports : armed'[p] = None
  <2>1. faults = 0 /\ Cardinality(stuck) = 0
    BY <1>1, <1>3, <1>4
  <2>2. stuck = {}
    BY <1>3, <2>1, FS_EmptySet
  <2>3. leaked' = {}
    BY <1>1, <2>1 DEF ArmedInv
  <2>4. ASSUME NEW p \in Ports PROVE armed'[p] = None
    <3>1. CASE armed[p] = None
      BY <1>1, <3>1
    <3>2. CASE armed[p] # None
      <4>1. Live(armed[p].idx) /\ p = Port(entries[armed[p].idx].name, armed[p].idx)
        BY <2>1, <3>2 DEF ArmedInv
      <4>2. armed[p].idx \in LiveIdx \ stuck
        BY <2>2, <3>2, <4>1 DEF LiveIdx, TypeOK, Handlers
      <4> QED BY <1>1, <4>1, <4>2
    <3> QED BY <3>1, <3>2
  <2> QED BY <2>1, <2>3, <2>4
<1> QED BY <1>1, <1>2, <1>4 DEF ArmedInv

\* Marking an entry does not touch its binding.
LEMMA MarkedBinding ==
    ASSUME NEW e \in Entries, NEW c
    PROVE  /\ Marked(e, c).name = e.name /\ Marked(e, c).gen = e.gen
           /\ Marked(e, c).reg = e.reg /\ Marked(e, c).regAt = e.regAt
BY DEF Marked, Entries

(***************************************************************************)
(* What is pending.                                                        *)
(***************************************************************************)
\* What several steps do to pending flags and bodies: nothing, or less.
LEMMA PendingStays ==
    ASSUME TypeOK, TypeOK', PendingIsOwn,
           faults' = 0 => faults = 0, epoch' = epoch,
           \A i \in Idx : entries'[i].pending =>
             /\ entries[i].pending /\ entries'[i].name = entries[i].name
             /\ entries'[i].reg = entries[i].reg /\ entries'[i].origin = entries[i].origin
             /\ entries'[i].regAt = entries[i].regAt,
           InBody' => InBody /\ Top'.origin = Top.origin /\ Top'.body = Top.body
    PROVE  PendingIsOwn'
<1> SUFFICES ASSUME faults' = 0 \/ epoch' = 0 PROVE PendingIsOwn'
  BY DEF PendingIsOwn
<1>1. faults = 0 \/ epoch = 0
  OBVIOUS
<1>2. ASSUME NEW i \in Idx, entries'[i].pending
      PROVE  LET o == entries'[i].origin IN
               /\ Live(i)'
               /\ o.reg = entries'[i].reg \/ (o.epoch < epoch' /\ o.at = entries'[i].regAt)
  BY <1>1, <1>2 DEF PendingIsOwn, Live
<1>3. InBody' => Top'.origin.reg = Top'.body \/ Top'.origin.epoch < epoch'
  BY <1>1 DEF PendingIsOwn
<1> QED BY <1>2, <1>3 DEF PendingIsOwn

\* On a clock that has not gone half its range, no candidate is accepted for
\* a registration that is younger.
LEMMA HalfRangeTells ==
    ASSUME NEW a \in Ms, NEW b \in Ms, MaxMs <= HalfRange, Delta(a, b) <= HalfRange
    PROVE  b <= a
<1> DEFINE m == ClockMod
<1>1. m \in Nat /\ m > 0 /\ a \in Nat /\ b \in Nat /\ b <= MaxMs
  BY ClockAssumption DEF Ms
<1>2. HalfRange = (m \div 2) - 1 /\ Delta(a, b) = (a - b) % m
  BY DEF HalfRange, Delta
<1>3. SUFFICES ASSUME a < b PROVE FALSE
  BY <1>1
<1>4. m \div 2 \in Int /\ 2 * (m \div 2) <= m
  BY <1>1
<1>5. (a - b) % m = m - (b - a)
  <2>1. b - a \in 1 .. m - 1
    BY <1>1, <1>2, <1>3, <1>4
  <2> HIDE DEF m
  <2> QED BY <1>1, <2>1
<1> QED BY <1>1, <1>2, <1>3, <1>4, <1>5

\* And on a candidate that is not, it measures its age.
LEMMA DeltaIsAge ==
    ASSUME NEW a \in Ms, NEW b \in Ms, MaxMs <= HalfRange, b <= a
    PROVE  Delta(a, b) = a - b /\ Delta(a, b) <= HalfRange
<1> DEFINE m == ClockMod
<1>1. m \in Nat /\ m > 0 /\ a \in Nat /\ b \in Nat /\ a <= MaxMs
  BY ClockAssumption DEF Ms
<1>2. HalfRange = (m \div 2) - 1 /\ Delta(a, b) = (a - b) % m
  BY DEF HalfRange, Delta
<1>4. m \div 2 \in Int /\ 2 * (m \div 2) <= m
  BY <1>1
<1>5. a - b \in 0 .. m - 1
  BY <1>1, <1>2, <1>4
<1>6. (a - b) % m = a - b
  BY <1>1, <1>5
<1> QED BY <1>1, <1>2, <1>6

(***************************************************************************)
(* Every step preserves stamps, handlers and faults.                       *)
(***************************************************************************)
\* The types of the state after a step.
LEMMA InvTypes == IInv => TypeOK /\ TableInv
BY DEF IInv

\* A step that leaves the table and the platform's handlers alone.
LEMMA TableStays ==
    ASSUME IInv, IInv', StampsInv, ArmedInv,
           UNCHANGED <<entries, regs, arming, armed, leaked, epoch, faults>>,
           step' = "arming" <=> step = "arming",
           Waiting' \subseteq Waiting, now <= now'
    PROVE  StampsInv' /\ ArmedInv'
<1>1. TypeOK /\ TypeOK' /\ TableInv /\ TableInv'
  BY DEF IInv
<1>2. Held' = Held
  BY DEF Held
<1>3. \A s \in Stamps : (Known(s) => Known(s)') /\ (Own(s) => Own(s)')
  BY BindingsStay
<1>4. \A i \in Idx : Live(i)' => Live(i) /\ entries'[i].regAt = entries[i].regAt
  BY DEF Live
<1>5. StampsInv'
  BY <1>1, <1>2, <1>3, <1>4, StampsStep
<1>6. ArmedInv'
  BY <1>1, HandlersStay
<1> QED BY <1>5, <1>6

\* The queue takes at most the candidate of the handler that fires.
LEMMA EnqueueWaits ==
    ASSUME TypeOK, NEW h \in Handlers, Enqueue(h), batch' = batch
    PROVE  \A c \in Waiting' :
             c \in Waiting \/ (c.at = now /\ c.epoch = epoch /\ Stamp(c) = Stamp(h))
<1> DEFINE c == [idx |-> h.idx, gen |-> h.gen, at |-> now, reg |-> h.reg, epoch |-> epoch]
<1>1. c \in Candidates /\ c.at = now /\ c.epoch = epoch /\ Stamp(c) = Stamp(h)
  BY DEF TypeOK, Handlers, Candidates, Stamp
<1>2. queue' = queue \/ queue' = Append(queue, c)
  BY DEF Enqueue
<1> HIDE DEF c
<1>3. queue \in Seq(Candidates) /\ Len(queue) \in Nat
  BY LenProperties DEF TypeOK
<1>4. CASE queue' = queue
  BY <1>4 DEF Waiting
<1>5. CASE queue' = Append(queue, c)
  <2>1. Len(queue') = Len(queue) + 1 /\ queue'[Len(queue) + 1] = c
        /\ \A k \in 1 .. Len(queue) : queue'[k] = queue[k]
    BY <1>1, <1>3, <1>5, AppendProperties
  <2>2. \A k \in 1 .. Len(queue') : k \in 1 .. Len(queue) \/ k = Len(queue) + 1
    BY <1>3, <2>1
  <2>3. \A k \in 1 .. Len(queue') : queue'[k] = c \/ queue'[k] \in Waiting
    BY <2>1, <2>2 DEF Waiting
  <2> QED BY <1>1, <2>3 DEF Waiting
<1> QED BY <1>2, <1>4, <1>5

\* Interrupts and timers: a handler fires with its own stamp.
LEMMA FireKeeps ==
    ASSUME IInv, IInv', SInv, (\E p \in Ports : Fire(p)) \/ \E h \in leaked : LeakedFire(h)
    PROVE  SInv'
<1> USE DEF table, platform, notice, round, session
<1>1. TypeOK /\ TypeOK' /\ TableInv /\ TableInv' /\ StampsInv /\ ArmedInv /\ FaultInv
  BY DEF IInv, SInv
<1>2. UNCHANGED <<entries, regs, arming, epoch, faults, step, now, stack, result, batch>>
  BY DEF Fire, LeakedFire
<1>3. FaultInv'
  BY <1>1, <1>2 DEF FaultInv, FaultReported
<1>4. \A s \in Stamps : (Known(s) => Known(s)') /\ (Own(s) => Own(s)')
  BY <1>2, BindingsStay
<1>5. \A i \in Idx : Live(i)' => Live(i) /\ entries'[i].regAt = entries[i].regAt
  BY <1>2 DEF Live
<1>6. now <= now'
  BY <1>1, <1>2 DEF TypeOK, Ms
<1>7. ASSUME NEW p \in Ports, Fire(p) PROVE StampsInv' /\ ArmedInv'
  <2>1. armed[p] \in Handlers /\ armed[p] # None /\ armed[p] \in Held
        /\ armed' = [armed EXCEPT ![p] = Fired(armed[p])] /\ leaked' = leaked
        /\ Enqueue(armed[p])
    BY <1>1, <1>7 DEF Fire, TypeOK, Held
  <2> DEFINE h == armed[p]
             f == Fired(h)
  <2>2. f \in Handlers /\ f.idx = h.idx /\ f.gen = h.gen /\ f.reg = h.reg /\ f.once = h.once
        /\ (f.stopped => h.stopped \/ h.once) /\ f # None
    <3> HIDE DEF h
    <3>1. h \in Handlers
      BY <2>1 DEF h
    <3> QED BY <3>1, NoneAssumption DEF Fired, Handlers
  <2> HIDE DEF f
  <2>3. armed'[p] = f /\ \A q \in Ports : q # p => armed'[q] = armed[q]
    BY <1>1, <2>1 DEF TypeOK, f
  <2>4. Stamp(f) = Stamp(h)
    BY <2>2 DEF Stamp
  <2>5. \A g \in Held' : \E k \in Held : Stamp(k) = Stamp(g)
    BY <2>1, <2>3, <2>4 DEF Held
  <2>6. \A c \in Waiting' :
          c \in Waiting \/ (c.at = now /\ c.epoch = epoch /\ Stamp(c) = Stamp(h))
    BY <1>1, <1>2, <2>1, EnqueueWaits
  <2>7. StampsInv'
    BY <1>1, <1>2, <1>4, <1>5, <1>6, <2>1, <2>5, <2>6, StampsStep
  <2>8. \A q \in Ports :
          /\ armed'[q] = None <=> armed[q] = None
          /\ armed'[q].idx = armed[q].idx /\ armed'[q].gen = armed[q].gen
          /\ armed'[q].reg = armed[q].reg /\ armed'[q].once = armed[q].once
          /\ armed'[q].stopped => armed[q].stopped \/ armed[q].once
    BY <2>1, <2>2, <2>3
  <2> HIDE DEF h
  <2>9. ArmedInv'
    BY <1>1, <1>2, <2>1, <2>8, HandlersStay
  <2> QED BY <2>7, <2>9
<1>8. ASSUME NEW h \in leaked, LeakedFire(h) PROVE StampsInv' /\ ArmedInv'
  <2>1. h \in Handlers /\ h # None /\ h \in Held /\ Enqueue(h) /\ armed' = armed
        /\ leaked' \subseteq leaked
    BY <1>1, <1>8, NoneAssumption DEF LeakedFire, TypeOK, Held
  <2>2. Held' \subseteq Held
    BY <2>1 DEF Held
  <2>3. \A c \in Waiting' :
          c \in Waiting \/ (c.at = now /\ c.epoch = epoch /\ Stamp(c) = Stamp(h))
    BY <1>1, <1>2, <2>1, EnqueueWaits
  <2>4. StampsInv'
    BY <1>1, <1>2, <1>4, <1>5, <1>6, <2>1, <2>2, <2>3, StampsStep
  <2>5. ArmedInv'
    BY <1>1, <1>2, <2>1, HandlersStay
  <2> QED BY <2>4, <2>5
<1> QED BY <1>3, <1>7, <1>8 DEF SInv

\* A registration starts, from user code or from a restore.
LEMMA ArmKeepsOrigin ==
    ASSUME IInv, IInv', SInv, NEW name \in Names, NEW debounce, Arm(name, debounce),
           epoch' = epoch
    PROVE  SInv'
<1> USE DEF table, notice, round
<1>1. TypeOK /\ TypeOK' /\ TableInv /\ TableInv' /\ StampsInv /\ ArmedInv /\ FaultInv
  BY DEF IInv, SInv
<1>2. UNCHANGED <<entries, queue, now, batch, stack, result>> /\ step = "ready"
      /\ step' = "arming" /\ regs' = regs + 1
  BY DEF Arm
<1>3. FaultInv'
  BY <1>1, <1>2 DEF FaultInv, FaultReported
<1>4. ArmedInv'
  BY <1>1, HandlerArmed
<1>5. \A s \in Stamps : (Known(s) => Known(s)') /\ (Own(s) => Own(s)')
  BY <1>1, <1>2, EntryArmed
<1>6. \A i \in Idx : Live(i)' => Live(i) /\ entries'[i].regAt = entries[i].regAt
  BY <1>2 DEF Live
<1>7. PICK i \in Idx :
        LET p == Port(name, i)
            h == Handler(i, entries[i].gen + 1, name, regs + 1)
        IN /\ Target(name, i)
           /\ arming' = [idx |-> i, name |-> name, debounce |-> debounce]
           /\ \/ armed' = [armed EXCEPT ![p] = h] /\ UNCHANGED <<leaked, faults>>
              \/ /\ name \in Timers /\ armed[p] # None /\ faults < MaxFaults
                 /\ faults' = faults + 1
                 /\ leaked' = IF armed[p].stopped THEN leaked
                                                  ELSE leaked \cup {armed[p]}
                 /\ \E off \in BOOLEAN :
                      armed' = [armed EXCEPT ![p] = [h EXCEPT !.stopped = off]]
  BY DEF Arm
<1> DEFINE p == Port(name, i)
           h == Handler(i, entries[i].gen + 1, name, regs + 1)
<1>8. p \in Ports /\ h \in Handlers
  <2>1. regs + 1 \in Regs
    BY <1>1 DEF Arm, TypeOK, Regs
  <2>2. entries[i].gen + 1 \in Nat
    BY <1>1, EntryFields, SMTT(30) DEF TypeOK
  <2> QED BY <2>1, <2>2, HandlerType, PortType
<1>9. \A off \in BOOLEAN : Stamp([h EXCEPT !.stopped = off]) = Stamp(h)
  BY <1>8 DEF Handlers, Stamp
<1>10. PICK s : s = Stamp(h)
  OBVIOUS
<1>11. Arriving(s)'
  <2>1. s.idx = i /\ s.gen = entries[i].gen + 1 /\ s.reg = regs + 1
    BY <1>10 DEF Stamp, Handler
  <2>2. arming'.idx = i
    BY <1>7
  <2> QED BY <1>2, <2>1, <2>2 DEF Arriving
<1>12. PICK g : Stamp(g) = Stamp(h) /\ armed' = [armed EXCEPT ![p] = g]
  BY <1>7, <1>9
<1>13. leaked' \subseteq leaked \cup (IF armed[p] = None THEN {} ELSE {armed[p]})
       /\ (faults' = 0 => faults = 0)
  <2>1. faults \in Nat
    BY <1>1 DEF TypeOK
  <2> HIDE DEF h, p
  <2>2. UNCHANGED <<leaked, faults>> \/ (armed[p] # None /\ faults' = faults + 1 /\
          leaked' = IF armed[p].stopped THEN leaked ELSE leaked \cup {armed[p]})
    BY <1>7 DEF p
  <2> QED BY <2>1, <2>2
<1> HIDE DEF h
<1>14. ASSUME NEW k \in Held'
       PROVE  Arriving(Stamp(k))' \/ \E j \in Held : Stamp(j) = Stamp(k)
  <2>1. k # None /\ (k \in leaked' \/ \E q \in Ports : k = armed'[q])
    BY DEF Held
  <2>2. CASE k \in leaked'
    BY <1>8, <1>13, <2>1, <2>2 DEF Held
  <2>3. CASE \E q \in Ports : k = armed'[q]
    <3>1. k = g \/ \E q \in Ports : k = armed[q]
      BY <1>1, <1>8, <1>12, <2>3 DEF TypeOK
    <3>2. k = g => Stamp(k) = s
      BY <1>10, <1>12
    <3>3. (\E q \in Ports : k = armed[q]) => k \in Held
      BY <2>1 DEF Held
    <3>4. k = g => Arriving(Stamp(k))'
      BY <1>11, <3>2
    <3> QED BY <3>1, <3>3, <3>4
  <2> QED BY <2>1, <2>2, <2>3
<1>15. Waiting' = Waiting
  BY <1>2 DEF Waiting
<1>16. now <= now'
  BY <1>1, <1>2 DEF TypeOK, Ms
<1>17. StampsInv'
  BY <1>1, <1>5, <1>6, <1>13, <1>14, <1>15, <1>16, StampsStep
<1> QED BY <1>3, <1>4, <1>17 DEF SInv

\* The registration is recorded.
LEMMA RecordKeepsOrigin ==
    ASSUME IInv, IInv', SInv, Record
    PROVE  SInv'
<1> USE DEF platform, round, session
<1>1. TypeOK /\ TypeOK' /\ TableInv /\ TableInv' /\ StampsInv /\ ArmedInv /\ FaultInv
  BY DEF IInv, SInv
<1>2. UNCHANGED <<armed, leaked, queue, batch, now, epoch, faults, stack, result>>
      /\ entries' = [entries EXCEPT ![arming.idx] = Recorded]
  BY DEF Record
<1>3. FaultInv'
  BY <1>1, <1>2 DEF FaultInv, FaultReported
<1>4. ArmedInv'
  BY <1>1, HandlerRecorded
<1>5. \A s \in Stamps : (Known(s) => Known(s)') /\ (Own(s) => Own(s)')
  BY <1>1, EntryRecorded
<1>6. \A i \in Idx : Live(i)' => \/ entries'[i].regAt = now
                                 \/ Live(i) /\ entries'[i].regAt = entries[i].regAt
  <2>1. Recorded.regAt = now
    BY DEF Recorded
  <2>2. \A i \in Idx : entries'[i] = Recorded \/ entries'[i] = entries[i]
    BY <1>1, <1>2 DEF TypeOK
  <2> QED BY <2>1, <2>2 DEF Live
<1>7. Waiting' = Waiting /\ Held' = Held /\ now <= now'
  BY <1>1, <1>2 DEF Waiting, Held, TypeOK, Ms
<1>8. StampsInv'
  BY <1>1, <1>2, <1>5, <1>6, <1>7, StampsStep
<1> QED BY <1>3, <1>4, <1>8 DEF SInv

\* A binding leaves the table: cancelled, or an `after` whose body starts.
LEMMA FreeKeepsOrigin ==
    ASSUME IInv, IInv', StampsInv, ArmedInv, NEW i \in Idx, Live(i), step = "ready",
           entries' = [entries EXCEPT ![i] = FreeEntry(entries[i].gen + 1)],
           armed' = [armed EXCEPT ![Port(entries[i].name, i)] = None],
           UNCHANGED <<leaked, queue, batch, now, regs, arming, epoch, faults, step>>
    PROVE  StampsInv' /\ ArmedInv'
<1>1. TypeOK /\ TypeOK' /\ TableInv /\ TableInv'
  BY DEF IInv
<1> DEFINE e == FreeEntry(entries[i].gen + 1)
<1>2. e \in Entries /\ e.name = None /\ e.gen = entries[i].gen + 1
  <2>1. entries[i].gen + 1 \in Nat
    BY <1>1, EntryFields DEF TypeOK
  <2>2. e.gen = entries[i].gen + 1
    BY DEF FreeEntry
  <2> QED BY <2>1, <2>2, FreeEntryType
<1> HIDE DEF e
<1>3. entries' = [entries EXCEPT ![i] = e]
  BY DEF e
<1>4. ArmedInv'
  BY <1>1, <1>2, <1>3, HandlerFreed
<1>5. \A s \in Stamps : (Known(s) => Known(s)') /\ (Own(s) => Own(s)')
  BY <1>1, <1>2, <1>3, EntryFreed
<1>6. \A j \in Idx : Live(j)' => Live(j) /\ entries'[j].regAt = entries[j].regAt
  BY <1>1, <1>2, <1>3 DEF Live, TypeOK
<1>7. Held' \subseteq Held
  <2>1. Port(entries[i].name, i) \in Ports
    BY <1>1, PortType, EntryFields DEF TypeOK, Live
  <2>2. \A q \in Ports : armed'[q] = None \/ armed'[q] = armed[q]
    BY <1>1, <2>1 DEF TypeOK
  <2> QED BY <2>2 DEF Held
<1>8. Waiting' = Waiting /\ now <= now'
  BY <1>1 DEF Waiting, TypeOK, Ms
<1>9. StampsInv'
  BY <1>1, <1>5, <1>6, <1>7, <1>8, StampsStep
<1> QED BY <1>4, <1>9

\* User code registers, cancels, or fails to.
LEMMA UserKeepsOrigin ==
    ASSUME IInv, IInv', SInv,
           \/ \E name \in Names : \E debounce \in DebounceOf(name) : Register(name, debounce)
           \/ Record
           \/ \E name \in Names : Cancel(name)
           \/ \E i \in Idx : CallFails(i)
    PROVE  SInv'
<1> USE DEF table, platform, notice, round, session
<1>1. ASSUME NEW name \in Names, NEW debounce \in DebounceOf(name), Register(name, debounce)
      PROVE  SInv'
  BY <1>1, ArmKeepsOrigin DEF Register
<1>2. CASE Record
  BY <1>2, RecordKeepsOrigin
<1>3. ASSUME NEW name \in Names, Cancel(name) PROVE SInv'
  <2>1. PICK i \in Matches(name) :
          /\ armed' = [armed EXCEPT ![Port(name, i)] = None]
          /\ entries' = [entries EXCEPT ![i] = FreeEntry(@.gen + 1)]
    BY <1>3 DEF Cancel
  <2>2. i \in Idx /\ entries[i].name = name /\ Live(i)
    BY NamesAssumption DEF Matches, Live
  <2>3. entries' = [entries EXCEPT ![i] = FreeEntry(entries[i].gen + 1)]
        /\ armed' = [armed EXCEPT ![Port(entries[i].name, i)] = None]
        /\ UNCHANGED <<leaked, queue, batch, now, regs, arming, epoch, faults, step, stack, result>>
        /\ step = "ready"
    BY <1>3, <2>1, <2>2 DEF Cancel, Running
  <2>4. FaultInv'
    BY <2>3 DEF SInv, FaultInv, FaultReported
  <2> QED BY <2>2, <2>3, <2>4, FreeKeepsOrigin DEF SInv
<1>4. ASSUME NEW i \in Idx, CallFails(i) PROVE SInv'
  <2>1. TypeOK /\ TypeOK' /\ TableInv /\ TableInv' /\ StampsInv /\ ArmedInv /\ FaultInv
    BY DEF IInv, SInv
  <2>2. UNCHANGED <<entries, regs, arming, leaked, epoch, step, now, stack, result, batch, queue>>
        /\ faults' = faults + 1
    BY <1>4 DEF CallFails
  <2>3. FaultInv'
    BY <2>1, <2>2 DEF FaultInv, FaultReported
  <2>4. \A s \in Stamps : (Known(s) => Known(s)') /\ (Own(s) => Own(s)')
    BY <2>2, BindingsStay
  <2>5. \A j \in Idx : Live(j)' => Live(j) /\ entries'[j].regAt = entries[j].regAt
    BY <2>2 DEF Live
  <2>6. now <= now' /\ Waiting' = Waiting /\ faults' # 0
    BY <2>1, <2>2 DEF TypeOK, Ms, Waiting
  <2> DEFINE p == Port(entries[i].name, i)
             h == armed[p]
             f == [h EXCEPT !.stopped = TRUE]
  <2>7. armed' = [armed EXCEPT ![p] = None]
        \/ (h # None /\ armed' = [armed EXCEPT ![p] = f])
    BY <1>4 DEF CallFails
  <2>8. p \in Ports
    BY <1>4, <2>1, PortType, EntryFields DEF TypeOK, Live, CallFails
  <2>9. h # None => h \in Handlers
    BY <2>1, <2>8 DEF TypeOK
  <2> HIDE DEF h
  <2>10. h # None => Stamp(f) = Stamp(h)
    BY <2>9 DEF Handlers, Stamp
  <2> HIDE DEF f, p
  <2>11. \A q \in Ports : \/ armed'[q] = None \/ armed'[q] = armed[q]
                          \/ armed'[q] = f /\ h # None
    BY <2>1, <2>7, <2>8 DEF TypeOK
  <2>12. h # None => h \in Held
    BY <2>8 DEF Held, h
  <2>13. \A k \in Held' : \E g \in Held : Stamp(g) = Stamp(k)
    BY <2>2, <2>10, <2>11, <2>12 DEF Held
  <2>14. StampsInv'
    BY <2>1, <2>2, <2>4, <2>5, <2>6, <2>13, StampsStep
  <2>15. ArmedInv'
    BY <2>6 DEF ArmedInv
  <2> QED BY <2>3, <2>14, <2>15 DEF SInv
<1> QED BY <1>1, <1>2, <1>3, <1>4

\* All elements of p are of q.
Among(p, q) == \A k \in 1 .. Len(p) : \E j \in 1 .. Len(q) : p[k] = q[j]

\* The parts of a queue are of the queue.
LEMMA PartOf ==
    ASSUME NEW S, NEW q \in Seq(S), NEW m \in Nat \ {0}, NEW n \in Nat, n <= Len(q)
    PROVE  Among(SubSeq(q, m, n), q)
<1>1. Len(q) \in Nat
  BY LenProperties
<1>2. \A k \in m .. n : q[k] \in S
  BY <1>1, ElementOfSeq
<1>3. /\ Len(SubSeq(q, m, n)) = IF m <= n THEN n - m + 1 ELSE 0
      /\ \A k \in 1 .. n - m + 1 : SubSeq(q, m, n)[k] = q[m + k - 1]
  BY <1>2, SubSeqProperties
<1>4. ASSUME NEW k \in 1 .. Len(SubSeq(q, m, n))
      PROVE  k \in 1 .. n - m + 1 /\ m + k - 1 \in 1 .. Len(q)
  BY <1>1, <1>3
<1> QED BY <1>3, <1>4 DEF Among

\* A drain moves candidates, looks at one, or ends.
LEMMA DrainKeepsOrigin ==
    ASSUME IInv, IInv', SInv, SafePoint \/ IdleService \/ Accept \/ Dispatch
    PROVE  SInv'
<1> USE DEF table, platform, notice, round, session
<1>1. TypeOK /\ TypeOK' /\ TableInv /\ TableInv' /\ StampsInv /\ ArmedInv /\ FaultInv
  BY DEF IInv, SInv
<1>2. now <= now
  BY <1>1 DEF TypeOK, Ms
<1>3. CASE SafePoint \/ IdleService
  <2> DEFINE count == IF Len(queue) < BindingCount THEN Len(queue) ELSE BindingCount
  <2>1. UNCHANGED <<entries, armed, leaked, now, arming, stack, result, regs, epoch, faults>>
        /\ step = "ready" /\ step' = "draining"
        /\ batch' = SubSeq(queue, 1, count) /\ queue' = SubSeq(queue, count + 1, Len(queue))
    BY <1>3 DEF SafePoint, IdleService, TakeBatch, Running, AtPrompt
  <2>2. queue \in Seq(Candidates) /\ Len(queue) \in Nat
    BY <1>1, LenProperties DEF TypeOK
  <2>3. count \in Nat /\ count <= Len(queue) /\ count + 1 \in Nat \ {0} /\ 1 \in Nat \ {0}
    BY <2>2
  <2> HIDE DEF count
  <2>4. \A k \in 1 .. Len(batch') : \E j \in 1 .. Len(queue) : batch'[k] = queue[j]
    <3>1. PICK one \in Nat \ {0} : one = 1
      OBVIOUS
    <3>2. Among(SubSeq(queue, one, count), queue)
      BY <2>2, <2>3, PartOf
    <3> QED BY <2>1, <3>1, <3>2 DEF Among
  <2>5. Len(queue) <= Len(queue)
    BY <2>2
  <2>6. \A k \in 1 .. Len(queue') : \E j \in 1 .. Len(queue) : queue'[k] = queue[j]
    <3>1. Among(SubSeq(queue, count + 1, Len(queue)), queue)
      BY <2>2, <2>3, <2>5, PartOf
    <3> QED BY <2>1, <3>1 DEF Among
  <2>7. Waiting' \subseteq Waiting
    BY <2>4, <2>6 DEF Waiting
  <2>8. FaultInv'
    BY <1>1, <2>1 DEF FaultInv, FaultReported
  <2> QED BY <1>1, <1>2, <2>1, <2>7, <2>8, TableStays DEF SInv
<1>4. CASE Accept
  <2> DEFINE i == Head(batch).idx
             e == Marked(entries[i], Head(batch))
  <2>1. UNCHANGED <<armed, leaked, queue, now, arming, stack, result, regs, epoch, faults, step>>
        /\ batch' = Tail(batch) /\ batch # <<>> /\ entries' = [entries EXCEPT ![i] = e]
    BY <1>4 DEF Accept
  <2>2. batch \in Seq(Candidates)
    BY <1>1 DEF TypeOK
  <2>3. Head(batch) \in Candidates /\ Len(Tail(batch)) = Len(batch) - 1 /\ Len(batch) \in Nat
        /\ \A k \in 1 .. Len(Tail(batch)) : Tail(batch)[k] = batch[k + 1]
    BY <2>1, <2>2, HeadTailProperties, LenProperties
  <2>4. i \in Idx
    BY <2>3 DEF Candidates
  <2>5. entries[i] \in Entries
    BY <1>1, <2>4 DEF TypeOK
  <2>6. e.name = entries[i].name /\ e.gen = entries[i].gen /\ e.reg = entries[i].reg
        /\ e.regAt = entries[i].regAt
    BY <2>5, MarkedBinding
  <2> HIDE DEF e, i
  <2>7. \A j \in Idx : /\ entries'[j].name = entries[j].name
                       /\ entries'[j].gen = entries[j].gen
                       /\ entries'[j].reg = entries[j].reg
                       /\ entries'[j].regAt = entries[j].regAt
    BY <1>1, <2>1, <2>4, <2>6 DEF TypeOK
  <2>8. Waiting' \subseteq Waiting
    <3>1. \A k \in 1 .. Len(batch') : \E j \in 1 .. Len(batch) : batch'[k] = batch[j]
      <4>1. \A k \in 1 .. Len(batch') : k + 1 \in 1 .. Len(batch)
        BY <2>1, <2>3
      <4> QED BY <2>1, <2>3, <4>1
    <3> QED BY <2>1, <3>1 DEF Waiting
  <2>9. Held' = Held /\ \A j \in Idx : Live(j)' => Live(j)
    BY <2>1, <2>7 DEF Held, Live
  <2>10. \A s \in Stamps : (Known(s) => Known(s)') /\ (Own(s) => Own(s)')
    BY <2>1, <2>7, BindingsStay
  <2>11. StampsInv'
    BY <1>1, <1>2, <2>1, <2>7, <2>8, <2>9, <2>10, StampsStep
  <2>12. ArmedInv'
    BY <1>1, <2>1, <2>7, HandlersStay
  <2>13. FaultInv'
    BY <1>1, <2>1 DEF FaultInv, FaultReported
  <2> QED BY <2>11, <2>12, <2>13 DEF SInv
<1>5. CASE Dispatch
  <2>1. UNCHANGED <<entries, armed, leaked, queue, batch, now, arming, result, regs, epoch, faults>>
        /\ step = "draining" /\ step' = "ready"
        /\ (stack' = stack \/ stack' = Append(stack, NewFrame))
    BY <1>5 DEF Dispatch
  <2>2. Waiting' = Waiting
    BY <2>1 DEF Waiting
  <2>3. FaultInv'
    <3>1. CASE stack' = stack
      BY <1>1, <2>1, <3>1 DEF FaultInv, FaultReported
    <3>2. CASE stack' = Append(stack, NewFrame)
      <4>1. stack \in Seq(Frames) /\ NewFrame \in Frames /\ ~NewFrame.faulted /\ Len(stack) \in Nat
        BY <1>1, FrameTypes, LenProperties DEF TypeOK, NewFrame
      <4>2. Len(stack') = Len(stack) + 1 /\ stack'[Len(stack) + 1] = NewFrame
            /\ \A k \in 1 .. Len(stack) : stack'[k] = stack[k]
        BY <3>2, <4>1, AppendProperties
      <4>3. \A k \in 1 .. Len(stack') : k \in 1 .. Len(stack) \/ k = Len(stack) + 1
        BY <4>1, <4>2
      <4> QED BY <1>1, <2>1, <4>1, <4>2, <4>3 DEF FaultInv, FaultReported
    <3> QED BY <2>1, <3>1, <3>2
  <2> QED BY <1>1, <1>2, <2>1, <2>2, <2>3, TableStays DEF SInv
<1> QED BY <1>3, <1>4, <1>5

\* A body starts: its binding stays, or leaves the table with its handler.
LEMMA StartBodyKeepsOrigin ==
    ASSUME IInv, IInv', SInv, NEW i \in Idx, StartBody(i)
    PROVE  SInv'
<1> USE DEF table, platform, notice, round, session
<1>1. TypeOK /\ TypeOK' /\ TableInv /\ TableInv' /\ StampsInv /\ ArmedInv /\ FaultInv
  BY DEF IInv, SInv
<1>2. UNCHANGED <<leaked, queue, batch, now, arming, result, regs, epoch, faults, step>>
      /\ step = "ready" /\ stack # <<>> /\ entries' = [entries EXCEPT ![i] = Taken(i)]
  BY DEF StartBody, InRound
<1>3. Live(i)
  BY StartBodyStep
<1>4. entries[i] \in Entries
  BY <1>1 DEF TypeOK
<1>5. FaultInv'
  <2>1. /\ Len(stack) = 1 /\ Top \in Frames
        /\ \A f \in Frames : Len(WithTop(f)) = 1 /\ WithTop(f)[1] = f
    BY <1>1, <1>2, OneRound DEF IInv
  <2> DEFINE f == [Top EXCEPT !.next = Afterwards(i), !.body = entries[i].reg,
                              !.origin = entries[i].origin]
  <2>2. f \in Frames
    <3>1. Afterwards(i) \in 1 .. BindingCount + 1
      BY DEF Afterwards, Idx
    <3>2. entries[i].reg \in Regs /\ entries[i].origin \in Origins
      BY <1>4, EntryFields
    <3> QED BY <2>1, <3>1, <3>2, FrameTypes
  <2>3. f.faulted = Top.faulted /\ f.err = Top.err
    BY <2>1 DEF Frames
  <2>4. stack' = WithTop(f)
    BY DEF StartBody
  <2> HIDE DEF f
  <2>5. Top.faulted => Top.err # "ok"
    BY <1>1, <2>1 DEF FaultInv, Top
  <2>6. Len(stack') = 1 /\ stack'[1] = f
    BY <2>1, <2>2, <2>4
  <2>7. \A k \in 1 .. Len(stack') : k = 1
    BY <2>6
  <2> QED BY <1>1, <1>2, <2>3, <2>5, <2>6, <2>7 DEF FaultInv, FaultReported
<1>6. CASE entries[i].name \in Afters
  <2>1. Taken(i) = FreeEntry(entries[i].gen + 1) /\ Port(entries[i].name, i) = i
    BY <1>6 DEF Taken, Port, Timers
  <2>2. armed' = [armed EXCEPT ![i] = None]
    BY <1>6 DEF StartBody
  <2> QED BY <1>1, <1>2, <1>3, <1>5, <2>1, <2>2, FreeKeepsOrigin DEF SInv
<1>7. CASE entries[i].name \notin Afters
  <2>1. armed' = armed
    BY <1>7 DEF StartBody
  <2>2. Taken(i).name = entries[i].name /\ Taken(i).gen = entries[i].gen
        /\ Taken(i).reg = entries[i].reg /\ Taken(i).regAt = entries[i].regAt
    BY <1>4, <1>7 DEF Taken, Entries
  <2>3. \A j \in Idx : /\ entries'[j].name = entries[j].name
                       /\ entries'[j].gen = entries[j].gen
                       /\ entries'[j].reg = entries[j].reg
                       /\ entries'[j].regAt = entries[j].regAt
    BY <1>1, <1>2, <2>2 DEF TypeOK
  <2>4. Held' = Held /\ Waiting' = Waiting /\ now <= now'
        /\ \A j \in Idx : Live(j)' => Live(j)
    BY <1>1, <1>2, <2>1, <2>3, SMTT(30) DEF Held, Waiting, Live, TypeOK, Ms
  <2>5. \A s \in Stamps : (Known(s) => Known(s)') /\ (Own(s) => Own(s)')
    BY <1>2, <2>3, BindingsStay
  <2>6. StampsInv'
    BY <1>1, <1>2, <2>3, <2>4, <2>5, StampsStep
  <2>7. ArmedInv'
    BY <1>1, <1>2, <2>1, <2>3, HandlersStay
  <2> QED BY <1>5, <2>6, <2>7 DEF SInv
<1> QED BY <1>6, <1>7

\* A body ends, or the round: the first error stays.
LEMMA RoundKeepsOrigin ==
    ASSUME IInv, IInv', SInv,
           \/ \E i \in Idx : StartBody(i)
           \/ \E err \in Errs : EndBody(err)
           \/ EndRound \/ BreakRound
    PROVE  SInv'
<1> USE DEF table, platform, notice, round, session
<1>1. TypeOK /\ TypeOK' /\ TableInv /\ TableInv' /\ StampsInv /\ ArmedInv /\ FaultInv
  BY DEF IInv, SInv
<1>2. now <= now
  BY <1>1 DEF TypeOK, Ms
<1>3. ASSUME NEW i \in Idx, StartBody(i) PROVE SInv'
  BY <1>3, StartBodyKeepsOrigin
<1>4. ASSUME UNCHANGED <<entries, armed, leaked, queue, batch, now, arming, regs, epoch, faults, step>>
      PROVE  StampsInv' /\ ArmedInv'
  <2>1. Waiting' = Waiting
    BY <1>4 DEF Waiting
  <2> QED BY <1>1, <1>2, <1>4, <2>1, TableStays
<1>5. ASSUME NEW err \in Errs, EndBody(err) PROVE SInv'
  <2>1. stack # <<>> /\ result' = result
    BY <1>5 DEF EndBody, InBody
  <2>2. /\ Len(stack) = 1 /\ Top \in Frames
        /\ \A f \in Frames : Len(WithTop(f)) = 1 /\ WithTop(f)[1] = f
    BY <1>1, <2>1, OneRound DEF IInv
  <2> DEFINE f == [Top EXCEPT !.body = 0, !.origin = NoOrigin,
                              !.err = FirstError(@, err),
                              !.faulted = @ \/ err = "fault"]
  <2>3. f \in Frames
    BY <2>2, FrameTypes
  <2>4. f.err = FirstError(Top.err, err) /\ (f.faulted => Top.faulted \/ err = "fault")
    BY <2>2 DEF Frames
  <2>5. stack' = WithTop(f)
    BY <1>5 DEF EndBody
  <2> HIDE DEF f
  <2>6. Top.faulted => Top.err # "ok"
    BY <1>1, <2>2 DEF FaultInv, Top
  <2>7. f.faulted => f.err # "ok"
    BY <2>4, <2>6 DEF FirstError
  <2>8. Len(stack') = 1 /\ stack'[1] = f
    BY <2>2, <2>3, <2>5
  <2>9. \A k \in 1 .. Len(stack') : k = 1
    BY <2>8
  <2>10. FaultInv'
    BY <1>1, <2>1, <2>7, <2>8, <2>9 DEF FaultInv, FaultReported
  <2> QED BY <1>4, <1>5, <2>10 DEF SInv, EndBody
<1>6. ASSUME NEW err, InRound, Return(err), Top.faulted => err # "ok" PROVE SInv'
  <2>1. stack' = <<>> /\ Len(<<>>) = 0
    BY <1>1, <1>6, OneRound, EmptySeq DEF IInv, InRound, Return
  <2>2. result' = [err |-> err, faulted |-> Top.faulted]
    BY <1>6 DEF Return
  <2>3. FaultInv'
    <3>1. \A k \in 1 .. Len(stack') : FALSE
      BY <2>1
    <3> QED BY <1>6, <2>2, <3>1 DEF FaultInv, FaultReported
  <2> QED BY <1>4, <1>6, <2>3 DEF SInv, Return
<1>7. InRound => (Top.faulted => Top.err # "ok")
  <2> SUFFICES ASSUME InRound PROVE Top.faulted => Top.err # "ok"
    OBVIOUS
  <2>1. Len(stack) = 1
    BY <1>1, OneRound DEF IInv, InRound
  <2> QED BY <1>1, <2>1 DEF FaultInv, Top
<1>8. EndRound => SInv'
  BY <1>6, <1>7 DEF EndRound
<1>9. BreakRound => SInv'
  <2> SUFFICES ASSUME BreakRound PROVE SInv'
    OBVIOUS
  <2>1. \E err : Return(err) /\ (Top.faulted => err # "ok")
    BY <1>7 DEF BreakRound
  <2> QED BY <1>6, <2>1 DEF BreakRound
<1> QED BY <1>3, <1>5, <1>8, <1>9

\* A clear: what waits is of an earlier epoch, what is still held is known.
LEMMA ClearKeepsOrigin ==
    ASSUME IInv, IInv', SInv, ClearTable, step = "ready"
    PROVE  SInv'
<1> USE DEF round
<1>1. TypeOK /\ TypeOK' /\ StampsInv /\ ArmedInv /\ FaultInv /\ DropsAccounted
  BY DEF IInv, SInv
<1>2. /\ entries' = [i \in Idx |-> FreeEntry(0)] /\ step' = "ready" /\ epoch' = epoch + 1
      /\ \A p \in Ports : armed'[p] = None \/ armed'[p] = armed[p]
      /\ UNCHANGED <<leaked, queue, now, batch, stack, result, regs>>
  BY <1>1 DEF ClearTable, TypeOK
<1>3. \A i \in Idx : ~Live(i)'
  BY <1>2, FreeEntryType DEF Live
<1>4. ArmedInv' /\ (faults' = 0 => leaked' = {} /\ \A p \in Ports : armed'[p] = None)
  BY <1>1, <1>2, HandlersCleared
<1>5. \A s \in Stamps : Known(s) => Known(s)'
  BY <1>2, <1>3 DEF Known, Stamps
<1>6. Held' \subseteq Held /\ (faults' = 0 => Held' = {})
  BY <1>2, <1>4 DEF Held
<1>7. Waiting' = Waiting
  BY <1>2 DEF Waiting
<1>8. \A c \in Waiting : c \in Candidates /\ Stamp(c) \in Stamps
  BY <1>1, StampTypes
<1>9. \A h \in Held : Stamp(h) \in Stamps
  BY <1>1, StampTypes
<1>10. epoch \in Nat /\ \A c \in Waiting : c.epoch \in Nat /\ c.epoch <= epoch
  <2>1. epoch \in Nat
    BY <1>1 DEF TypeOK, Epochs
  <2>2. ASSUME NEW c \in Waiting PROVE c.epoch \in Nat /\ c.epoch <= epoch
    <3>1. c.epoch <= epoch
      BY <1>1 DEF StampsInv, Past
    <3>2. c.epoch \in Nat
      BY <1>8 DEF Candidates, Epochs
    <3> QED BY <3>1, <3>2
  <2> QED BY <2>1, <2>2
<1>11. epoch' # 0 /\ \A c \in Waiting : c.epoch # epoch'
  BY <1>2, <1>10
<1>12. \A c \in Waiting : Past(c)'
  <2>1. \A c \in Waiting : c.epoch <= epoch'
    BY <1>2, <1>10
  <2> QED BY <1>1, <1>2, <1>3, <2>1 DEF StampsInv, Past
<1>13. StampsInv'
  <2>1. \A h \in Held' : Known(Stamp(h))'
    BY <1>1, <1>5, <1>6, <1>9 DEF StampsInv
  <2>2. \A c \in Waiting' : Known(Stamp(c))' /\ Past(c)'
    BY <1>1, <1>5, <1>7, <1>8, <1>12 DEF StampsInv
  <2> QED BY <1>6, <1>7, <1>11, <2>1, <2>2 DEF StampsInv
<1>14. FaultInv'
  BY <1>1, <1>2 DEF FaultInv, FaultReported
<1> QED BY <1>4, <1>13, <1>14 DEF SInv

\* The clock and the prompt's commands.
LEMMA PromptKeepsOrigin ==
    ASSUME IInv, IInv', SInv,
           \/ Tick \/ StartEval \/ EndEval \/ Interrupt
           \/ Clear \/ Save \/ Restore \/ RestoreNext \/ RestoreFails \/ RestoreDone
    PROVE  SInv'
<1> USE DEF table, platform, notice, round, session
<1>1. TypeOK /\ FaultInv /\ StampsInv /\ ArmedInv
  BY DEF IInv, SInv
<1>2. CASE Tick \/ StartEval \/ EndEval \/ Interrupt \/ Restore \/ RestoreDone
  <2>1. UNCHANGED <<entries, armed, leaked, queue, batch, arming, stack, result,
                    regs, epoch, faults, step>>
    BY <1>2 DEF Tick, StartEval, EndEval, Interrupt, Restore, RestoreDone
  <2>2. now' = now \/ now' = now + 1
    BY <1>2 DEF Tick, StartEval, EndEval, Interrupt, Restore, RestoreDone
  <2>3. now <= now'
    BY <1>1, <2>2 DEF TypeOK, Ms
  <2>4. Waiting' = Waiting
    BY <2>1 DEF Waiting
  <2>5. FaultInv'
    BY <1>1, <2>1 DEF FaultInv, FaultReported
  <2> QED BY <1>1, <2>1, <2>3, <2>4, <2>5, TableStays DEF SInv
<1>3. CASE Clear \/ Save \/ RestoreFails
  BY <1>3, ClearKeepsOrigin DEF Clear, Save, RestoreFails, AtPrompt
<1>4. CASE RestoreNext
  <2>1. PICK b \in todo : Arm(b.name, b.debounce)
    BY <1>4 DEF RestoreNext
  <2>2. b.name \in Names /\ epoch' = epoch
    BY <1>1, <1>4 DEF TypeOK, Bindings, RestoreNext
  <2> QED BY <2>1, <2>2, ArmKeepsOrigin
<1> QED BY <1>2, <1>3, <1>4

\* Nothing is held, nothing waits.
LEMMA InitOrigin == Init => SInv
<1> SUFFICES ASSUME Init PROVE SInv
  OBVIOUS
<1>1. Len(queue) = 0 /\ Len(batch) = 0 /\ Len(stack) = 0
  BY EmptySeq DEF Init
<1>2. Held = {} /\ Waiting = {}
  BY <1>1 DEF Init, Held, Waiting
<1>3. LiveIdx = {}
  BY FreeEntryType DEF Init, LiveIdx, Live
<1>4. StampsInv
  BY <1>2 DEF StampsInv
<1>5. ArmedInv
  BY <1>3 DEF ArmedInv, Init
<1>6. FaultInv
  BY <1>1 DEF FaultInv, FaultReported, Init
<1> QED BY <1>4, <1>5, <1>6 DEF SInv

\* The invariant is inductive, beside that of the table.
LEMMA NextOrigin == IInv /\ IInv' /\ SInv /\ [Next]_vars => SInv'
<1> SUFFICES ASSUME IInv, IInv', SInv, [Next]_vars PROVE SInv'
  OBVIOUS
<1>1. CASE UNCHANGED vars
  <2> USE DEF vars, table, platform, notice, round, session
  <2>1. TypeOK /\ FaultInv /\ StampsInv /\ ArmedInv
    BY DEF IInv, SInv
  <2>2. Waiting' = Waiting /\ now <= now'
    BY <1>1, <2>1 DEF Waiting, TypeOK, Ms
  <2>3. FaultInv'
    BY <1>1, <2>1 DEF FaultInv, FaultReported
  <2> QED BY <1>1, <2>1, <2>2, <2>3, TableStays DEF SInv
<1>2. CASE (\E p \in Ports : Fire(p)) \/ \E h \in leaked : LeakedFire(h)
  BY <1>2, FireKeeps
<1>3. CASE \/ \E name \in Names : \E debounce \in DebounceOf(name) : Register(name, debounce)
           \/ Record
           \/ \E name \in Names : Cancel(name)
           \/ \E i \in Idx : CallFails(i)
  BY <1>3, UserKeepsOrigin
<1>4. CASE SafePoint \/ IdleService \/ Accept \/ Dispatch
  BY <1>4, DrainKeepsOrigin
<1>5. CASE \/ \E i \in Idx : StartBody(i)
           \/ \E err \in Errs : EndBody(err)
           \/ EndRound \/ BreakRound
  BY <1>5, RoundKeepsOrigin
<1>6. CASE \/ Tick \/ StartEval \/ EndEval \/ Interrupt
           \/ Clear \/ Save \/ Restore \/ RestoreNext \/ RestoreFails \/ RestoreDone
  BY <1>6, PromptKeepsOrigin
<1>7. Next \/ UNCHANGED vars
  OBVIOUS
<1> QED BY <1>1, <1>2, <1>3, <1>4, <1>5, <1>6, <1>7, Zenon DEF Next

\* Stamps, handlers and faults, for every size of the table and the queue,
\* whatever platform calls fail.
THEOREM OriginInductive == Spec => []SInv
<1>1. Init => SInv
  BY InitOrigin
<1>2. IInv /\ IInv' /\ SInv /\ [Next]_vars => SInv'
  BY NextOrigin
<1> QED BY <1>1, <1>2, Inductive, PTL DEF Spec

(***************************************************************************)
(* What follows.                                                           *)
(***************************************************************************)
\* The fault of a body is answered, whatever bodies and interrupts follow it.
THEOREM FaultsAreReported == Spec => []FaultReported
<1>1. SInv => FaultReported
  BY DEF SInv, FaultInv
<1> QED BY <1>1, OriginInductive, PTL

\* While no platform call fails, the handlers are those of the bindings, and
\* every binding has its own.
THEOREM HandlersAreTheTable == Spec => []ArmedIsTable
<1>1. ASSUME IInv, SInv, faults = 0, NEW i \in LiveIdx, ~(step = "arming" /\ i = arming.idx)
      PROVE  LET h == armed[Port(entries[i].name, i)] IN
               /\ h # None
               /\ h.idx = i /\ h.gen = entries[i].gen /\ h.reg = entries[i].reg
               /\ h.stopped => entries[i].name \in Afters
  BY <1>1 DEF SInv, ArmedInv, HeldFor
<1>2. ASSUME IInv, SInv, faults = 0, NEW p \in Ports, armed[p] # None
      PROVE  LET i == armed[p].idx IN
               \/ Live(i) /\ p = Port(entries[i].name, i) /\ armed[p].gen = entries[i].gen
               \/ step = "arming" /\ i = arming.idx /\ p = Port(arming.name, i)
  <2>1. PICK i \in Idx : i = armed[p].idx
    BY <1>2 DEF IInv, TypeOK, Handlers
  <2>2. \/ Live(i) /\ p = Port(entries[i].name, i)
        \/ step = "arming" /\ i = arming.idx /\ p = Port(arming.name, i)
    BY <1>2, <2>1 DEF SInv, ArmedInv
  <2>3. CASE Live(i) /\ p = Port(entries[i].name, i) /\ step = "arming" /\ i = arming.idx
    <3>1. entries[i].name = arming.name
      BY <1>2, <2>3, TargetPort DEF IInv, TableInv, ArmingTarget
    <3> QED BY <2>1, <2>3, <3>1
  <2>4. CASE Live(i) /\ p = Port(entries[i].name, i) /\ ~(step = "arming" /\ i = arming.idx)
    <3>1. i \in LiveIdx
      BY <2>4 DEF LiveIdx
    <3>2. armed[p].gen = entries[i].gen
      BY <1>1, <1>2, <2>4, <3>1
    <3> QED BY <2>1, <2>4, <3>2
  <2> QED BY <2>1, <2>2, <2>3, <2>4
<1>3. IInv /\ SInv => ArmedIsTable
  BY <1>1, <1>2 DEF ArmedIsTable
<1> QED BY <1>3, Inductive, OriginInductive, PTL

\* While the clock has not gone half its range, a candidate of the binding in
\* the table that is no bounce is not taken for a stale one.
THEOREM FreshIsAccepted == MaxMs <= HalfRange => (Spec => FreshAccepted)
<1> DEFINE Fresh ==
      step = "draining" /\ batch # <<>> /\ batch' # batch =>
         LET c == Head(batch) e == entries[c.idx] IN
           /\ e.name # None /\ e.reg = c.reg /\ c.at >= e.regAt
           /\ e.hasFired => c.at - e.lastFire >= e.debounce
           => entries'[c.idx].pending
<1> SUFFICES ASSUME MaxMs <= HalfRange PROVE Spec => FreshAccepted
  OBVIOUS
<1>1. ASSUME IInv, SInv, Next, step = "draining", batch # <<>>, batch' # batch
      PROVE  LET c == Head(batch) e == entries[c.idx] IN
           /\ e.name # None /\ e.reg = c.reg /\ c.at >= e.regAt
           /\ e.hasFired => c.at - e.lastFire >= e.debounce
           => entries'[c.idx].pending
  <2> USE DEF table, platform, notice, round, session
  <2>1. ~Tick /\ (\A p \in Ports : ~Fire(p)) /\ (\A h \in leaked : ~LeakedFire(h))
        /\ (\A name \in Names : \A debounce \in DebounceOf(name) : ~Register(name, debounce))
        /\ ~Record /\ (\A name \in Names : ~Cancel(name)) /\ \A j \in Idx : ~CallFails(j)
    BY <1>1 DEF Tick, Fire, LeakedFire, Register, Arm, Record, Cancel, CallFails
  <2>2. ~SafePoint /\ ~IdleService /\ ~Dispatch /\ (\A err \in Errs : ~EndBody(err))
        /\ (\A j \in Idx : ~StartBody(j)) /\ ~EndRound /\ ~BreakRound
    BY <1>1 DEF SafePoint, IdleService, Running, AtPrompt, Dispatch, EndBody, StartBody,
                EndRound, BreakRound, InRound, Return
  <2>3. ~StartEval /\ ~EndEval /\ ~Interrupt /\ ~Restore /\ ~RestoreNext /\ ~RestoreDone
        /\ ~Clear /\ ~Save /\ ~RestoreFails
    BY <1>1 DEF StartEval, EndEval, Interrupt, Restore, RestoreNext, Arm, RestoreDone, Clear,
                Save, RestoreFails, AtPrompt, Running
  <2>4. Accept
    BY <1>1, <2>1, <2>2, <2>3, Zenon DEF Next
  <2> DEFINE c == Head(batch)
  <2>5. batch \in Seq(Candidates) /\ entries \in [Idx -> Entries]
    BY <1>1 DEF IInv, TypeOK
  <2>6. c \in Candidates /\ Len(batch) \in Nat /\ Len(batch) # 0
    BY <1>1, <2>5, HeadTailProperties, LenProperties, EmptySeq
  <2>7. c \in Waiting
    <3>1. 1 \in 1 .. Len(batch)
      BY <2>6
    <3>2. c = batch[1]
      BY <2>5, <2>6, HeadTailProperties, <1>1
    <3> QED BY <3>1, <3>2 DEF Waiting
  <2>8. Known(Stamp(c))
    BY <1>1, <2>7 DEF SInv, StampsInv
  <2>9. c.idx \in Idx /\ c.at \in Ms /\ entries' = [entries EXCEPT ![c.idx] = Marked(@, c)]
    BY <2>4, <2>6 DEF Accept, Candidates
  <2> HIDE DEF c
  <2> DEFINE e == entries[c.idx]
  <2>10. e \in Entries /\ e.regAt \in Ms /\ e.lastFire \in Ms /\ e.debounce \in Nat
    <3>1. e \in Entries
      BY <2>5, <2>9
    <3> HIDE DEF e
    <3>2. e.regAt \in Ms /\ e.lastFire \in Ms /\ e.debounce \in Debounces \cup {0}
      BY <3>1 DEF Entries
    <3>3. \A d \in Debounces \cup {0} : d \in Nat
      BY DebouncesAssumption
    <3> QED BY <3>1, <3>2, <3>3
  <2>11. SUFFICES ASSUME e.name # None, e.reg = c.reg, c.at >= e.regAt,
                         e.hasFired => c.at - e.lastFire >= e.debounce
                  PROVE  entries'[c.idx].pending
    BY DEF c
  <2>12. e.gen = c.gen
    BY <2>8, <2>11 DEF Known, Stamp, Live
  <2>13. Delta(c.at, e.regAt) <= HalfRange
    <3>1. e.regAt <= c.at
      BY <2>9, <2>10, <2>11 DEF Ms
    <3> QED BY <2>9, <2>10, <3>1, DeltaIsAge
  <2>14. e.hasFired => ~(Delta(c.at, e.lastFire) < e.debounce)
    <3> SUFFICES ASSUME e.hasFired PROVE ~(Delta(c.at, e.lastFire) < e.debounce)
      OBVIOUS
    <3> HIDE DEF e
    <3>1. c.at \in Nat /\ e.lastFire \in Nat /\ c.at - e.lastFire >= e.debounce
      BY <2>9, <2>10, <2>11 DEF Ms
    <3>2. e.lastFire <= c.at
      BY <2>10, <3>1
    <3>3. Delta(c.at, e.lastFire) = c.at - e.lastFire
      BY <2>9, <2>10, <3>2, DeltaIsAge
    <3> QED BY <2>10, <3>1, <3>3
  <2>15. Accepts(e, c)
    BY <2>11, <2>12, <2>13, <2>14 DEF Accepts
  <2>16. Marked(e, c).pending
    <3> HIDE DEF e
    <3> QED BY <2>10, <2>15 DEF Marked, Entries
  <2> QED BY <2>5, <2>9, <2>16
<1>2. IInv /\ SInv /\ [Next]_vars => [Fresh]_vars
  BY <1>1
<1>3. []IInv /\ []SInv /\ [][Next]_vars => [][Fresh]_vars
  BY <1>2, PTL
<1>4. Spec => [][Fresh]_vars
  BY <1>3, Inductive, OriginInductive, PTL DEF Spec
<1> QED BY <1>4 DEF FreshAccepted, Fresh

(***************************************************************************)
(* What is pending, and so what runs, is of the binding in the table.      *)
(***************************************************************************)
\* The candidate a drain looks at waits.
LEMMA HeadWaits ==
    ASSUME TypeOK, batch # <<>>
    PROVE  Head(batch) \in Waiting /\ Head(batch) \in Candidates
<1>1. batch \in Seq(Candidates)
  BY DEF TypeOK
<1>2. Head(batch) = batch[1] /\ Head(batch) \in Candidates
  BY <1>1, HeadTailProperties
<1>3. 1 \in 1 .. Len(batch)
  BY <1>1, LenProperties, EmptySeq
<1> QED BY <1>2, <1>3 DEF Waiting

\* What an entry accepts was fired for its binding, or before a clear and in
\* the millisecond of its binding.
LEMMA AcceptedIsOwn ==
    ASSUME IInv, SInv, MaxMs <= HalfRange, faults = 0 \/ epoch = 0, step = "draining",
           NEW c \in Waiting, Accepts(entries[c.idx], c)
    PROVE  /\ Live(c.idx)
           /\ \/ c.reg = entries[c.idx].reg
              \/ c.epoch < epoch /\ c.at = entries[c.idx].regAt
<1>1. TypeOK /\ StampsInv
  BY DEF IInv, SInv
<1>2. c.idx \in Idx /\ c.at \in Ms /\ c.epoch \in Nat /\ epoch \in Nat
  BY <1>1, StampTypes, SMTT(30) DEF Candidates, Epochs, TypeOK
<1>3. entries[c.idx].gen \in Nat /\ entries[c.idx].regAt \in Ms
  BY <1>1, <1>2 DEF TypeOK, Entries
<1>4. Live(c.idx) /\ entries[c.idx].gen = c.gen /\ Delta(c.at, entries[c.idx].regAt) <= HalfRange
  BY DEF Accepts, Live
<1>5. Past(c)
  BY <1>1 DEF StampsInv
<1>6. CASE c.epoch = epoch
  <2>1. Own(Stamp(c))
    BY <1>1, <1>6 DEF StampsInv
  <2>2. ~Arriving(Stamp(c))
    BY DEF Arriving
  <2>3. ~(c.gen < entries[c.idx].gen)
    BY <1>3, <1>4
  <2> QED BY <1>4, <2>1, <2>2, <2>3 DEF Own, Stamp
<1>7. CASE c.epoch # epoch
  <2>1. c.epoch < epoch
    BY <1>2, <1>5, <1>7 DEF Past
  <2>2. c.at <= entries[c.idx].regAt
    BY <1>2, <1>4, <1>5, <2>1 DEF Past
  <2>3. entries[c.idx].regAt <= c.at
    BY <1>2, <1>3, <1>4, HalfRangeTells
  <2>4. c.at = entries[c.idx].regAt
    BY <1>2, <1>3, <2>2, <2>3 DEF Ms
  <2> QED BY <1>4, <2>1, <2>4
<1> QED BY <1>6, <1>7

\* A drain marks an entry with what was fired for it.
LEMMA AcceptKeepsOwn ==
    ASSUME IInv, SInv, PendingIsOwn, MaxMs <= HalfRange, Accept
    PROVE  PendingIsOwn'
<1> USE DEF table, platform, notice, round, session
<1> SUFFICES ASSUME faults = 0 \/ epoch = 0 PROVE PendingIsOwn'
  BY DEF PendingIsOwn, Accept
<1> PICK c \in Waiting : c = Head(batch)
  BY HeadWaits DEF IInv, Accept
<1>1. UNCHANGED <<stack, epoch, faults>> /\ step = "draining"
      /\ entries' = [entries EXCEPT ![c.idx] = Marked(entries[c.idx], c)]
  BY DEF Accept
<1>2. c.idx \in Idx /\ entries \in [Idx -> Entries] /\ c \in Candidates
  BY StampTypes DEF IInv, TypeOK, Candidates
<1>3. ASSUME NEW i \in Idx, entries'[i].pending
      PROVE  LET o == entries'[i].origin IN
               /\ Live(i)'
               /\ o.reg = entries'[i].reg \/ (o.epoch < epoch' /\ o.at = entries'[i].regAt)
  <2>1. CASE i = c.idx /\ Accepts(entries[i], c)
    <3>1. entries'[i] = Marked(entries[i], c)
      BY <1>1, <1>2, <2>1
    <3>2. Marked(entries[i], c).origin = OriginOf(c)
      BY <1>2, <2>1 DEF Marked, Entries
    <3>3. OriginOf(c).reg = c.reg /\ OriginOf(c).at = c.at /\ OriginOf(c).epoch = c.epoch
      BY DEF OriginOf
    <3>4. /\ entries'[i].name = entries[i].name
          /\ entries'[i].reg = entries[i].reg /\ entries'[i].regAt = entries[i].regAt
      BY <1>2, <3>1, MarkedBinding
    <3>5. Live(i) /\ (c.reg = entries[i].reg \/ (c.epoch < epoch /\ c.at = entries[i].regAt))
      BY <1>1, <2>1, AcceptedIsOwn
    <3> QED BY <1>1, <3>1, <3>2, <3>3, <3>4, <3>5 DEF Live
  <2>2. CASE ~(i = c.idx /\ Accepts(entries[i], c))
    <3>1. entries'[i] = entries[i]
      BY <1>1, <1>2, <2>2 DEF Marked
    <3> QED BY <1>1, <1>3, <3>1 DEF PendingIsOwn, Live
  <2> QED BY <2>1, <2>2
<1>4. InBody' => Top'.origin.reg = Top'.body \/ Top'.origin.epoch < epoch'
  BY <1>1 DEF PendingIsOwn, InBody, Top
<1> QED BY <1>3, <1>4 DEF PendingIsOwn

\* The body that starts takes the origin of its entry.
LEMMA StartBodyKeepsOwn ==
    ASSUME IInv, PendingIsOwn, NEW i \in Idx, StartBody(i)
    PROVE  PendingIsOwn'
<1> USE DEF table, platform, notice, round, session
<1> SUFFICES ASSUME faults = 0 \/ epoch = 0 PROVE PendingIsOwn'
  BY DEF PendingIsOwn, StartBody
<1>1. UNCHANGED <<epoch, faults>> /\ entries' = [entries EXCEPT ![i] = Taken(i)]
      /\ entries[i].pending /\ stack # <<>>
  BY DEF StartBody, InRound, Pending
<1>2. entries \in [Idx -> Entries] /\ TypeOK
  BY DEF IInv, TypeOK
<1>3. Taken(i).pending = FALSE
  <2>1. entries[i] \in Entries
    BY <1>2
  <2>2. FreeEntry(entries[i].gen + 1).pending = FALSE
    BY DEF FreeEntry
  <2> QED BY <2>1, <2>2 DEF Taken, Entries
<1>4. \A j \in Idx : entries'[j].pending => j # i /\ entries'[j] = entries[j]
  BY <1>1, <1>2, <1>3
<1>5. /\ Len(stack) = 1 /\ Top \in Frames
      /\ \A f \in Frames : Len(WithTop(f)) = 1 /\ WithTop(f)[1] = f
  BY <1>1, <1>2, OneRound DEF IInv
<1> DEFINE f == [Top EXCEPT !.next = Afterwards(i), !.body = entries[i].reg,
                            !.origin = entries[i].origin]
<1>6. f \in Frames
  <2>1. Afterwards(i) \in 1 .. BindingCount + 1
    BY DEF Afterwards, Idx
  <2>2. entries[i].reg \in Regs /\ entries[i].origin \in Origins
    BY <1>2, EntryFields
  <2> QED BY <1>5, <2>1, <2>2, FrameTypes
<1>7. f.body = entries[i].reg /\ f.origin = entries[i].origin
  BY <1>5 DEF Frames
<1>8. stack' = WithTop(f)
  BY DEF StartBody
<1> HIDE DEF f
<1>9. Top' = f
  <2>1. Len(stack') = 1 /\ stack'[1] = f
    BY <1>5, <1>6, <1>8
  <2> QED BY <2>1 DEF Top
<1>10. entries[i].origin.reg = entries[i].reg \/ entries[i].origin.epoch < epoch
  BY <1>1 DEF PendingIsOwn
<1> QED BY <1>1, <1>4, <1>7, <1>9, <1>10 DEF PendingIsOwn, Live

\* The table is cleared at the prompt: nothing is pending, no body runs.
LEMMA ClearKeepsOwn ==
    ASSUME ClearTable, stack = <<>>
    PROVE  PendingIsOwn'
<1>1. entries' = [i \in Idx |-> FreeEntry(0)] /\ stack' = <<>>
  BY DEF ClearTable, round
<1>2. \A i \in Idx : entries'[i].pending = FALSE
  BY <1>1, FreeEntryType
<1> QED BY <1>1, <1>2 DEF PendingIsOwn, InBody

\* Entries that stay, or are written with the flag down.
LEMMA EntriesKeepOwn ==
    ASSUME IInv, IInv', PendingIsOwn,
           NEW i \in Idx, NEW e,
           entries' = entries \/ (entries' = [entries EXCEPT ![i] = e] /\ e.pending = FALSE),
           epoch' = epoch, faults' = 0 => faults = 0,
           InBody' => InBody /\ Top'.origin = Top.origin /\ Top'.body = Top.body
    PROVE  PendingIsOwn'
<1>1. TypeOK /\ TypeOK'
  BY DEF IInv
<1>2. \A j \in Idx : entries'[j].pending => entries'[j] = entries[j]
  BY <1>1 DEF TypeOK
<1> QED BY <1>1, <1>2, PendingStays

\* What is pending stays of its own binding, at every step.
LEMMA NextOwn ==
    ASSUME MaxMs <= HalfRange, IInv, IInv', SInv, PendingIsOwn, [Next]_vars
    PROVE  PendingIsOwn'
<1> USE DEF table, platform, notice, round, session
<1>1. TypeOK /\ faults \in Nat
  BY SMTT(30) DEF IInv, TypeOK
<1> PICK one \in Idx : TRUE
  BY DEF Idx
<1>2. CASE UNCHANGED vars
  <2>1. UNCHANGED <<entries, epoch, faults, stack>>
    BY <1>2 DEF vars
  <2> QED BY <2>1, EntriesKeepOwn DEF InBody, Top
<1>3. CASE Tick \/ StartEval \/ EndEval \/ Interrupt \/ Restore \/ RestoreDone
  <2>1. UNCHANGED <<entries, epoch, faults, stack>>
    BY <1>3 DEF Tick, StartEval, EndEval, Interrupt, Restore, RestoreDone
  <2> QED BY <2>1, EntriesKeepOwn DEF InBody, Top
<1>4. CASE (\E p \in Ports : Fire(p)) \/ \E h \in leaked : LeakedFire(h)
  <2>1. UNCHANGED <<entries, epoch, faults, stack>>
    BY <1>4 DEF Fire, LeakedFire
  <2> QED BY <2>1, EntriesKeepOwn DEF InBody, Top
<1>5. ASSUME NEW name, NEW debounce, Arm(name, debounce), UNCHANGED epoch PROVE PendingIsOwn'
  <2>1. UNCHANGED <<entries, stack>>
    BY <1>5 DEF Arm
  <2>2. faults' = faults \/ faults' = faults + 1
    BY <1>5 DEF Arm
  <2>3. faults' = 0 => faults = 0
    BY <1>1, <2>2
  <2> QED BY <1>5, <2>1, <2>3, EntriesKeepOwn DEF InBody, Top
<1>6. CASE \E name \in Names : \E debounce \in DebounceOf(name) : Register(name, debounce)
  BY <1>5, <1>6 DEF Register
<1>7. CASE RestoreNext
  BY <1>5, <1>7 DEF RestoreNext
<1>8. CASE Record
  <2>1. arming.idx \in Idx
    BY <1>1 DEF TypeOK, Armings
  <2>2. Recorded.pending = FALSE /\ UNCHANGED <<epoch, faults, stack>>
        /\ entries' = [entries EXCEPT ![arming.idx] = Recorded]
    BY <1>8 DEF Recorded, Record
  <2> QED BY <2>1, <2>2, EntriesKeepOwn DEF InBody, Top
<1>9. ASSUME NEW name \in Names, Cancel(name) PROVE PendingIsOwn'
  <2>1. PICK i \in Idx : entries' = [entries EXCEPT ![i] = FreeEntry(entries[i].gen + 1)]
    BY <1>9 DEF Cancel, Matches
  <2>2. FreeEntry(entries[i].gen + 1).pending = FALSE
    BY DEF FreeEntry
  <2>3. UNCHANGED <<epoch, faults, stack>>
    BY <1>9 DEF Cancel
  <2> QED BY <2>1, <2>2, <2>3, EntriesKeepOwn DEF InBody, Top
<1>10. CASE \E i \in Idx : CallFails(i)
  <2>1. UNCHANGED <<entries, epoch, stack>> /\ faults' = faults + 1
    BY <1>10 DEF CallFails
  <2>2. faults' # 0
    BY <1>1, <2>1
  <2> QED BY <2>1, <2>2, EntriesKeepOwn DEF InBody, Top
<1>11. CASE SafePoint \/ IdleService
  <2>1. UNCHANGED <<entries, epoch, faults, stack>>
    BY <1>11 DEF SafePoint, IdleService, TakeBatch
  <2> QED BY <2>1, EntriesKeepOwn DEF InBody, Top
<1>12. CASE Accept
  BY <1>12, AcceptKeepsOwn
<1>13. CASE Dispatch
  <2>1. UNCHANGED <<entries, epoch, faults>>
        /\ (stack' = stack \/ stack' = Append(stack, NewFrame))
    BY <1>13 DEF Dispatch
  <2>2. CASE stack' = stack
    BY <2>1, <2>2, EntriesKeepOwn DEF InBody, Top
  <2>3. CASE stack' = Append(stack, NewFrame)
    <3>1. stack \in Seq(Frames) /\ NewFrame \in Frames /\ NewFrame.body = 0
      BY <1>1, FrameTypes DEF TypeOK, NewFrame
    <3>2. stack'[Len(stack')] = NewFrame
      BY <2>3, <3>1, AppendProperties
    <3>3. ~InBody'
      BY <3>1, <3>2 DEF InBody
    <3> QED BY <2>1, <3>3, EntriesKeepOwn
  <2> QED BY <2>1, <2>2, <2>3
<1>14. CASE \E i \in Idx : StartBody(i)
  BY <1>14, StartBodyKeepsOwn
<1>15. ASSUME NEW err \in Errs, EndBody(err) PROVE PendingIsOwn'
  <2>1. UNCHANGED <<entries, epoch, faults>> /\ stack # <<>>
    BY <1>15 DEF EndBody, InBody
  <2>2. /\ Len(stack) = 1 /\ Top \in Frames
        /\ \A f \in Frames : Len(WithTop(f)) = 1 /\ WithTop(f)[1] = f
    BY <1>1, <2>1, OneRound DEF IInv
  <2> DEFINE f == [Top EXCEPT !.body = 0, !.origin = NoOrigin,
                              !.err = FirstError(@, err),
                              !.faulted = @ \/ err = "fault"]
  <2>3. f \in Frames
    BY <2>2, FrameTypes
  <2>4. f.body = 0
    BY <2>2 DEF Frames
  <2>5. stack' = WithTop(f)
    BY <1>15 DEF EndBody
  <2> HIDE DEF f
  <2>6. Len(stack') = 1 /\ stack'[1] = f
    BY <2>2, <2>3, <2>5
  <2>7. ~InBody'
    BY <2>4, <2>6 DEF InBody
  <2> QED BY <2>1, <2>7, EntriesKeepOwn
<1>16. CASE EndRound \/ BreakRound
  <2>1. PICK err : Return(err)
    BY <1>16 DEF EndRound, BreakRound
  <2>2. UNCHANGED <<entries, epoch, faults>> /\ stack # <<>>
    BY <1>16, <2>1 DEF Return, EndRound, BreakRound, InRound
  <2>3. stack' = <<>>
    BY <1>1, <2>1, <2>2, OneRound DEF IInv, Return
  <2> QED BY <2>2, <2>3, EntriesKeepOwn DEF InBody
<1>17. CASE Clear \/ Save \/ RestoreFails
  <2>1. ClearTable /\ stack = <<>>
    BY <1>17 DEF Clear, Save, RestoreFails, AtPrompt
  <2> QED BY <2>1, ClearKeepsOwn
<1>18. Next \/ UNCHANGED vars
  OBVIOUS
<1> QED BY <1>2, <1>3, <1>4, <1>6, <1>7, <1>8, <1>9, <1>10, <1>11, <1>12, <1>13, <1>14,
           <1>15, <1>16, <1>17, <1>18, Zenon DEF Next

\* While the clock has not gone half its range, what is pending and what runs
\* was fired for the binding that is in the table, for every size of the
\* table and of the queue, however drains, dispatches and clears interleave.
THEOREM EventsAreOwn == MaxMs <= HalfRange => (Spec => []PendingIsOwn)
<1> SUFFICES ASSUME MaxMs <= HalfRange PROVE Spec => []PendingIsOwn
  OBVIOUS
<1>1. Init => PendingIsOwn
  <2> SUFFICES ASSUME Init PROVE PendingIsOwn
    OBVIOUS
  <2>1. \A i \in Idx : entries[i].pending = FALSE
    BY FreeEntryType DEF Init
  <2> QED BY <2>1 DEF PendingIsOwn, Init, InBody
<1>2. IInv /\ IInv' /\ SInv /\ PendingIsOwn /\ [Next]_vars => PendingIsOwn'
  BY NextOwn
<1> QED BY <1>1, <1>2, Inductive, OriginInductive, PTL DEF Spec
=============================================================================
