---------------------------- MODULE FrothyOverlay ---------------------------
(***************************************************************************)
(* A prompt session over one board's program: definitions, assignments,    *)
(* clear, save, restore, wipe-user, install-library, wipe and restart, in  *)
(* any order (src/src/repl.c, src/src/persist.c, and through FrothyMount   *)
(* the tables, slots and payload under them).                              *)
(*                                                                         *)
(* The prompt runs one command at a time, so a command is one step here.   *)
(* What a loss of power or of a flash write does between the steps of a    *)
(* command is FrothyPersist's; here the newest image can always be read.   *)
(* Handles only matter as values that a save cannot store.                 *)
(***************************************************************************)
EXTENDS FrothyMount

CONSTANTS Definitions,   \* the literal definitions: a name and a right-hand side
          Outcomes,      \* how a definition that runs ends: a handle or a fault
          Values,        \* what an assignment or a write of an element stores
          Rough          \* uses that lose a promise below, and are checked apart:
                         \*   "library"  a run assigns to a library word
                         \*   "element"  a run writes into a saved cells or record
                         \*   "repeat"   a library definition repeats a saved value
                         \*   "armed"    a restore while unsaved code is armed
                         \*   "nil"      a word is given the value nil

VARIABLES rt,     \* the runtime
          mode,   \* the tier of definitions (install_tier)
          flash,  \* the newest image, on which the runtime is mounted
          said    \* the last command, and its answer

vars == <<rt, mode, flash, said>>

BaseRuntime == [slot |-> BaseSlots, count |-> FirstProject, baseCount |-> FirstProject,
                names |-> <<>>, codes |-> <<>>, imgCodes |-> 0,
                objs |-> <<>>, imgObjs |-> 0, events |-> <<>>]

Init == rt = BaseRuntime /\ mode = "user" /\ flash = NoRecords /\ said = <<"reboot", "OK">>

Stored == flash # NoRecords
Answer(command, err) == said' = <<command, err>>

------------------------------------------------------------------------------
(***************************************************************************)
(* Mounts and saves of the prompt (src/src/persist.c).                     *)
(***************************************************************************)
\* The names of a mounted image are settled; a failed mount is cleaned up.
Mounted(m) ==
  IF m.err = "OK" THEN Done(MarkNamesSaved(m.rt))
  ELSE Stopped(m.err, RestoreBaseTables(ClearProject(m.rt)))

\* A save mounts the image that it wrote.
Committed(r, p) == IF p.err = "OK" THEN Mounted(FullRestore(r, p.img)) ELSE Stopped(p.err, r)

\* The save of a command that changed the runtime first: refused, it takes
\* the change back with everything else that is not stored.
SaveAtOnce(r, p) ==
  IF p.err = "OK" THEN Committed(r, p)
  ELSE IF Stored THEN Stopped(p.err, Mounted(FullRestore(r, flash)).rt)
  ELSE Stopped(p.err, ClearProject(r))

\* Take the result of a command, and the image of its save.
Finish(command, m, p) ==
  /\ rt' = m.rt
  /\ flash' = IF p.err = "OK" THEN p.img ELSE flash
  /\ Answer(command, m.err)

\* (Mutant of Save: the handles that the save kept open are not written back.)
SaveDroppingHeld ==
  \E held \in {HoldVolatile(rt)} :
  \E p \in {UserPayload(rt, flash, held)} :
    /\ Finish("save", Committed(rt, p), p)
    /\ UNCHANGED mode

\* `save:` stores nil for the handles it can keep open, and keeps them.
Save ==
  \E held \in {HoldVolatile(rt)} :
  \E p \in {UserPayload(rt, flash, held)} :
  \E m \in {Committed(rt, p)} :
    /\ Finish("save",
              IF m.err = "OK"
              THEN Done(FoldLeft(LAMBDA r, s : IF s \in held THEN Write(r, s, rt.slot[s].cur) ELSE r,
                                 m.rt, SlotsBelow(rt)))
              ELSE m, p)
    /\ UNCHANGED mode

------------------------------------------------------------------------------
(***************************************************************************)
(* Definitions (src/src/repl.c).                                           *)
(***************************************************************************)
Stamped(r, s) == [r EXCEPT !.slot[s].stamp = mode]

\* The command of a definition, and how its result is kept: a library word is
\* stored at once.
Keep(s, r) ==
  /\ "nil" \in Rough \/ r.slot[s].cur # Nil
  /\ IF mode = "user" THEN rt' = r /\ Answer("define", "OK") /\ UNCHANGED flash
     ELSE
       /\ "repeat" \in Rough \/ r.slot[s].cur # r.slot[s].base
       /\ \E p \in {FullPayload(r)} : Finish("library", SaveAtOnce(r, p), p)

Refuse(r, err) ==
  rt' = r /\ Answer(IF mode = "user" THEN "define" ELSE "library", err) /\ UNCHANGED flash

\* A new name is bound while its body compiles, and taken back before the
\* update is applied.
Compiling(n, s, body) ==
  IF Kind(body) \in {"fn", "timer"} /\ IdForName(rt, n) = NoSlot /\ s # NoSlot
  THEN RollbackName(BindName(Write(rt, s, Nil), n, s), n, s) ELSE rt

\* The slot may be known although the body is refused.
Prepared(n) == Prepare(rt, n).slot

Define(n, body) ==
  \E c \in {Compile(rt, n, body)}, r \in {Compiling(n, Prepared(n), body)} :
  \E err \in {IF c.err # "OK" THEN c.err
              ELSE IF mode = "lib" /\ CheckSavable(r, {}) # "OK" THEN "VOLATILE"
              ELSE CheckApply(r, n, c.slot, body)} :
    /\ IF err # "OK" THEN Refuse(r, err)
       ELSE Keep(c.slot, Stamped(ApplyUpdate(r, n, c.slot, body), c.slot))
    /\ UNCHANGED mode

\* n is m, where m holds no handle: the value that m has now.
Alias(n, m) ==
  \E p \in {Prepare(rt, n)}, from \in {IdForName(rt, m)} :
    /\ from # NoSlot => Kind(rt.slot[from].cur) # "handle"
    /\ IF p.err # "OK" THEN Refuse(rt, p.err)
       ELSE IF from = NoSlot THEN Refuse(rt, "NOT_FOUND")
       ELSE IF mode = "lib" /\ CheckSavable(rt, {}) # "OK" THEN Refuse(rt, "VOLATILE")
       ELSE Keep(p.slot, Stamped(BindName(Write(rt, p.slot, rt.slot[from].cur), n, p.slot), p.slot))
    /\ UNCHANGED mode

\* A definition that runs: n is a call that opens a handle, or fails.  A new
\* name is bound before the run, and the library's check comes after it.
DefineByRun(n, v) ==
  \E p \in {Prepare(rt, n)} :
  \E isNew \in {IdForName(rt, n) = NoSlot} :
  \E r \in {IF p.err = "OK" /\ isNew THEN BindName(Write(rt, p.slot, Nil), n, p.slot) ELSE rt} :
    /\ IF p.err # "OK" THEN Refuse(rt, p.err)
       ELSE IF v = <<"fault">> THEN Refuse(IF isNew THEN RollbackName(r, n, p.slot) ELSE r, "FAULT")
       ELSE IF mode = "lib" /\ CheckSavable(Write(r, p.slot, v), {}) # "OK"
            THEN Refuse(IF isNew THEN RollbackName(Write(r, p.slot, v), n, p.slot) ELSE rt, "VOLATILE")
       ELSE Keep(p.slot, Stamped(Write(r, p.slot, v), p.slot))
    /\ UNCHANGED mode

------------------------------------------------------------------------------
(***************************************************************************)
(* A run of the program: it assigns to words, writes into cells and        *)
(* records and arms events.                                                *)
(***************************************************************************)
\* The value, with the Text that a literal adds to the overlay.
Evaluated(r, v) ==
  IF Kind(v) # "text" THEN [val |-> v, rt |-> r]
  ELSE LET t == InstallText(r, v[2]) IN [val |-> <<"obj", t.id>>, rt |-> t.rt]

Fits(r) == Len(r.objs) =< MaxObjs

\* set n to v
Assign(n, v) ==
  \E s \in {IdForName(rt, n)}, e \in {Evaluated(rt, v)} :
    /\ s # NoSlot /\ s >= FirstProject /\ Fits(e.rt)
    /\ "library" \in Rough \/ rt.slot[s].stamp # "lib"
    /\ rt' = Write(e.rt, s, e.val)
    /\ Answer("run", "OK")
    /\ UNCHANGED <<mode, flash>>

\* set n[0] to v, or set n->x to v
SetElement(n, v) ==
  \E s \in {IdForName(rt, n)}, e \in {Evaluated(rt, v)} :
    /\ s # NoSlot /\ Fits(e.rt)
    /\ IsObject(rt, rt.slot[s].cur, {"cells", "record"})
    /\ "element" \in Rough \/ rt.slot[s].cur[2] > rt.imgObjs
    /\ IF ElementAllowed(e.rt, rt.slot[s].cur[2], e.val)
       THEN rt' = WriteElement(e.rt, rt.slot[s].cur[2], e.val) /\ Answer("run", "OK")
       ELSE rt' = e.rt /\ Answer("run", "TYPE")
    /\ UNCHANGED <<mode, flash>>

\* A call of a word that arms a timer: the body is the one in the word's code.
RunTimer(n) ==
  \E s \in {IdForName(rt, n)} :
    /\ s # NoSlot
    /\ Kind(rt.slot[s].cur) = "code"
    /\ rt.codes[rt.slot[s].cur[2]].inner # 0
    /\ rt' = [rt EXCEPT !.events = <<rt.codes[rt.slot[s].cur[2]].inner>>]
    /\ Answer("run", "OK")
    /\ UNCHANGED <<mode, flash>>

------------------------------------------------------------------------------
(***************************************************************************)
(* The other commands of the prompt.                                       *)
(***************************************************************************)
Clear == rt' = ClearProject(rt) /\ Answer("clear", "OK") /\ UNCHANGED <<mode, flash>>

InstallUser ==
  mode = "lib" /\ mode' = "user" /\ Answer("run", "OK") /\ UNCHANGED <<rt, flash>>

InstallLibrary ==
  IF CheckSavable(rt, {}) # "OK"
  THEN Answer("install-library", "VOLATILE") /\ UNCHANGED <<rt, mode, flash>>
  ELSE \E r \in {WipeLibraryTier(rt)} :
       \E p \in {FullPayload(r)} :
       \E m \in {SaveAtOnce(r, p)} :
         /\ Finish("install-library", m, p)
         /\ mode' = IF m.err = "OK" THEN "lib" ELSE mode

\* Events first: none may fire into a word that is gone.
WipeUser ==
  \E r \in {WipeUserTier([rt EXCEPT !.events = <<>>])} :
  \E p \in {UserPayload(r, flash, {})} :
    Finish("wipe-user", SaveAtOnce(r, p), p) /\ UNCHANGED mode

Wipe == rt' = BaseRuntime /\ flash' = NoRecords /\ mode' = "user" /\ Answer("wipe", "OK")

\* `restore:` keeps the library words that are in RAM.
Restore ==
  IF ~ Stored THEN Answer("restore", "NOT_FOUND") /\ UNCHANGED <<rt, mode, flash>>
  ELSE /\ "armed" \in Rough \/ \A i \in DOMAIN rt.events : rt.events[i] =< rt.imgCodes
       /\ \E m \in {Mounted(RestoreUserOnly(rt, flash))} :
         rt' = m.rt /\ Answer("restore", m.err) /\ UNCHANGED <<mode, flash>>

\* The two passes of a boot.
Booted ==
  IF ~ Stored THEN BaseRuntime
  ELSE LET lib == RestoreLibrary(BaseRuntime, flash)
       IN  MarkNamesSaved(Then(lib, LAMBDA r :
             RestoreUserAfterLibrary(MarkNamesSaved(r), flash)).rt)

Reboot == rt' = Booted /\ mode' = "user" /\ Answer("reboot", "OK") /\ UNCHANGED flash

Next ==
  \/ \E d \in Definitions : Define(d[1], d[2])
  \/ \E n, m \in Names : Alias(n, m)
  \/ \E n \in Names, v \in Outcomes : DefineByRun(n, v)
  \/ \E n \in Names, v \in Values : Assign(n, v)
  \/ \E n \in Names, v \in Values : SetElement(n, v)
  \/ \E n \in Names : RunTimer(n)
  \/ Clear \/ Save \/ InstallUser \/ InstallLibrary \/ WipeUser \/ Wipe \/ Restore \/ Reboot

Spec == Init /\ [][Next]_vars

------------------------------------------------------------------------------
(***************************************************************************)
(* What words mean: names in place of slots, contents in place of ids.     *)
(***************************************************************************)
Words == Names \cup {BaseWord}
Unset == <<"unset">>

RECURSIVE Meaning(_, _)
\* What a value means, read in the tables of a runtime or of an image.
Meaning(t, v) ==
  CASE Kind(v) = "code" /\ v[2] \in DOMAIN t.codes ->
         <<"code", t.codes[v[2]].says, Meaning(t, <<"obj", t.codes[v[2]].text>>),
           Meaning(t, <<"code", t.codes[v[2]].inner>>)>>
    [] Kind(v) = "obj" /\ v[2] \in DOMAIN t.objs ->
         LET o == t.objs[v[2]]
         IN  <<o.kind, o.key, Meaning(t, <<"obj", o.of>>),
               [i \in DOMAIN o.vals |-> Meaning(t, o.vals[i])]>>
    [] Kind(v) \in {"code", "obj"} -> <<"none">>
    [] OTHER -> v

\* A word of the base image that nothing replaced is in no layer.
Program ==
  [w \in Words |->
     LET s == IdForName(rt, w)
     IN  IF s = NoSlot \/ (s = 0 /\ rt.slot[0].cur = Native) THEN Unset
         ELSE Meaning(rt, rt.slot[s].cur)]

\* What an image binds to the words in a tier.
Layer(img, tier) ==
  [w \in Words |->
     LET slots == IF w = BaseWord THEN {0}
                  ELSE {n.slot : n \in {m \in ToSet(img.names) : m.name = w /\ ~ m.reserved}}
         binds == {b \in ToSet(img.binds) : b.slot \in slots /\ b.tier = tier}
     IN  IF binds = {} THEN Unset ELSE Meaning(img, (CHOOSE b \in binds : TRUE).val)]

Settled(m) == IF m = <<"handle">> THEN Nil ELSE m

Book == INSTANCE WordBook WITH now <- Program,
                               library <- Layer(flash, "lib"),
                               user <- Layer(flash, "user")

\* Whatever slots, ids and records the code uses for them, words keep the
\* promises of WordBook under every order of commands.
BookSpec == Book!Spec

------------------------------------------------------------------------------
TypeOK ==
  /\ mode \in Tiers
  /\ rt.count \in FirstProject .. MaxSlots
  /\ rt.baseCount \in FirstProject .. rt.count
  /\ Len(rt.names) =< MaxNames
  /\ Len(rt.codes) =< MaxCodes /\ rt.imgCodes =< Len(rt.codes)
  /\ Len(rt.objs) =< MaxObjs /\ rt.imgObjs =< Len(rt.objs)
  /\ \A s \in Slot : s >= rt.count => rt.slot[s] = [FreshSlot EXCEPT !.stamp = rt.slot[s].stamp]

\* A name has one slot, a slot one name, and a word that is not free has one.
NamesAndSlots ==
  /\ \A i, j \in DOMAIN rt.names :
       i # j => /\ rt.names[i].slot # rt.names[j].slot
                /\ rt.names[i].name # rt.names[j].name
  /\ \A s \in FirstProject .. rt.count - 1 :
       rt.slot[s].cur # Nil => \E i \in DOMAIN rt.names :
                                 rt.names[i].slot = s /\ Active(rt.names[i])

\* The values that the program can still reach.
Roots == {rt.slot[s].cur : s \in Slot} \cup {rt.slot[s].base : s \in Slot}
           \cup UNION {ToSet(rt.slot[s].lib) : s \in Slot}
           \cup {<<"code", rt.events[i]>> : i \in DOMAIN rt.events}

RECURSIVE Live(_)
Live(S) ==
  LET T == S \cup UNION {RefsOf(rt, v) : v \in {u \in S : IsRecord(rt, u)}}
  IN  IF T = S THEN S ELSE Live(T)

\* The tables are cut back by clear, restore, wipe-user, a failed mount and a
\* save that mounts its own image (code.c, object.c), and no slot, body or
\* object that can still be reached names an id that was cut off.
NoDangling ==
  \A v \in Live(Roots) :
    \/ Kind(v) \notin {"code", "obj"} \/ v[2] = 0
    \/ IsRecord(rt, v)

\* Code that can still run calls the word that its source names.
OneMeaning ==
  \A v \in Live(Roots) :
    Kind(v) = "code" /\ IsRecord(rt, v) =>
      LET c == rt.codes[v[2]]
      IN  c.calls \in FirstProject .. MaxSlots - 1 =>
            \E i \in DOMAIN rt.names :
              rt.names[i].slot = c.calls /\ rt.names[i].name = c.says

\* A slot that clear, restore or wipe-user freed is given out again only when
\* nothing that can still run names it (slot.c, runtime.c): whatever the order
\* of commands, names and slots stay one to one, and old code never comes to
\* call a word that its source does not name.
WordsKeepSlots == TypeOK /\ NamesAndSlots /\ OneMeaning

\* What a save writes, in full or by copying the library's records
\* (persist_payload.c), a boot mounts in both of its passes.
\* src/src/persist_payload.c:3670: "code names a project slot only when the
\* image names it, with a NAME or a RESERVED_NAME record".
SavedImageMounts ==
  Stored => LET lib == RestoreLibrary(BaseRuntime, flash)
            IN  lib.err = "OK" /\ RestoreUserAfterLibrary(lib.rt, flash).err = "OK"
=============================================================================
