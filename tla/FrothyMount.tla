---------------------------- MODULE FrothyMount -----------------------------
(***************************************************************************)
(* Mounting the payload of a saved image (src/src/persist_payload.c): what *)
(* is checked before the runtime is touched, what each kind of mount does  *)
(* to it, and the two wipes.  A step answers [err, rt].                    *)
(*                                                                         *)
(* A mount gives every record its own id again: it does not patch the code *)
(* of the image, so each object and each code must land at the position    *)
(* that its record has.                                                    *)
(***************************************************************************)
EXTENDS FrothyPayload

Done(rt) == [err |-> "OK", rt |-> rt]
Stopped(err, rt) == [err |-> err, rt |-> rt]

\* Do the steps in turn, up to the first that fails.
Each(r, items, Step(_, _)) ==
  FoldLeft(LAMBDA a, x : IF a.err = "OK" THEN Step(a.rt, x) ELSE a, r, items)

------------------------------------------------------------------------------
(***************************************************************************)
(* The checks before any change.                                           *)
(***************************************************************************)
Contiguous(records) == DOMAIN records = 1 .. Cardinality(DOMAIN records)

\* The mount would merge two records of one Text, and two of one shape.
NoTwinTexts(objs) ==
  \A i, j \in DOMAIN objs : i < j /\ objs[i].kind = "text" => objs[i] # objs[j]
NoTwinShapes(objs) ==
  \A i, j \in DOMAIN objs : i < j /\ objs[i].kind = "shape" => objs[i] # objs[j]
NoTwins(objs) == NoTwinTexts(objs) /\ NoTwinShapes(objs)

NamedSlots(img) == SlotsOf(img.names)

\* A body comes before the code that arms it, a pushed object is a Text, and
\* a project slot that code names has a name in the image.
CodeRefsValid(img) ==
  \A i \in DOMAIN img.codes :
    LET c == img.codes[i]
    IN  /\ c.inner = 0 \/ (c.inner < i /\ c.inner \in DOMAIN img.codes)
        /\ c.text = 0 \/ (c.text \in DOMAIN img.objs /\ img.objs[c.text].kind = "text")
        /\ c.calls \in FirstProject .. MaxSlots - 1 => c.calls \in NamedSlots(img)

\* What an object refers to was read before it, and has a kind it may hold.
ObjectRefsValid(img) ==
  \A i \in DOMAIN img.objs :
    LET o == img.objs[i]
        before(j, kinds) == j < i /\ j \in DOMAIN img.objs /\ img.objs[j].kind \in kinds
        holds(kinds) == \A j \in DOMAIN o.vals :
                          Kind(o.vals[j]) \in {"nil", "int"}
                            \/ (Kind(o.vals[j]) = "obj" /\ before(o.vals[j][2], kinds))
    IN  /\ o.kind = "record" => before(o.of, {"shape"}) /\ holds({"text"})
        /\ o.kind = "cells"  => holds({"text", "record"})

\* An event's body was read before the event.
EventsValid(img) == ToSet(img.events) \subseteq DOMAIN img.codes

BindsValid(img) ==
  /\ \A i \in DOMAIN img.binds :
       Kind(img.binds[i].val) \in {"code", "obj"} => IsRecord(img, img.binds[i].val)
  /\ \A i, j \in DOMAIN img.binds :
       i # j => <<img.binds[i].slot, img.binds[i].tier>> # <<img.binds[j].slot, img.binds[j].tier>>

SlotsAfter(rt, img) ==
  LET slots == SlotsOf(img.binds) \cup {n.slot : n \in {m \in ToSet(img.names) : m.reserved}}
  IN  Max({rt.baseCount} \cup {s + 1 : s \in slots})

\* One name per slot and one slot per name; a name has a bind unless it is
\* reserved, and then it has none.
NamesValid(rt, img) ==
  /\ \A i \in DOMAIN img.names :
       LET n == img.names[i]
       IN  /\ n.slot \in FirstProject .. SlotsAfter(rt, img) - 1
           /\ n.name # BaseWord
           /\ n.reserved <=> n.slot \notin SlotsOf(img.binds)
  /\ \A i, j \in DOMAIN img.names :
       i # j => /\ img.names[i].slot # img.names[j].slot
                /\ img.names[i].name # img.names[j].name

Validate(rt, img) ==
  IF \/ Cardinality(DOMAIN img.objs) > MaxObjs
     \/ Cardinality(DOMAIN img.codes) > MaxCodes
     \/ Len(img.binds) > MaxSlots
     \/ Len(img.names) > MaxNames THEN "CAPACITY"
  ELSE IF /\ NoTwins(img.objs)
          /\ Contiguous(img.codes) /\ Contiguous(img.objs)
          /\ CodeRefsValid(img) /\ ObjectRefsValid(img) /\ EventsValid(img)
          /\ BindsValid(img) /\ NamesValid(rt, img) THEN "OK"
  ELSE "CORRUPT"

------------------------------------------------------------------------------
(***************************************************************************)
(* The parts of a mount.                                                   *)
(***************************************************************************)
\* An element may refer only to an object that is installed already.
InstallObject(rt, i, o) ==
  LET made == IF o.kind = "text" \/ o.kind = "shape" THEN Interned(rt, o)
              ELSE InstallNew(rt, o)
      allowed == CASE o.kind = "record" -> /\ \A j \in DOMAIN o.vals : FieldAllowed(rt, o.vals[j])
                                           /\ IsObject(rt, <<"obj", o.of>>, {"shape"})
                   [] o.kind = "cells" -> \A j \in DOMAIN o.vals : CellAllowed(rt, o.vals[j])
                   [] OTHER -> TRUE
  IN  IF ~ allowed THEN Stopped("CORRUPT", rt)
      ELSE IF made.id # i THEN Stopped("CORRUPT", made.rt)
      ELSE Done(made.rt)

\* Image code counts as the image's as it is mounted, objects when all are.
MountCode(rt, i, c) ==
  LET m == InstallCode(rt, c)
  IN  IF m.id = i THEN Done([m.rt EXCEPT !.imgCodes = i]) ELSE Stopped("CORRUPT", m.rt)

InstallResources(rt, img) ==
  LET ids(records) == SetToSortSeq(DOMAIN records, <)
      objects == Each(Done(rt), ids(img.objs), LAMBDA r, i : InstallObject(r, i, img.objs[i]))
  IN  Each(objects, ids(img.codes), LAMBDA r, i : MountCode(r, i, img.codes[i]))

\* A bind of a checked image cannot fail, so no library word is skipped.
ApplyBinds(rt, img, tier) ==
  FoldLeft(LAMBDA r, b : [SetMountedBase(r, b.slot, b.val, tier) EXCEPT
                            !.slot[b.slot].stamp = tier],
           rt, InTier(img.binds, tier))

\* A word of both tiers gets its name with the library.
NameTier(img, s) == IF s \in SlotsOf(InTier(img.binds, "lib")) THEN "lib" ELSE "user"

ApplyNames(rt, img, tiers) ==
  Each(Done(rt), SelectSeq(img.names, LAMBDA n : ~ n.reserved /\ NameTier(img, n.slot) \in tiers),
       LAMBDA r, n : MountName(r, n.name, n.slot))

ApplyReserved(rt, img) ==
  Each(Done(rt), SelectSeq(img.names, LAMBDA n : n.reserved),
       LAMBDA r, n : MountReservedName(r, n.name, n.slot))

\* Every timer of the model has one period, so a registration replaces the
\* last one.
ApplyEvents(rt, img) ==
  Done(FoldLeft(LAMBDA r, id : [r EXCEPT !.events = <<id>>], rt, img.events))

Then(r, Step(_)) == IF r.err = "OK" THEN Step(r.rt) ELSE r

------------------------------------------------------------------------------
(***************************************************************************)
(* Wipes of a tier in RAM.                                                 *)
(***************************************************************************)
\* A dropped name stays reserved: code may still name its slot.
ReserveDropped(rt, tiers) ==
  [rt EXCEPT !.names = [i \in DOMAIN @ |->
     IF ~ rt.slot[@[i].slot].ov /\ rt.slot[@[i].slot].tier \notin tiers
     THEN [@[i] EXCEPT !.state = "reserved"] ELSE @[i]]]

\* A user value goes; the library value under it comes back.
WithoutUser(f) ==
  LET base == IF f.tier # "user" THEN f
              ELSE IF f.lib # <<>>
              THEN [f EXCEPT !.cur = f.lib[1], !.base = f.lib[1], !.ov = FALSE,
                             !.tier = "lib", !.stamp = "lib"]
              ELSE [f EXCEPT !.cur = Nil, !.base = Nil, !.ov = FALSE,
                             !.tier = "none", !.stamp = "none"]
  IN  IF base.ov /\ base.stamp # "lib" THEN [base EXCEPT !.cur = base.base, !.ov = FALSE]
      ELSE base

WipeUserTier(rt) ==
  ReclaimFreeTail(ReserveDropped(
    [rt EXCEPT !.slot = [s \in Slot |-> IF s < rt.count THEN WithoutUser(@[s]) ELSE @[s]]],
    {"lib"}))

\* A library value goes, and the copy under a user word; an unsaved user
\* value stays.
WithoutLibrary(rt, s) ==
  LET f == rt.slot[s]
      kept == f.ov /\ EncodeTier(rt, s) = "user"
      base == IF f.tier # "lib" THEN [f EXCEPT !.lib = <<>>]
              ELSE IF kept THEN [f EXCEPT !.base = Nil, !.tier = "none", !.lib = <<>>]
              ELSE [FreshSlot EXCEPT !.cur = Nil]
  IN  IF base.ov /\ base.stamp = "lib"
      THEN [base EXCEPT !.cur = base.base, !.ov = FALSE, !.stamp = "none"]
      ELSE base

WipeLibraryTier(rt) ==
  ReclaimFreeTail(ReserveDropped(
    [rt EXCEPT !.slot = [s \in Slot |-> IF s < rt.count THEN WithoutLibrary(rt, s) ELSE @[s]]],
    Tiers))

------------------------------------------------------------------------------
(***************************************************************************)
(* The four mounts.                                                        *)
(***************************************************************************)
\* The runtime of a mount that replaces the whole program.
Emptied(rt) == [RestoreBaseTables(ClearProject(rt)) EXCEPT !.names = <<>>]

\* After a save, and when a save must be taken back.
FullRestore(rt, img) ==
  IF Validate(rt, img) # "OK" THEN Stopped(Validate(rt, img), rt)
  ELSE LET res == InstallResources(Emptied(rt), img)
           bound == Then(res, LAMBDA r :
                      Done(ApplyBinds(ApplyBinds(MarkImage(r), img, "lib"), img, "user")))
           named == Then(bound, LAMBDA r : ApplyNames(r, img, Tiers))
           all   == Then(named, LAMBDA r : ApplyReserved(r, img))
       IN  Then(all, LAMBDA r : ApplyEvents(r, img))

\* The first pass of a boot.
RestoreLibrary(rt, img) ==
  IF Validate(rt, img) # "OK" THEN Stopped(Validate(rt, img), rt)
  ELSE LET res == InstallResources(Emptied(rt), img)
           bound == Then(res, LAMBDA r : Done(ApplyBinds(MarkImage(r), img, "lib")))
           named == Then(bound, LAMBDA r : ApplyNames(r, img, {"lib"}))
       IN  Then(named, LAMBDA r : ApplyReserved(r, img))

\* Its second pass, on the same payload.
RestoreUserAfterLibrary(rt, img) ==
  LET named == ApplyNames(ApplyBinds(rt, img, "user"), img, {"user"})
  IN  Then(named, LAMBDA r : ApplyEvents(r, img))

\* `restore`: the library words in RAM stay, the tables are the image's.
RestoreUserOnly(rt, img) ==
  IF Validate(rt, img) # "OK" THEN Stopped(Validate(rt, img), rt)
  ELSE LET res == InstallResources(RestoreBaseTables(DropReserved(WipeUserTier(rt))), img)
           lib == Then(res, LAMBDA r : ApplyNames(MarkImage(r), img, {"lib"}))
           all == Then(lib, LAMBDA r : ApplyReserved(r, img))
           user == Then(all, LAMBDA r : ApplyNames(ApplyBinds(r, img, "user"), img, {"user"}))
       IN  Then(user, LAMBDA r : ApplyEvents(r, img))
=============================================================================
