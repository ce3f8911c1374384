---------------------------- MODULE FrothySlots ----------------------------
(***************************************************************************)
(* The slot table and the project names of a Frothy runtime                *)
(* (src/src/slot.c and the slot part of src/src/runtime.c), as operators   *)
(* on a runtime record.                                                    *)
(*                                                                         *)
(* A word is a slot.  Code, images and events name a word by the number of *)
(* its slot; only the source names it by its name.  A slot that code still *)
(* names must therefore never be given to another name, although the word  *)
(* that owned it is gone: its name stays in the table, reserved (ADR 0089).*)
(*                                                                         *)
(* A slot holds the value now (cur), the value a clear goes back to (base),*)
(* whether they differ (ov), the tier of the mounted record behind the     *)
(* base (tier), the library value under a user redefinition (lib, a        *)
(* sequence of at most one value) and the tier that a save gives to an     *)
(* unsaved value (stamp, fr_persist_slot_tier).                            *)
(*                                                                         *)
(* Left out: the bytes of names and where they are kept, except whether an *)
(* entry came from an image that is not committed yet; the diagnostics.    *)
(***************************************************************************)
EXTENDS Naturals, Sequences, FiniteSets, SequencesExt

CONSTANTS Names,      \* the project names that the source uses
          BaseWord,   \* the name of the one word of the base image
          MaxSlots,   \* FR_PROFILE_MAX_SLOTS
          MaxNames    \* FR_PROFILE_MAX_OVERLAY_NAMES

ASSUME SlotsAssumption == /\ MaxSlots \in Nat \ {0, 1}
                          /\ MaxNames \in Nat
                          /\ BaseWord \notin Names

Slot == 0 .. MaxSlots - 1
FirstProject == 1                     \* slot 0 is the word of the base image
NoSlot == MaxSlots                    \* no slot of the table

Nil == <<"nil">>
Native == <<"native">>
Kind(v) == v[1]

\* The tiers of a record or a session; "none" is no tier.
Tiers == {"lib", "user"}

FreshSlot == [cur |-> Nil, base |-> Nil, ov |-> FALSE,
              tier |-> "none", lib |-> <<>>, stamp |-> "none"]

\* The slots of a runtime on which only the base image is installed.
BaseSlots == [s \in Slot |->
                IF s = 0 THEN [FreshSlot EXCEPT !.cur = Native, !.base = Native]
                         ELSE FreshSlot]

Higher(a, b) == IF a > b THEN a ELSE b

------------------------------------------------------------------------------
(***************************************************************************)
(* Values of slots.                                                        *)
(***************************************************************************)
\* A run or an apply stores a value; equal to the base, it is no overlay.
Write(rt, s, v) ==
  [rt EXCEPT !.slot[s].cur = v,
             !.slot[s].ov = v # rt.slot[s].base,
             !.count = Higher(@, s + 1)]

\* A mounted record becomes the value that a clear goes back to.
SetMountedBase(rt, s, v, tier) ==
  [rt EXCEPT !.slot[s] = [@ EXCEPT !.cur = v, !.base = v, !.ov = FALSE,
                                   !.tier = tier,
                                   !.lib = IF tier = "lib" THEN <<v>> ELSE @],
             !.count = Higher(@, s + 1),
             !.baseCount = Higher(@, s + 1)]

RestoreSlot(rt, s) ==
  [rt EXCEPT !.slot[s].cur = rt.slot[s].base, !.slot[s].ov = FALSE]

------------------------------------------------------------------------------
(***************************************************************************)
(* Names.  An entry is named, reserved, or taken: a reserved name that an  *)
(* unsaved definition took back.                                           *)
(***************************************************************************)
Entry(s, n, state, settled) == [slot |-> s, name |-> n, state |-> state,
                              settled |-> settled]

Active(e) == e.state # "reserved"

\* The slot that a name in the source means now.
IdForName(rt, n) ==
  IF n = BaseWord THEN 0
  ELSE LET i == SelectInSeq(rt.names, LAMBDA e : Active(e) /\ e.name = n)
       IN  IF i = 0 THEN NoSlot ELSE rt.names[i].slot

ReservedIndex(rt, n) ==
  SelectInSeq(rt.names, LAMBDA e : ~ Active(e) /\ e.name = n)

PointsTo(rt, s) == \E i \in DOMAIN rt.names : rt.names[i].slot = s

\* No name, no value, no record: no code names the slot either.
IsFree(rt, s) ==
  /\ ~ rt.slot[s].ov
  /\ rt.slot[s].cur = rt.slot[s].base
  /\ rt.slot[s].base = Nil
  /\ rt.slot[s].tier = "none"
  /\ rt.slot[s].lib = <<>>
  /\ ~ PointsTo(rt, s)

\* The lowest free project slot, or the first number past the table's top.
LowestFree(rt) ==
  LET free == {s \in FirstProject .. rt.count - 1 : IsFree(rt, s)}
  IN  IF free = {} THEN Higher(rt.count, FirstProject)
      ELSE CHOOSE s \in free : \A t \in free : s =< t

\* Both counts end just above the highest slot in use.
Lowered(rt, top, floor) ==
  LET used == {s \in floor .. top - 1 : ~ IsFree(rt, s)}
  IN  IF top =< floor THEN top
      ELSE IF used = {} THEN floor
      ELSE 1 + CHOOSE s \in used : \A t \in used : s >= t

ReclaimFreeTail(rt) ==
  LET first == [rt EXCEPT !.count = Lowered(rt, @, rt.baseCount)]
      next  == [first EXCEPT !.baseCount = Lowered(first, @, FirstProject)]
  IN  [next EXCEPT !.count = Lowered(next, @, next.baseCount)]

\* The slot that a definition of the name will use.
Prepare(rt, n) ==
  LET r == ReservedIndex(rt, n)
      s == LowestFree(rt)
      to(err, slot) == [err |-> err, slot |-> slot]
  IN  IF IdForName(rt, n) # NoSlot THEN to("OK", IdForName(rt, n))
      ELSE IF r # 0 THEN to("OK", rt.names[r].slot)
      ELSE IF Len(rt.names) >= MaxNames \/ s >= MaxSlots THEN to("CAPACITY", NoSlot)
      ELSE to("OK", s)

\* The check before an apply: the name would get this very slot.
ValidateName(rt, n, s, countAfter) ==
  LET have == IdForName(rt, n)
      r == ReservedIndex(rt, n)
  IN  CASE s >= MaxSlots -> "RANGE"
        [] s >= countAfter -> "INVALID"
        [] have # NoSlot -> IF have = s THEN "OK" ELSE "INVALID"
        [] r # 0 -> IF rt.names[r].slot = s THEN "OK" ELSE "INVALID"
        [] Len(rt.names) >= MaxNames \/ LowestFree(rt) >= MaxSlots -> "CAPACITY"
        [] OTHER -> IF LowestFree(rt) = s THEN "OK" ELSE "INVALID"

\* A definition names its slot.  A reserved name is taken back, with its slot.
BindName(rt, n, s) ==
  LET r == ReservedIndex(rt, n)
  IN  IF IdForName(rt, n) # NoSlot THEN rt
      ELSE IF r # 0 THEN [rt EXCEPT !.names[r].state = "taken"]
      ELSE [rt EXCEPT !.names = Append(@, Entry(s, n, "named", TRUE))]

\* A definition failed after its name was bound.
RollbackName(rt, n, s) ==
  LET i == SelectInSeq(rt.names, LAMBDA e : e.slot = s /\ e.name = n)
      names == IF i = 0 THEN rt.names
               ELSE IF rt.names[i].state = "named" THEN RemoveAt(rt.names, i)
               ELSE [rt.names EXCEPT ![i].state = "reserved"]
  IN  ReclaimFreeTail(RestoreSlot([rt EXCEPT !.names = names], s))

\* A NAME record of an image.  The entry is settled when the image is committed.
MountName(rt, n, s) ==
  LET i == SelectInSeq(rt.names, LAMBDA e : e.slot = s)
      named == Entry(s, n, "named", FALSE)
      to(err, rt2) == [err |-> err, rt |-> rt2]
  IN  IF s < FirstProject \/ s >= rt.count THEN to("INVALID", rt)
      ELSE IF i # 0
           THEN IF rt.names[i].name = n
                THEN to("OK", [rt EXCEPT !.names[i] = named])
                ELSE to("CORRUPT", rt)
      ELSE IF IdForName(rt, n) # NoSlot THEN to("INVALID", rt)
      ELSE IF Len(rt.names) >= MaxNames THEN to("CAPACITY", rt)
      ELSE to("OK", [rt EXCEPT !.names = Append(@, named)])

\* A RESERVED_NAME record of an image.
MountReservedName(rt, n, s) ==
  LET to(err, rt2) == [err |-> err, rt |-> rt2]
  IN  IF s < FirstProject \/ s >= MaxSlots THEN to("INVALID", rt)
      ELSE IF \E i \in DOMAIN rt.names :
                rt.names[i].slot = s \/ rt.names[i].name = n THEN to("CORRUPT", rt)
      ELSE IF Len(rt.names) >= MaxNames THEN to("CAPACITY", rt)
      ELSE to("OK", [rt EXCEPT !.names = Append(@, Entry(s, n, "reserved", FALSE)),
                               !.count = Higher(@, s + 1),
                               !.baseCount = Higher(@, s + 1)])

\* `restore` takes the reservations of the image in place of those in RAM.
DropReserved(rt) ==
  [rt EXCEPT !.names = SelectSeq(@, LAMBDA e : e.state = "named")]

\* The entries of an image that is now the committed one.
MarkNamesSaved(rt) ==
  [rt EXCEPT !.names = [i \in DOMAIN @ |-> [@[i] EXCEPT !.settled = TRUE]]]

\* (Mutant of KeptByClear: a clear forgets the names that it reserves.)
KeptNamedOnly(rt, e) ==
  e.state = "named" /\ e.slot < rt.baseCount /\ rt.slot[e.slot].tier # "none" /\ e.settled

\* A saved name stays; a reserved or taken name stays below the saved part.
KeptByClear(rt, e) ==
  /\ e.slot < rt.baseCount
  /\ e.state = "named" => rt.slot[e.slot].tier # "none" /\ e.settled

\* `clear`: every slot has its base value again, and what the saved program
\* does not name is forgotten.
ClearSlots(rt) ==
  LET kept == SelectSeq(rt.names, LAMBDA e : KeptByClear(rt, e))
  IN  [rt EXCEPT !.slot = [s \in Slot |-> [@[s] EXCEPT !.cur = rt.slot[s].base, !.ov = FALSE]],
                 !.names = [i \in DOMAIN kept |->
                              IF kept[i].state = "named" THEN kept[i]
                              ELSE [kept[i] EXCEPT !.state = "reserved"]],
                 !.count = rt.baseCount]
==============================================================================
