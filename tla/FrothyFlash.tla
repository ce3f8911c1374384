---------------------------- MODULE FrothyFlash ----------------------------
(***************************************************************************)
(* The durable half of Frothy's persistence: two image slots on flash and  *)
(* the pure rules of src/persist_format.c that choose which slot a boot    *)
(* reads and which slot a save overwrites.  Both rules are shared by the   *)
(* ESP-IDF, RP2040 and host platforms.                                     *)
(*                                                                         *)
(* An image is abstracted to what those rules tell apart: the verdict of   *)
(* header and checksum, the backend generation, the program in the payload *)
(* and whether the payload decoder accepts it.                             *)
(***************************************************************************)
EXTENDS Integers

CONSTANTS
    LibWords,       \* names of the library tier (L1)
    UserWords,      \* names of the user tier (L2)
    Defs,           \* the definitions a word may have
    None,           \* the word is not defined
    NoProgram,      \* no payload: nothing stored, no image code installed
    MaxGen          \* bound on backend generations (uint32_t in the code)

ASSUME NoneAssumption == None \notin Defs
ASSUME MaxGenAssumption == MaxGen \in Nat \ {0}

\* What one payload holds: a definition or nothing for each word of a tier.
LibLayers == [LibWords -> Defs \cup {None}]
UserLayers == [UserWords -> Defs \cup {None}]
Programs == [lib : LibLayers, user : UserLayers]

ASSUME NoProgramAssumption == NoProgram \notin Programs

NoLib == [w \in LibWords |-> None]
NoUser == [w \in UserWords |-> None]

Slots == 0 .. 1
NoSlot == 2     \* FR_PERSIST_NO_MOUNTED_SLOT, and "no candidate"

\* The verdict of reading a slot's header and checksumming its payload:
\* erased flash, damage, an image of another release, or a good image.
Verdicts == {"empty", "corrupt", "other", "valid"}

Images == [state : Verdicts, gen : 0 .. MaxGen,
           program : Programs \cup {NoProgram}, loads : BOOLEAN]

Bare(state) ==
    [state |-> state, gen |-> 0, program |-> NoProgram, loads |-> FALSE]
Empty == Bare("empty")
Corrupt == Bare("corrupt")
OtherRelease == Bare("other")
Image(gen, program) ==
    [state |-> "valid", gen |-> gen, program |-> program, loads |-> TRUE]

Valid(f, s) == f[s].state = "valid"
ValidSlots(f) == {s \in Slots : Valid(f, s)}
BothValid(f) == Valid(f, 0) /\ Valid(f, 1)
ValidCount(f) ==
    IF BothValid(f) THEN 2 ELSE IF ValidSlots(f) = {} THEN 0 ELSE 1

\* The slot of the newest good image.
NewestSlot(f) ==
    IF ~Valid(f, 0) \/ (Valid(f, 1) /\ f[1].gen > f[0].gen) THEN 1 ELSE 0

\* Mutant: one candidate too many.
ReadVerdictOffByOne(f, index) ==
    IF ValidSlots(f) # {}
      THEN IF index <= ValidCount(f) THEN "ok" ELSE "not_found"
      ELSE IF \E s \in Slots : f[s].state = "corrupt" THEN "corrupt"
           ELSE IF \E s \in Slots : f[s].state = "other" THEN "other"
           ELSE "not_found"

\* The verdict on the read request for candidate number index (0 is the
\* newest).  Damage wins over "other release", which wins over "not found".
ReadVerdict(f, index) ==
    IF ValidSlots(f) # {}
      THEN IF index < ValidCount(f) THEN "ok" ELSE "not_found"
      ELSE IF \E s \in Slots : f[s].state = "corrupt" THEN "corrupt"
           ELSE IF \E s \in Slots : f[s].state = "other" THEN "other"
           ELSE "not_found"

ReadSlot(f, index) == IF index = 0 THEN NewestSlot(f) ELSE 1 - NewestSlot(f)

\* Mutant: the mounted slot is not spared.
CommitSlotTakesOldest(f, mounted) ==
    IF BothValid(f) THEN (IF f[0].gen <= f[1].gen THEN 0 ELSE 1)
    ELSE IF Valid(f, 0) THEN 1 ELSE 0

\* A save overwrites the slot that is not mounted; with nothing mounted, the
\* older of two good images, or else a slot without one.
CommitSlot(f, mounted) ==
    IF mounted \in Slots THEN 1 - mounted
    ELSE IF BothValid(f) THEN (IF f[0].gen <= f[1].gen THEN 0 ELSE 1)
    ELSE IF Valid(f, 0) THEN 1 ELSE 0

NewestGen(f) ==
    IF BothValid(f) THEN (IF f[1].gen > f[0].gen THEN f[1].gen ELSE f[0].gen)
    ELSE IF Valid(f, 0) THEN f[0].gen
    ELSE IF Valid(f, 1) THEN f[1].gen
    ELSE 0
\* Mutant: the new image is not newer.
CommitGenSame(f) == NewestGen(f)

CommitGen(f) == NewestGen(f) + 1

\* The program the next boot finds first, NoProgram when there is none.
Durable(f) ==
    IF ValidSlots(f) = {} THEN NoProgram ELSE f[NewestSlot(f)].program
=============================================================================
