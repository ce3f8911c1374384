------------------------- MODULE FrothyPersistProof -------------------------
(***************************************************************************)
(* What TLAPS proves of FrothyPersist for every set of words, every bound  *)
(* on generations and either kind of flash: the types, that the installed  *)
(* code is always the code of an intact mounted image, that the payload    *)
(* pointer of the boot never dangles, that no step writes to the mounted   *)
(* slot, that a boot takes both tiers from one image, and that an at-once  *)
(* command that failed leaves none of its change. Of a flash whose writes  *)
(* do not go wrong unnoticed, or are read back: that a save that answers   *)
(* ok is durable and running, and that the two slots implement the store   *)
(* of programs.                                                            *)
(***************************************************************************)
EXTENDS FrothyPersist, TLAPS

\* Each good image holds a program.
ImagesHold == \A s \in Slots : Valid(flash, s) => flash[s].program \in Programs

\* A save knows a free generation and streams to the slot that is not mounted.
StreamSafe ==
    /\ pc = "begin" => CommitGen(flash) <= MaxGen
    /\ pc \in {"erase", "write", "header"}
        => stream.slot \in Slots /\ stream.slot # mounted
    /\ pc = "header" => cmd.want \in Programs

\* A candidate is a good image, and after its apply the installed one.
CandidateSafe ==
    /\ pc \in {"apply", "mount_commit"}
        => candidate \in Slots /\ Valid(flash, candidate) /\ cmd.index < 2
    /\ pc = "mount_commit"
        => flash[candidate].loads /\ rt.table = flash[candidate].program

\* Nothing is mounted during a wipe, and only the boot keeps a payload.
PinSafe ==
    /\ pc \in WipeSteps => mounted = NoSlot
    /\ pc \notin {"idle", "user_pass"} => pin = NoSlot
    /\ PinIsMounted

IInv ==
    /\ TypeOK /\ ImagesHold /\ StreamSafe /\ CandidateSafe /\ PinSafe
    /\ CodeMatchesImage

(***************************************************************************)
(* The operators on flash and on the runtime.                              *)
(***************************************************************************)

\* A layer of base values stays a layer when a payload is bound over it.
LEMMA BindType ==
    ASSUME NEW words, NEW layer \in [words -> Defs \cup {None}],
           NEW base \in [words -> Defs \cup {None}]
    PROVE  Bind(layer, base) \in [words -> Defs \cup {None}]
  BY DEF Bind

\* Every change the appliers make to a runtime gives a runtime.
LEMMA RuntimeTypes ==
    ASSUME NEW r \in Runtimes, NEW p \in Programs
    PROVE  /\ ClearProject(r) \in Runtimes /\ ClearProject(r).table = r.table
           /\ CleanupFailedApply(r) \in Runtimes
           /\ CleanupFailedApply(r).table = NoProgram
           /\ WipeUserTier(r) \in Runtimes /\ WipeUserTier(r).table = r.table
           /\ WipeLibraryTier(r) \in Runtimes
           /\ WipeLibraryTier(r).table = r.table
           /\ BindLib(r, p) \in Runtimes /\ BindLib(r, p).table = r.table
           /\ BindUser(r, p) \in Runtimes /\ BindUser(r, p).table = r.table
  <1>1. /\ ClearProject(r) \in Runtimes /\ ClearProject(r).table = r.table
        /\ CleanupFailedApply(r) \in Runtimes
        /\ CleanupFailedApply(r).table = NoProgram
    BY DEF Runtimes, ClearProject, CleanupFailedApply
  <1>2. NoLib \in LibLayers /\ NoUser \in UserLayers
    BY DEF NoLib, NoUser, LibLayers, UserLayers
  <1>3. /\ WipeUserTier(r) \in Runtimes /\ WipeUserTier(r).table = r.table
        /\ WipeLibraryTier(r) \in Runtimes
        /\ WipeLibraryTier(r).table = r.table
    BY <1>2 DEF Runtimes, WipeUserTier, WipeLibraryTier
  <1>4. /\ Bind(p.lib, r.libBase) \in LibLayers
        /\ Bind(p.user, r.userBase) \in UserLayers
    BY BindType DEF Programs, Runtimes, LibLayers, UserLayers
  <1>5. /\ BindLib(r, p) \in Runtimes /\ BindLib(r, p).table = r.table
        /\ BindUser(r, p) \in Runtimes /\ BindUser(r, p).table = r.table
    BY <1>4 DEF Runtimes, BindLib, BindUser
  <1> QED BY <1>1, <1>3, <1>5

\* An applier that succeeds installs its program; one that fails leaves a
\* runtime.
LEMMA AppliedType ==
    ASSUME NEW r \in Runtimes, NEW op, NEW p \in Programs
    PROVE  Applied(r, op, p) \in Runtimes /\ Applied(r, op, p).table = p
  <1>1. ApplyBase(r, op, p) \in Runtimes /\ ApplyBase(r, op, p).table = p
    <2>1. WipeUserTier(r) \in Runtimes /\ ClearProject(r) \in Runtimes
      BY RuntimeTypes
    <2> QED BY <2>1 DEF ApplyBase, Runtimes
  <1> DEFINE withLib == IF op = "restore" THEN ApplyBase(r, op, p)
                        ELSE BindLib(ApplyBase(r, op, p), p)
  <1>2. withLib \in Runtimes /\ withLib.table = p
    BY <1>1, RuntimeTypes
  <1>3. BindUser(withLib, p) \in Runtimes /\ BindUser(withLib, p).table = p
    BY <1>2, RuntimeTypes
  <1> QED BY <1>2, <1>3 DEF Applied

LEMMA FailedApplyType ==
    ASSUME NEW r \in Runtimes, NEW op, NEW image \in Images,
           image.program \in Programs,
           NEW q \in FailedApplies(r, op, image)
    PROVE  q \in Runtimes
  BY RuntimeTypes, AppliedType DEF FailedApplies

\* A scan may miss an image but sees no other than the ones there are.
LEMMA SeenImages ==
    ASSUME NEW g \in [Slots -> Images], NEW f \in Seen(g)
    PROVE  /\ f \in [Slots -> Images]
           /\ \A s \in Slots : Valid(f, s) => f[s] = g[s]
           /\ CommitGen(f) \in Nat
           /\ CommitGen(f) <= CommitGen(g)
  <1>1. Corrupt \in Images
    BY MaxGenAssumption DEF Corrupt, Bare, Images, Verdicts
  <1>2. /\ f \in [Slots -> Images]
        /\ \A s \in Slots : f[s] \in {g[s], Corrupt}
    BY <1>1 DEF Seen
  <1>3. \A s \in Slots : Valid(f, s) => f[s] = g[s]
    BY <1>2 DEF Valid, Corrupt, Bare
  <1>4. \A h \in [Slots -> Images] : \A s \in Slots : h[s].gen \in Nat
    BY MaxGenAssumption DEF Images
  <1>5. 0 \in Slots /\ 1 \in Slots
    BY DEF Slots
  <1>6. CommitGen(f) \in Nat /\ CommitGen(f) <= CommitGen(g)
    BY <1>2, <1>3, <1>4, <1>5 DEF CommitGen, NewestGen, BothValid, Valid
  <1> QED BY <1>2, <1>3, <1>6

\* A save never picks the mounted slot.
LEMMA CommitSlotSpares ==
    ASSUME NEW f, NEW slot \in Slots \cup {NoSlot}
    PROVE  CommitSlot(f, slot) \in Slots /\ CommitSlot(f, slot) # slot
  BY DEF CommitSlot, Slots, NoSlot

\* A candidate is one of at most two good images.
LEMMA CandidateValid ==
    ASSUME NEW f, NEW index \in 0 .. 2, ReadVerdict(f, index) = "ok"
    PROVE  /\ index < 2 /\ ReadSlot(f, index) \in Slots
           /\ Valid(f, ReadSlot(f, index))
  BY DEF ReadVerdict, ReadSlot, ValidCount, NewestSlot, ValidSlots, BothValid,
         Slots

(***************************************************************************)
(* Commands and flash writes, shared by several actions.                   *)
(***************************************************************************)

LEMMA CommandType ==
    ASSUME NEW op \in Ops
    PROVE  /\ Command(op) \in Commands
           /\ Command(op).op = op /\ Command(op).index = 0
  <1> DEFINE latest == op \in Saves
  <1> DEFINE hadMount == mounted # NoSlot
  <1>1. latest \in BOOLEAN /\ hadMount \in BOOLEAN
    OBVIOUS
  <1>2. Command(op) = [op |-> op, index |-> 0, latest |-> latest,
            failed |-> FALSE, hadMount |-> hadMount, want |-> NoProgram]
    BY DEF Command
  <1> HIDE DEF latest, hadMount
  <1> QED BY <1>1, <1>2 DEF Commands

LEMMA CommandChanges ==
    ASSUME NEW c \in Commands, NEW latest \in BOOLEAN, NEW failed \in BOOLEAN,
           NEW index \in 0 .. 2
    PROVE  [c EXCEPT !.latest = latest, !.index = index, !.failed = failed]
             \in Commands
  <1>1. ASSUME NEW I, NEW O, NEW W, NEW i \in I,
               NEW k \in [op : O, index : I, latest : BOOLEAN,
                          failed : BOOLEAN, hadMount : BOOLEAN, want : W]
        PROVE  [k EXCEPT !.latest = latest, !.index = i, !.failed = failed]
                 \in [op : O, index : I, latest : BOOLEAN,
                      failed : BOOLEAN, hadMount : BOOLEAN, want : W]
    OBVIOUS
  <1> QED BY <1>1 DEF Commands

\* Writing an image to a slot that is not mounted keeps the flash sound.
LEMMA WriteKeepsFlash ==
    ASSUME TypeOK, ImagesHold, NEW s \in Slots, s # mounted,
           NEW image \in Images,
           image.state = "valid" => image.program \in Programs,
           SetSlot(s, image)
    PROVE  /\ flash' \in [Slots -> Images] /\ ImagesHold'
           /\ mounted \in Slots => flash'[mounted] = flash[mounted]
  BY DEF TypeOK, ImagesHold, SetSlot, Valid

LEMMA BareImages ==
    Empty \in Images /\ Corrupt \in Images
  BY MaxGenAssumption DEF Empty, Corrupt, Bare, Images, Verdicts

\* What an interrupted erase leaves is an image, and a good one only when it
\* was there before.
LEMMA HalfErasedImages ==
    ASSUME TypeOK, ImagesHold, NEW s \in Slots, NEW image \in HalfErased(s)
    PROVE  /\ image \in Images
           /\ image.state = "valid" => image.program \in Programs
  <1>1. flash[s] \in Images /\ (flash[s].state = "valid" => flash[s].program \in Programs)
    BY DEF TypeOK, ImagesHold, Valid
  <1>2. Empty.state # "valid" /\ Corrupt.state # "valid"
    BY DEF Empty, Corrupt, Bare
  <1> QED BY <1>1, <1>2, BareImages DEF HalfErased

\* The image a save writes, and what a failed header write leaves.
LEMMA NewImageType ==
    ASSUME TypeOK, StreamSafe, pc = "header"
    PROVE  \A image \in {Empty, Corrupt, NewImage} :
             /\ image \in Images
             /\ image.state = "valid" => image.program \in Programs
  <1>1. NewImage \in Images /\ NewImage.program \in Programs
    <2>1. stream.gen \in 0 .. MaxGen /\ cmd.want \in Programs
      BY DEF TypeOK, StreamSafe
    <2> QED BY <2>1 DEF NewImage, Image, Images, Verdicts
  <1>2. Empty.state # "valid" /\ Corrupt.state # "valid"
    BY DEF Empty, Corrupt, Bare
  <1> QED BY <1>1, <1>2, BareImages

(***************************************************************************)
(* The invariant is inductive: one lemma for each kind of step.            *)
(***************************************************************************)

LEMMA InitInv == Init => IInv
  <1> SUFFICES ASSUME Init PROVE IInv
    OBVIOUS
  <1>1. flash \in [Slots -> Images] /\ ImagesHold
    <2>1. /\ Empty \in Images /\ Empty.state # "valid"
          /\ OtherRelease \in Images /\ OtherRelease.state # "valid"
      BY MaxGenAssumption
      DEF Empty, OtherRelease, Bare, Images, Verdicts
    <2>2. ASSUME NEW q \in Programs, NEW loads \in BOOLEAN
          PROVE  /\ [Image(1, q) EXCEPT !.loads = loads] \in Images
                 /\ [Image(1, q) EXCEPT !.loads = loads].program = q
      BY MaxGenAssumption DEF Image, Images, Verdicts
    <2>3. CASE flash \in [Slots -> {Empty, OtherRelease}]
      <3>1. \A s \in Slots : flash[s] \in {Empty, OtherRelease}
        BY <2>3
      <3>2. \A s \in Slots : flash[s] \in Images /\ ~Valid(flash, s)
        BY <2>1, <3>1 DEF Valid
      <3> QED BY <2>3, <3>2 DEF ImagesHold
    <2>4. ASSUME NEW q \in Programs, NEW loads \in BOOLEAN,
                 flash = [s \in Slots |->
                   IF s = 0 THEN [Image(1, q) EXCEPT !.loads = loads]
                   ELSE Empty]
          PROVE  flash \in [Slots -> Images] /\ ImagesHold
      BY <2>1, <2>2, <2>4 DEF ImagesHold, Valid
    <2> QED BY <2>3, <2>4 DEF Init
  <1>2. BaseRuntime \in Runtimes /\ BaseRuntime.table = NoProgram
    BY DEF BaseRuntime, Runtimes, NoLib, NoUser, LibLayers, UserLayers
  <1>3. NoCommand \in Commands /\ NoStream.gen \in 0 .. MaxGen
        /\ NoStream \in [slot : Slots \cup {NoSlot}, gen : 0 .. MaxGen]
    BY MaxGenAssumption DEF NoCommand, Commands, Ops, Saves, NoStream
  <1>4. TypeOK
    BY <1>1, <1>2, <1>3 DEF Init, TypeOK
  <1> QED
    BY <1>1, <1>2, <1>4
    DEF Init, IInv, StreamSafe, CandidateSafe, PinSafe, PinIsMounted,
        CodeMatchesImage, WipeSteps, NoSlot, Slots

\* Edits at the prompt and refused commands: only the words change.
LEMMA EditInv ==
    ASSUME IInv,
           \/ \E w \in UserWords, d \in Defs : DefineUserWord(w, d)
           \/ Clear \/ InstallUser \/ (Idle /\ Refuse)
    PROVE  IInv'
  <1> USE DEF IInv, TypeOK, ImagesHold, StreamSafe, CandidateSafe, PinSafe,
              PinIsMounted, CodeMatchesImage, Valid, Slots, NoSlot, Idle, Steps,
              StreamSteps, MountSteps, WipeSteps
  <1>1. NoCommand \in Commands
    BY DEF NoCommand, Commands, Ops, Saves
  <1>2. ASSUME NEW r \in Runtimes, r.table = rt.table, Idle, Edit(r)
        PROVE  IInv'
    BY <1>1, <1>2 DEF Edit
  <1>3. ASSUME NEW w \in UserWords, NEW d \in Defs, DefineUserWord(w, d)
        PROVE  IInv'
    <2>1. /\ [rt EXCEPT !.user[w] = d] \in Runtimes
          /\ [rt EXCEPT !.user[w] = d].table = rt.table
      BY DEF Runtimes, UserLayers
    <2> QED BY <1>2, <1>3, <2>1 DEF DefineUserWord
  <1>4. CASE Clear
    <2>1. ClearProject(rt) \in Runtimes /\ ClearProject(rt).table = rt.table
      BY DEF Runtimes, ClearProject
    <2> QED BY <1>2, <1>4, <2>1 DEF Clear
  <1>5. CASE InstallUser
    BY <1>1, <1>5 DEF InstallUser
  <1>6. CASE Idle /\ Refuse
    BY <1>1, <1>6 DEF Refuse
  <1> QED BY <1>3, <1>4, <1>5, <1>6

\* A command that saves begins: the pin is dropped before anything is written.
LEMMA StartCommitInv ==
    ASSUME IInv, Idle, NEW op \in Saves,
           NEW r \in Runtimes, r.table = rt.table, StartCommit(op, r)
    PROVE  IInv'
  <1>1. Command(op) \in Commands
    BY CommandType DEF Ops
  <1>2. CommitGen(flash)' = CommitGen(flash)
    BY DEF StartCommit, CommitGen, NewestGen, BothValid, Valid
  <1> QED
    BY <1>1, <1>2
    DEF StartCommit, IInv, TypeOK, ImagesHold, StreamSafe, CandidateSafe,
        PinSafe, PinIsMounted, CodeMatchesImage, Valid, Slots, NoSlot, Idle,
        Steps, StreamSteps, MountSteps, WipeSteps

\* The commands that save.
LEMMA SaversInv ==
    ASSUME IInv,
           \/ \E w \in LibWords, d \in Defs : DefineLibraryWord(w, d)
           \/ Save \/ WipeUser \/ InstallLibrary
    PROVE  IInv'
  <1>1. rt \in Runtimes
    BY DEF IInv, TypeOK
  <1>2. /\ WipeUserTier(rt) \in Runtimes /\ WipeUserTier(rt).table = rt.table
        /\ WipeLibraryTier(rt) \in Runtimes
        /\ WipeLibraryTier(rt).table = rt.table
    <2>1. NoLib \in LibLayers /\ NoUser \in UserLayers
      BY DEF NoLib, NoUser, LibLayers, UserLayers
    <2> QED BY <1>1, <2>1 DEF Runtimes, WipeUserTier, WipeLibraryTier
  <1>3. ASSUME NEW w \in LibWords, NEW d \in Defs
        PROVE  /\ [rt EXCEPT !.lib[w] = d] \in Runtimes
               /\ [rt EXCEPT !.lib[w] = d].table = rt.table
    BY <1>1 DEF Runtimes, LibLayers
  <1>4. ASSUME NEW w \in LibWords, NEW d \in Defs, DefineLibraryWord(w, d)
        PROVE  IInv'
    BY <1>3, <1>4, StartCommitInv, EditInv
    DEF DefineLibraryWord, Saves, AtOnce
  <1>5. CASE Save
    BY <1>1, <1>5, StartCommitInv DEF Save, Saves
  <1>6. CASE WipeUser
    BY <1>2, <1>6, StartCommitInv, EditInv DEF WipeUser, Saves, AtOnce
  <1>7. CASE InstallLibrary
    BY <1>2, <1>7, StartCommitInv, EditInv DEF InstallLibrary, Saves, AtOnce
  <1> QED BY <1>4, <1>5, <1>6, <1>7

\* A failed commit: whatever it left on flash, the mounted image is intact.
LEMMA CommitFailedInv ==
    ASSUME IInv, pc \in StreamSteps, CommitFailed,
           flash' \in [Slots -> Images], ImagesHold',
           mounted \in Slots => flash'[mounted] = flash[mounted]
    PROVE  IInv'
  <1>1. NoStream \in [slot : Slots \cup {NoSlot}, gen : 0 .. MaxGen]
    BY MaxGenAssumption DEF NoStream
  <1>2. ClearProject(rt) \in Runtimes /\ ClearProject(rt).table = rt.table
    BY DEF IInv, TypeOK, Runtimes, ClearProject
  <1>3. [cmd EXCEPT !.failed = TRUE] \in Commands
    BY DEF IInv, TypeOK, Commands
  <1>4. pin = NoSlot
    BY DEF IInv, PinSafe, StreamSteps
  <1>5. TypeOK'
    BY <1>1, <1>2, <1>3
    DEF CommitFailed, Return, IInv, TypeOK, Steps, MountSteps
  <1>6. CodeMatchesImage'
    BY <1>2 DEF CommitFailed, Return, IInv, CodeMatchesImage, StreamSteps, Valid
  <1>7. StreamSafe' /\ CandidateSafe' /\ PinSafe'
    BY <1>4
    DEF CommitFailed, Return, StreamSafe, CandidateSafe, PinSafe, PinIsMounted,
        WipeSteps, Slots, NoSlot
  <1> QED BY <1>5, <1>6, <1>7 DEF IInv

\* The slot of a save is chosen: never the mounted one.
LEMMA StreamBeginInv ==
    ASSUME IInv, StreamBegin
    PROVE  IInv'
  <1>1. CASE CommitFailed
    BY <1>1, CommitFailedInv
    DEF StreamBegin, StreamSteps, IInv, TypeOK, ImagesHold, Valid
  <1>2. ASSUME NEW f \in Seen(flash), pc' = "erase",
               stream' = [slot |-> CommitSlot(f, mounted), gen |-> CommitGen(f)],
               UNCHANGED <<flash, mounted, candidate, pin, rt, tier, cmd, reply>>
        PROVE  IInv'
    <2>1. /\ flash \in [Slots -> Images] /\ mounted \in Slots \cup {NoSlot}
          /\ CommitGen(flash) <= MaxGen
      BY DEF IInv, TypeOK, StreamSafe, StreamBegin
    <2>2. CommitGen(f) \in Nat /\ CommitGen(f) <= CommitGen(flash)
      BY <2>1, SeenImages
    <2>3. CommitGen(flash) \in Nat
      BY <2>1, MaxGenAssumption
      DEF CommitGen, NewestGen, BothValid, Valid, Images, Slots
    <2>4. CommitGen(f) \in 0 .. MaxGen
      BY <2>1, <2>2, <2>3, MaxGenAssumption
    <2>5. /\ CommitSlot(f, mounted) \in Slots
          /\ CommitSlot(f, mounted) # mounted
      BY <2>1, CommitSlotSpares
    <2>6. pc = "begin" /\ pin = NoSlot
      BY DEF StreamBegin, IInv, PinSafe
    <2> QED
      BY <1>2, <2>4, <2>5, <2>6
      DEF IInv, TypeOK, ImagesHold, StreamSafe, CandidateSafe, PinSafe,
          PinIsMounted, CodeMatchesImage, Valid, Steps, StreamSteps, WipeSteps
  <1> QED BY <1>1, <1>2 DEF StreamBegin

\* The slot is erased, perhaps only half.
LEMMA StreamEraseInv ==
    ASSUME IInv, StreamErase
    PROVE  IInv'
  <1>1. stream.slot \in Slots /\ stream.slot # mounted /\ pin = NoSlot
    BY DEF StreamErase, IInv, StreamSafe, PinSafe
  <1>2. Empty.state # "valid" /\ Empty \in Images
    BY BareImages DEF Empty, Bare
  <1>3. ASSUME SetSlot(stream.slot, Empty), pc' = "write", UNCHANGED ram
        PROVE  IInv'
    <2>1. /\ flash' \in [Slots -> Images] /\ ImagesHold'
          /\ mounted \in Slots => flash'[mounted] = flash[mounted]
      BY <1>1, <1>2, <1>3, WriteKeepsFlash DEF IInv
    <2>2. pc = "erase"
      BY DEF StreamErase
    <2> QED
      BY <1>1, <1>3, <2>1, <2>2
      DEF ram, IInv, TypeOK, StreamSafe, CandidateSafe, PinSafe,
          PinIsMounted, CodeMatchesImage, Valid, Steps, StreamSteps, WipeSteps
  <1>4. ASSUME NEW image \in HalfErased(stream.slot),
               SetSlot(stream.slot, image), CommitFailed
        PROVE  IInv'
    <2>1. image \in Images /\ (image.state = "valid" => image.program \in Programs)
      BY <1>1, HalfErasedImages DEF IInv
    <2>2. /\ flash' \in [Slots -> Images] /\ ImagesHold'
          /\ mounted \in Slots => flash'[mounted] = flash[mounted]
      BY <1>1, <1>4, <2>1, WriteKeepsFlash DEF IInv
    <2> QED BY <1>4, <2>2, CommitFailedInv DEF StreamErase, StreamSteps
  <1> QED BY <1>3, <1>4 DEF StreamErase

\* What is encoded is a program.
LEMMA PayloadType ==
    ASSUME IInv, NEW uw \in UserLayers
    PROVE  Payload(uw) \in Programs
  <1>1. NoLib \in LibLayers
    BY DEF NoLib, LibLayers
  <1>2. mounted \in Slots => flash[mounted].program \in Programs
    BY DEF IInv, ImagesHold, CodeMatchesImage
  <1>3. KeptLib \in LibLayers
    BY <1>1, <1>2 DEF KeptLib, Programs
  <1>4. rt.lib \in LibLayers
    BY DEF IInv, TypeOK, Runtimes
  <1> QED BY <1>3, <1>4 DEF Payload, Programs

\* The payload is written into the erased slot.
LEMMA StreamWriteInv ==
    ASSUME IInv, StreamWrite
    PROVE  IInv'
  <1>1. CASE CommitFailed
    BY <1>1, CommitFailedInv
    DEF StreamWrite, StreamSteps, IInv, TypeOK, ImagesHold, Valid
  <1>2. ASSUME NEW uw \in EncodedUser, pc' = "header",
               cmd' = [cmd EXCEPT !.want = Payload(uw)],
               UNCHANGED <<flash, mounted, candidate, pin, stream, rt, tier, reply>>
        PROVE  IInv'
    <2>1. Payload(uw) \in Programs
      BY PayloadType DEF EncodedUser
    <2>2. cmd' \in Commands /\ cmd'.want \in Programs
      BY <1>2, <2>1 DEF IInv, TypeOK, Commands
    <2>3. pc = "write"
      BY DEF StreamWrite
    <2> QED
      BY <1>2, <2>2, <2>3
      DEF IInv, TypeOK, ImagesHold, StreamSafe, CandidateSafe, PinSafe,
          PinIsMounted, CodeMatchesImage, Valid, Steps, StreamSteps, WipeSteps
  <1> QED BY <1>1, <1>2 DEF StreamWrite

\* The header is written, whole, torn or not at all.
LEMMA StreamFinalizeInv ==
    ASSUME IInv, StreamFinalize
    PROVE  IInv'
  <1>1. stream.slot \in Slots /\ stream.slot # mounted /\ pin = NoSlot
    BY DEF StreamFinalize, IInv, StreamSafe, PinSafe
  <1>2. ASSUME NEW image \in {Empty, Corrupt, NewImage},
               SetSlot(stream.slot, image)
        PROVE  /\ flash' \in [Slots -> Images] /\ ImagesHold'
               /\ mounted \in Slots => flash'[mounted] = flash[mounted]
    <2>1. image \in Images /\ (image.state = "valid" => image.program \in Programs)
      BY NewImageType DEF IInv, StreamFinalize
    <2> QED BY <1>1, <1>2, <2>1, WriteKeepsFlash DEF IInv
  <1>3. ASSUME NEW image \in {Empty, Corrupt, NewImage},
               SetSlot(stream.slot, image), CommitFailed
        PROVE  IInv'
    BY <1>2, <1>3, CommitFailedInv DEF StreamFinalize, StreamSteps
  <1>4. ASSUME NEW image \in {Empty, Corrupt, NewImage},
               SetSlot(stream.slot, image), pc' = "mount", stream' = NoStream,
               UNCHANGED <<mounted, candidate, pin, rt, tier, cmd, reply>>
        PROVE  IInv'
    <2>1. /\ flash' \in [Slots -> Images] /\ ImagesHold'
          /\ mounted \in Slots => flash'[mounted] = flash[mounted]
      BY <1>2, <1>4
    <2>2. NoStream \in [slot : Slots \cup {NoSlot}, gen : 0 .. MaxGen]
      BY MaxGenAssumption DEF NoStream
    <2>3. pc = "header"
      BY DEF StreamFinalize
    <2> QED
      BY <1>1, <1>4, <2>1, <2>2, <2>3
      DEF IInv, TypeOK, StreamSafe, CandidateSafe, PinSafe, PinIsMounted,
          CodeMatchesImage, Valid, Steps, MountSteps, WipeSteps, Slots, NoSlot
  <1> QED BY <1>3, <1>4 DEF StreamFinalize

\* The mount loop returns to its caller.
LEMMA LoopInv ==
    ASSUME IInv, pc \in MountSteps, NEW ok \in BOOLEAN, LoopReturns(ok),
           flash' = flash, stream' = stream, candidate' = NoSlot,
           rt' \in Runtimes, mounted' \in Slots \cup {NoSlot},
           pin' \in {pin, mounted'}, cmd.op # "boot" => pin' = pin,
           CodeMatchesImage'
    PROVE  IInv'
  <1>1. pin = NoSlot
    BY DEF IInv, PinSafe, MountSteps
  <1>2. [cmd EXCEPT !.latest = FALSE, !.index = 0, !.failed = TRUE] \in Commands
    <2>1. cmd \in Commands /\ 0 \in 0 .. 2
      BY DEF IInv, TypeOK
    <2> QED BY <2>1, CommandChanges
  <1>3. TypeOK'
    BY <1>1, <1>2 DEF LoopReturns, Return, IInv, TypeOK, Steps, MountSteps
  <1>4. ImagesHold'
    BY DEF IInv, ImagesHold, Valid
  <1>5. cmd.op = "boot" => pc' = "user_pass"
    BY DEF LoopReturns
  <1>6. pc' \in {"user_pass", "mount", "idle"}
    BY DEF LoopReturns, Return
  <1>7. StreamSafe' /\ CandidateSafe'
    BY <1>6 DEF StreamSafe, CandidateSafe
  <1>8. PinSafe'
    BY <1>1, <1>5, <1>6 DEF PinSafe, PinIsMounted, WipeSteps, Slots, NoSlot
  <1> QED BY <1>3, <1>4, <1>7, <1>8 DEF IInv

\* A candidate that did not mount: the runtime keeps its installed code.
LEMMA MissedInv ==
    ASSUME IInv, pc = "mount", candidate' = NoSlot, LoopReturns(FALSE),
           rt' \in {rt, ClearProject(rt)},
           UNCHANGED <<flash, mounted, pin, stream>>
    PROVE  IInv'
  <1>1. rt' \in Runtimes /\ rt'.table = rt.table
    BY DEF IInv, TypeOK, Runtimes, ClearProject
  <1>2. mounted \in Slots \cup {NoSlot}
    BY DEF IInv, TypeOK
  <1>3. CodeMatchesImage'
    BY <1>1 DEF IInv, CodeMatchesImage, Valid
  <1> QED BY <1>1, <1>2, <1>3, LoopInv DEF MountSteps

\* The next candidate is looked for.
LEMMA MountInv ==
    ASSUME IInv, Mount
    PROVE  IInv'
  <1>1. CASE Missed
    BY <1>1, MissedInv DEF Mount, Missed
  <1>2. CASE /\ LoopReturns(FALSE) /\ candidate' = NoSlot
             /\ UNCHANGED <<mounted, pin, stream, rt>>
    BY <1>2, MissedInv DEF Mount
  <1>3. ASSUME NEW f \in Seen(flash), ReadVerdict(f, cmd.index) = "ok",
               candidate' = ReadSlot(f, cmd.index), pc' = "apply",
               UNCHANGED <<flash, mounted, pin, stream, rt, tier, cmd, reply>>
        PROVE  IInv'
    <2>1. flash \in [Slots -> Images] /\ cmd.index \in 0 .. 2
      BY DEF IInv, TypeOK, Commands
    <2>2. /\ cmd.index < 2 /\ candidate' \in Slots /\ Valid(f, candidate')
      BY <1>3, <2>1, CandidateValid
    <2>3. Valid(flash, candidate')
      BY <2>1, <2>2, SeenImages DEF Valid
    <2>4. pc = "mount"
      BY DEF Mount
    <2> QED
      BY <1>3, <2>2, <2>3, <2>4
      DEF IInv, TypeOK, ImagesHold, StreamSafe, CandidateSafe, PinSafe,
          PinIsMounted, CodeMatchesImage, Valid, Steps, MountSteps, WipeSteps
  <1> QED BY <1>1, <1>2, <1>3 DEF Mount

\* The payload of a candidate is applied; a failed apply leaves the
\* firmware's own code.
LEMMA ApplyInv ==
    ASSUME IInv, Apply
    PROVE  IInv'
  <1> DEFINE image == flash[candidate]
  <1>1. /\ candidate \in Slots /\ cmd.index < 2 /\ pc = "apply" /\ pin = NoSlot
        /\ image \in Images /\ image.program \in Programs
        /\ rt \in Runtimes /\ cmd \in Commands
    BY DEF Apply, IInv, TypeOK, ImagesHold, CandidateSafe, PinSafe
  <1>2. CASE /\ image.loads
             /\ rt' = Applied(rt, cmd.op, image.program)
             /\ pc' = "mount_commit"
             /\ UNCHANGED <<candidate, tier, cmd, reply>>
    <2>1. rt' \in Runtimes /\ rt'.table = image.program
      BY <1>1, <1>2, AppliedType
    <2> QED
      BY <1>1, <1>2, <2>1
      DEF Apply, IInv, TypeOK, ImagesHold, StreamSafe, CandidateSafe, PinSafe,
          PinIsMounted, CodeMatchesImage, Valid, Steps, MountSteps, WipeSteps
  <1>3. ASSUME NEW r \in FailedApplies(rt, cmd.op, image), ApplyFailed(r)
        PROVE  IInv'
    <2>1. r \in Runtimes
      BY <1>1, FailedApplyType
    <2>2. rt' \in Runtimes /\ rt'.table = NoProgram
      BY <1>3, <2>1
      DEF ApplyFailed, CleanupFailedApply, ClearProject, Runtimes
    <2>3. CodeMatchesImage'
      BY <2>2 DEF Apply, IInv, CodeMatchesImage, Valid
    <2>4. CASE LoopReturns(FALSE)
      BY <1>1, <1>3, <2>2, <2>3, <2>4, LoopInv
      DEF Apply, ApplyFailed, MountSteps, IInv, TypeOK
    <2>5. CASE /\ pc' = "mount" /\ cmd' = [cmd EXCEPT !.index = @ + 1]
               /\ UNCHANGED <<reply, tier>>
      <3>1. cmd.index + 1 \in 0 .. 2
        BY <1>1 DEF Commands
      <3>2. cmd' \in Commands
        BY <1>1, <2>5, <3>1 DEF Commands
      <3> QED
        BY <1>1, <1>3, <2>2, <2>3, <2>5, <3>2
        DEF Apply, ApplyFailed, IInv, TypeOK, ImagesHold, StreamSafe,
            CandidateSafe, PinSafe, PinIsMounted, Valid, Steps, MountSteps,
            WipeSteps
    <2> QED BY <1>3, <2>4, <2>5 DEF ApplyFailed
  <1> QED BY <1>2, <1>3 DEF Apply

\* The candidate becomes the mounted slot, or is given up.
LEMMA MountCommitInv ==
    ASSUME IInv, MountCommit
    PROVE  IInv'
  <1>1. /\ candidate \in Slots /\ Valid(flash, candidate)
        /\ flash[candidate].loads /\ rt.table = flash[candidate].program
        /\ rt \in Runtimes /\ mounted \in Slots \cup {NoSlot}
        /\ pc \in MountSteps
    BY DEF MountCommit, IInv, TypeOK, CandidateSafe, MountSteps
  <1>2. CASE /\ mounted' = candidate
             /\ pin' = IF cmd.op = "boot" THEN candidate ELSE pin
             /\ LoopReturns(TRUE)
             /\ UNCHANGED rt
    <2>1. CodeMatchesImage'
      BY <1>1, <1>2 DEF MountCommit, CodeMatchesImage, Valid
    <2> QED BY <1>1, <1>2, <2>1, LoopInv DEF MountCommit
  <1>3. CASE /\ rt' = CleanupFailedApply(rt)
             /\ LoopReturns(FALSE)
             /\ UNCHANGED <<mounted, pin>>
    <2>1. rt' \in Runtimes /\ rt'.table = NoProgram
      BY <1>1, <1>3 DEF CleanupFailedApply, ClearProject, Runtimes
    <2>2. CodeMatchesImage'
      BY <1>3, <2>1 DEF MountCommit, IInv, CodeMatchesImage, Valid
    <2> QED BY <1>1, <1>3, <2>1, <2>2, LoopInv DEF MountCommit
  <1> QED BY <1>2, <1>3 DEF MountCommit

\* A command that reads begins, and the two ways to boot.
LEMMA StartInv ==
    ASSUME IInv, Restore \/ PowerOn \/ SafeBoot
    PROVE  IInv'
  <1>1. \A op \in {"restore", "boot", "safe_boot"} : Command(op) \in Commands
    BY CommandType DEF Ops
  <1> QED
    BY <1>1
    DEF Restore, PowerOn, SafeBoot, Idle, IInv, TypeOK, ImagesHold, StreamSafe,
        CandidateSafe, PinSafe, PinIsMounted, CodeMatchesImage, Valid, Steps,
        MountSteps, WipeSteps, Slots, NoSlot

\* The second pass of a boot.
LEMMA BootUserPassInv ==
    ASSUME IInv, BootUserPass
    PROVE  IInv'
  <1>1. rt' \in Runtimes /\ rt'.table = rt.table
    <2>1. rt \in Runtimes
      BY DEF IInv, TypeOK
    <2>2. pin # NoSlot => flash[pin].program \in Programs
      BY DEF IInv, TypeOK, ImagesHold, PinSafe, PinIsMounted, CodeMatchesImage
    <2>3. CASE pin # NoSlot
      BY <2>1, <2>2, <2>3, RuntimeTypes DEF BootUserPass
    <2>4. CASE pin = NoSlot
      BY <2>1, <2>4 DEF BootUserPass
    <2> QED BY <2>3, <2>4
  <1> QED
    BY <1>1
    DEF BootUserPass, IInv, TypeOK, ImagesHold, StreamSafe, CandidateSafe,
        PinSafe, PinIsMounted, CodeMatchesImage, Valid, Steps, WipeSteps,
        Slots, NoSlot

\* A wipe unmounts before it erases.
LEMMA WipeInv ==
    ASSUME IInv, Wipe
    PROVE  IInv'
  <1>1. Command("wipe") \in Commands
    BY CommandType DEF Ops
  <1>2. rt' \in Runtimes /\ rt'.table = NoProgram
    BY DEF Wipe, IInv, TypeOK, ClearProject, Runtimes
  <1> QED
    BY <1>1, <1>2
    DEF Wipe, Idle, IInv, TypeOK, ImagesHold, StreamSafe, CandidateSafe,
        PinSafe, PinIsMounted, CodeMatchesImage, Valid, Steps, WipeSteps,
        Slots, NoSlot

LEMMA BaseRuntimeType ==
    BaseRuntime \in Runtimes /\ BaseRuntime.table = NoProgram
  BY DEF BaseRuntime, Runtimes, NoLib, NoUser, LibLayers, UserLayers

\* A step of the erase of both slots.
LEMMA WipeEraseInv ==
    ASSUME IInv, NEW s \in Slots, WipeErase(s)
    PROVE  IInv'
  <1>1. pc \in WipeSteps /\ mounted = NoSlot /\ s # mounted /\ pin = NoSlot
        /\ rt.table = NoProgram
    BY DEF WipeErase, WipeSteps, IInv, PinSafe, CodeMatchesImage, Slots, NoSlot
  <1>2. Empty.state # "valid" /\ Empty \in Images
    BY BareImages DEF Empty, Bare
  <1>3. NoCommand \in Commands
    BY DEF NoCommand, Commands, Ops, Saves
  <1>4. PICK image \in Images :
          /\ image.state = "valid" => image.program \in Programs
          /\ SetSlot(s, image)
    <2>1. CASE SetSlot(s, Empty)
      BY <1>2, <2>1
    <2>2. CASE WipeFails(s)
      <3>1. PICK image \in HalfErased(s) : SetSlot(s, image)
        BY <2>2 DEF WipeFails
      <3> QED BY <3>1, HalfErasedImages DEF IInv
    <2> QED BY <2>1, <2>2 DEF WipeErase
  <1>5. flash' \in [Slots -> Images] /\ ImagesHold'
    BY <1>1, <1>4, WriteKeepsFlash DEF IInv
  <1>6. /\ UNCHANGED <<mounted, candidate, pin, stream>>
        /\ rt' \in {rt, BaseRuntime} /\ cmd' \in {cmd, NoCommand}
        /\ pc' \in {"wipe1", "idle", "off"}
        /\ tier' \in {tier, "user", "library"}
        /\ reply' \in {reply, "ok", "err", "none"}
    BY DEF WipeErase, WipeFails, Return, ram
  <1>7. rt' \in Runtimes /\ rt'.table = NoProgram
    BY <1>1, <1>6, BaseRuntimeType DEF IInv, TypeOK
  <1>8. TypeOK'
    BY <1>3, <1>5, <1>6, <1>7 DEF IInv, TypeOK, Steps, WipeSteps
  <1> QED
    BY <1>1, <1>5, <1>6, <1>7, <1>8
    DEF IInv, StreamSafe, CandidateSafe, PinSafe, PinIsMounted,
        CodeMatchesImage, Slots, NoSlot

\* The power goes: the slot being written may be torn, RAM is lost.
LEMMA PowerLossInv ==
    ASSUME IInv, PowerLoss
    PROVE  IInv'
  <1>1. flash' \in [Slots -> Images] /\ ImagesHold'
    <2>1. CASE TornSlots = {}
      BY <2>1 DEF PowerLoss, IInv, TypeOK, ImagesHold, Valid
    <2>2. ASSUME NEW s \in TornSlots, NEW image \in TornImages(s),
                 SetSlot(s, image)
          PROVE  flash' \in [Slots -> Images] /\ ImagesHold'
      <3>1. s \in Slots /\ s # mounted
        BY DEF TornSlots, IInv, StreamSafe, PinSafe, WipeSteps, Slots, NoSlot
      <3>2. image \in Images /\ (image.state = "valid" => image.program \in Programs)
        <4>1. CASE pc = "header"
          BY <4>1, NewImageType DEF TornImages, IInv
        <4>2. CASE pc # "header"
          BY <3>1, <4>2, HalfErasedImages DEF TornImages, IInv
        <4> QED BY <4>1, <4>2
      <3> QED BY <2>2, <3>1, <3>2, WriteKeepsFlash DEF IInv
    <2> QED BY <2>1, <2>2 DEF PowerLoss
  <1>2. NoCommand \in Commands
    BY DEF NoCommand, Commands, Ops, Saves
  <1>3. NoStream \in [slot : Slots \cup {NoSlot}, gen : 0 .. MaxGen]
    BY MaxGenAssumption DEF NoStream
  <1> QED
    BY <1>1, <1>2, <1>3, BaseRuntimeType
    DEF PowerLoss, IInv, TypeOK, StreamSafe, CandidateSafe, PinSafe,
        PinIsMounted, CodeMatchesImage, WipeSteps, Slots, NoSlot

LEMMA NextInv ==
    ASSUME IInv, [Next]_vars
    PROVE  IInv'
  <1>1. CASE Prompt
    BY <1>1, EditInv, SaversInv, StartInv, WipeInv DEF Prompt
  <1>2. CASE Run
    BY <1>2, StreamBeginInv, StreamEraseInv, StreamWriteInv, StreamFinalizeInv,
       MountInv, ApplyInv, MountCommitInv, BootUserPassInv, WipeEraseInv
    DEF Run
  <1>3. CASE PowerOn \/ SafeBoot \/ PowerLoss
    BY <1>3, StartInv, PowerLossInv
  <1>4. CASE UNCHANGED vars
    BY <1>4
    DEF vars, IInv, TypeOK, ImagesHold, StreamSafe, CandidateSafe, PinSafe,
        PinIsMounted, CodeMatchesImage, CommitGen, NewestGen, BothValid, Valid
  <1> QED BY <1>1, <1>2, <1>3, <1>4 DEF Next

\* The inductive invariant holds of every behaviour.
THEOREM Inductive == Spec => []IInv
  <1> QED BY InitInv, NextInv, PTL DEF Spec

(***************************************************************************)
(* The results.                                                            *)
(***************************************************************************)

\* Every variable keeps its type: slots, images, runtimes and commands of
\* src/persist.c are never anything else.
THEOREM TypeCorrect == Spec => []TypeOK
  <1>1. IInv => TypeOK
    BY DEF IInv
  <1> QED BY <1>1, Inductive, PTL

\* The code the runtime runs is the code of the mounted image, and that
\* image is whole, after any failure of a save, a mount or the power.
THEOREM CodeIntact == Spec => []CodeMatchesImage
  <1>1. IInv => CodeMatchesImage
    BY DEF IInv
  <1> QED BY <1>1, Inductive, PTL

\* The payload pointer that boot keeps between its two passes never points
\* into a slot that a save could overwrite.
THEOREM PinNeverDangles == Spec => []PinIsMounted
  <1>1. IInv => PinIsMounted
    BY DEF IInv, PinSafe
  <1> QED BY <1>1, Inductive, PTL

\* A step writes at most one slot of the flash, and never the mounted one.
LEMMA MountedStep ==
    ASSUME IInv, [Next]_vars, mounted \in Slots
    PROVE  flash'[mounted] = flash[mounted]
  <1>1. \A s \in Slots : s # mounted =>
          \A image : SetSlot(s, image) => flash'[mounted] = flash[mounted]
    BY DEF SetSlot, IInv, TypeOK
  <1>2. CASE StreamErase
    BY <1>1, <1>2 DEF StreamErase, IInv, StreamSafe
  <1>3. CASE StreamFinalize
    BY <1>1, <1>3 DEF StreamFinalize, IInv, StreamSafe
  <1>4. CASE PowerLoss
    <2>1. \A s \in TornSlots : s \in Slots /\ s # mounted
      BY DEF TornSlots, IInv, StreamSafe, PinSafe, WipeSteps, Slots, NoSlot
    <2> QED BY <1>1, <1>4, <2>1 DEF PowerLoss
  <1>5. ASSUME NEW s \in Slots, WipeErase(s)
        PROVE  FALSE
    BY <1>5 DEF WipeErase, WipeSteps, IInv, PinSafe, Slots, NoSlot
  <1>6. ASSUME NEW op, NEW r, StartCommit(op, r) \/ Refuse \/ Edit(r)
        PROVE  flash' = flash
    BY <1>6 DEF StartCommit, Refuse, Edit
  <1>7. CASE Prompt
    BY <1>6, <1>7
    DEF Prompt, DefineUserWord, DefineLibraryWord, Clear, InstallUser, Save,
        WipeUser, InstallLibrary, Restore, Wipe
  <1>8. CASE StreamBegin \/ StreamWrite \/ Mount \/ Apply \/ MountCommit
             \/ BootUserPass \/ PowerOn \/ SafeBoot \/ UNCHANGED vars
    BY <1>8
    DEF StreamBegin, StreamWrite, Mount, Apply, MountCommit, BootUserPass,
        PowerOn, SafeBoot, vars
  <1> QED BY <1>2, <1>3, <1>4, <1>5, <1>7, <1>8 DEF Next, Run

\* No step of a save, a mount or a wipe, and no loss of power, changes the
\* slot that the runtime's code is mapped from.
THEOREM MountedIsSafe == Spec => MountedNeverWritten
  <1>1. IInv /\ [Next]_vars
        => [(mounted \in Slots) => flash'[mounted] = flash[mounted]]_vars
    BY MountedStep
  <1> QED BY <1>1, Inductive, PTL DEF Spec, MountedNeverWritten

-----------------------------------------------------------------------------
(* The answers of the commands *)

\* The runtime has what a payload binds.
LibBound(p, r) == \A w \in LibWords : p.lib[w] # None => r.lib[w] = p.lib[w]
UserBound(p, r) == \A w \in UserWords : p.user[w] # None => r.user[w] = p.user[w]

\* No word differs from what a project clear would give it.
Clean(r) == r.user = r.userBase /\ r.lib = r.libBase

\* The command that a step belongs to.
OpFits ==
    /\ pc \in StreamSteps => cmd.op \in Saves /\ cmd.index = 0
    /\ pc \in MountSteps => cmd.op \in Saves \cup {"boot", "restore"}
    /\ pc \in WipeSteps => cmd.op = "wipe"
    /\ pc = "user_pass" => cmd.op = "boot"

\* Between the two passes the library is that of the pinned image.
BootSafe ==
    /\ pc = "mount_commit" /\ cmd.op = "boot"
        => LibBound(flash[candidate].program, rt)
    /\ pc = "user_pass" /\ pin \in Slots => LibBound(flash[pin].program, rt)
    /\ BootIsOneImage

\* A save that has tried an image has nothing unsaved any more.
EditsSafe ==
    /\ pc = "mount" /\ cmd.op \in Saves /\ cmd.index > 0 => Clean(rt)
    /\ pc = "mount_commit" /\ cmd.op \in Saves => Clean(rt)
    /\ FailedSaveDropsEdits

TInv == OpFits /\ BootSafe /\ EditsSafe

(***************************************************************************)
(* What binding and clearing give.                                         *)
(***************************************************************************)

\* A bind record wins over the base value.
LEMMA BindMeets ==
    ASSUME NEW words, NEW layer \in [words -> Defs \cup {None}],
           NEW base \in [words -> Defs \cup {None}]
    PROVE  \A w \in words : layer[w] # None => Bind(layer, base)[w] = layer[w]
  BY DEF Bind

\* Binding a tier gives its words and leaves nothing unsaved in it.
LEMMA BindGives ==
    ASSUME NEW r \in Runtimes, NEW p \in Programs
    PROVE  /\ LibBound(p, BindLib(r, p))
           /\ BindLib(r, p).lib = BindLib(r, p).libBase
           /\ BindLib(r, p).user = r.user
           /\ BindLib(r, p).userBase = r.userBase
           /\ UserBound(p, BindUser(r, p))
           /\ BindUser(r, p).user = BindUser(r, p).userBase
           /\ BindUser(r, p).lib = r.lib /\ BindUser(r, p).libBase = r.libBase
  <1>1. /\ p.lib \in [LibWords -> Defs \cup {None}]
        /\ p.user \in [UserWords -> Defs \cup {None}]
        /\ r.libBase \in [LibWords -> Defs \cup {None}]
        /\ r.userBase \in [UserWords -> Defs \cup {None}]
    BY DEF Programs, Runtimes, LibLayers, UserLayers
  <1>2. /\ BindLib(r, p).lib = Bind(p.lib, r.libBase)
        /\ BindLib(r, p).libBase = Bind(p.lib, r.libBase)
        /\ BindLib(r, p).user = r.user
        /\ BindLib(r, p).userBase = r.userBase
    BY DEF BindLib, Runtimes
  <1>3. /\ BindUser(r, p).user = Bind(p.user, r.userBase)
        /\ BindUser(r, p).userBase = Bind(p.user, r.userBase)
        /\ BindUser(r, p).lib = r.lib
        /\ BindUser(r, p).libBase = r.libBase
    BY DEF BindUser, Runtimes
  <1>4. LibBound(p, BindLib(r, p))
    BY <1>1, <1>2, BindMeets DEF LibBound
  <1>5. UserBound(p, BindUser(r, p))
    BY <1>1, <1>3, BindMeets DEF UserBound
  <1> QED BY <1>2, <1>3, <1>4, <1>5

LEMMA ClearedIsClean ==
    ASSUME NEW r \in Runtimes
    PROVE  Clean(ClearProject(r)) /\ Clean(CleanupFailedApply(r))
  BY DEF Runtimes, Clean, ClearProject, CleanupFailedApply

\* A payload that was applied is in the runtime; any applier but the
\* user-only restore leaves nothing else there.
LEMMA AppliedGives ==
    ASSUME NEW r \in Runtimes, NEW op, NEW p \in Programs, op # "restore"
    PROVE  /\ LibBound(p, Applied(r, op, p))
           /\ op # "boot" => UserBound(p, Applied(r, op, p))
           /\ op # "boot" => Clean(Applied(r, op, p))
  <1> DEFINE start == ApplyBase(r, op, p)
             withLib == BindLib(start, p)
  <1>1. /\ start \in Runtimes /\ start.user = start.userBase
        /\ Applied(r, op, p) = IF op = "boot" THEN withLib
                               ELSE BindUser(withLib, p)
    <2>1. /\ ClearProject(r) \in Runtimes /\ Clean(ClearProject(r))
      BY RuntimeTypes, ClearedIsClean
    <2>2. start = [ClearProject(r) EXCEPT !.table = p]
      BY DEF ApplyBase
    <2>3. start \in Runtimes /\ start.user = start.userBase
      BY <2>1, <2>2 DEF Runtimes, Clean
    <2> QED BY <2>3 DEF Applied
  <1> HIDE DEF start
  <1>2. /\ withLib \in Runtimes /\ LibBound(p, withLib)
        /\ withLib.lib = withLib.libBase /\ withLib.user = withLib.userBase
    BY <1>1, RuntimeTypes, BindGives
  <1> HIDE DEF withLib
  <1>3. /\ UserBound(p, BindUser(withLib, p))
        /\ BindUser(withLib, p).user = BindUser(withLib, p).userBase
        /\ BindUser(withLib, p).lib = withLib.lib
        /\ BindUser(withLib, p).libBase = withLib.libBase
    BY <1>2, BindGives
  <1>4. CASE op = "boot"
    BY <1>1, <1>2, <1>4
  <1>5. CASE op # "boot"
    BY <1>1, <1>2, <1>3, <1>5 DEF LibBound, Clean
  <1> QED BY <1>4, <1>5

\* The fields of a command as its steps change them.
LEMMA CommandFields ==
    ASSUME NEW c \in Commands
    PROVE  /\ [c EXCEPT !.failed = TRUE].op = c.op
           /\ [c EXCEPT !.failed = TRUE].failed = TRUE
           /\ \A p : /\ [c EXCEPT !.want = p].op = c.op
                     /\ [c EXCEPT !.want = p].index = c.index
                     /\ [c EXCEPT !.want = p].latest = c.latest
                     /\ [c EXCEPT !.want = p].failed = c.failed
           /\ [c EXCEPT !.index = @ + 1].op = c.op
           /\ [c EXCEPT !.index = @ + 1].failed = c.failed
           /\ [c EXCEPT !.latest = FALSE, !.index = 0, !.failed = TRUE].op = c.op
           /\ [c EXCEPT !.latest = FALSE, !.index = 0, !.failed = TRUE].index = 0
           /\ [c EXCEPT !.latest = FALSE, !.index = 0, !.failed = TRUE].failed = TRUE
  BY DEF Commands

(***************************************************************************)
(* The tiers: one lemma for each kind of step.                             *)
(***************************************************************************)

\* A step to somewhere else than the end of a boot or of a failed save.
LEMMA ElsewhereTiers ==
    ASSUME OpFits', pc' \notin {"mount_commit", "user_pass"},
           pc' = "mount" => cmd'.index = 0 \/ cmd'.op \notin Saves,
           pc' = "idle" => cmd'.op # "boot" /\ cmd'.op \notin AtOnce
    PROVE  TInv'
  BY DEF TInv, BootSafe, EditsSafe, BootIsOneImage, FailedSaveDropsEdits

\* The mount loop returns: a boot has the library of what it pinned, a save
\* has nothing unsaved.
LEMMA LoopTiers ==
    ASSUME IInv, TInv, pc \in MountSteps, NEW ok, LoopReturns(ok),
           cmd.op \in Saves => Clean(rt'),
           cmd.op = "boot" /\ pin' \in Slots
             => LibBound(flash'[pin'].program, rt')
    PROVE  TInv'
  <1>1. cmd \in Commands /\ cmd.op \in Saves \cup {"boot", "restore"}
    BY DEF IInv, TypeOK, TInv, OpFits
  <1>2. CASE cmd.op = "boot"
    <2>1. pc' = "user_pass" /\ cmd' = cmd
      BY <1>2 DEF LoopReturns
    <2> QED
      BY <1>2, <2>1
      DEF TInv, OpFits, BootSafe, EditsSafe, BootIsOneImage,
          FailedSaveDropsEdits, StreamSteps, MountSteps, WipeSteps
  <1>3. CASE cmd.op # "boot"
    <2>1. cmd'.op = cmd.op /\ pc' \in {"mount", "idle"}
          /\ (pc' = "mount" => cmd'.index = 0)
      BY <1>1, <1>3, CommandFields DEF LoopReturns, Return
    <2>2. AtOnce \subseteq Saves
      BY DEF Saves
    <2> QED
      BY <1>1, <1>3, <2>1, <2>2
      DEF TInv, OpFits, BootSafe, EditsSafe, BootIsOneImage,
          FailedSaveDropsEdits, StreamSteps, MountSteps, WipeSteps, Clean
  <1> QED BY <1>2, <1>3

LEMMA InitTiers == Init => TInv
  BY DEF Init, TInv, OpFits, BootSafe, EditsSafe, BootIsOneImage,
         FailedSaveDropsEdits, StreamSteps, MountSteps, WipeSteps

\* The prompt: a new command forgets the last one's answer.
LEMMA PromptTiers ==
    ASSUME IInv, TInv, Prompt \/ PowerOn \/ SafeBoot \/ PowerLoss
    PROVE  TInv'
  <1>1. NoCommand.op = "none"
    BY DEF NoCommand
  <1>2. /\ cmd' = NoCommand /\ pc' \in {"idle", "off"} => TInv'
        /\ \A op \in Ops : cmd' = Command(op) /\
             \/ pc' = "begin" /\ op \in Saves
             \/ pc' = "mount" /\ op \in {"boot", "restore"}
             \/ pc' = "wipe0" /\ op = "wipe"
             \/ pc' = "idle" /\ op \in {"restore", "safe_boot"}
             => TInv'
    <2>1. ASSUME cmd' = NoCommand, pc' \in {"idle", "off"} PROVE TInv'
      BY <1>1, <2>1, ElsewhereTiers
      DEF OpFits, StreamSteps, MountSteps, WipeSteps, AtOnce
    <2>2. ASSUME NEW op \in Ops, cmd' = Command(op),
                 \/ pc' = "begin" /\ op \in Saves
                 \/ pc' = "mount" /\ op \in {"boot", "restore"}
                 \/ pc' = "wipe0" /\ op = "wipe"
                 \/ pc' = "idle" /\ op \in {"restore", "safe_boot"}
          PROVE  TInv'
      <3>1. cmd'.op = op /\ cmd'.index = 0
        BY <2>2, CommandType
      <3> QED
        BY <2>2, <3>1, ElsewhereTiers
        DEF OpFits, StreamSteps, MountSteps, WipeSteps, AtOnce
    <2> QED BY <2>1, <2>2
  <1>3. ASSUME NEW op \in Saves, NEW r, StartCommit(op, r) PROVE TInv'
    BY <1>2, <1>3 DEF StartCommit, Ops
  <1>4. ASSUME NEW r, Idle, Edit(r) \/ Refuse PROVE TInv'
    BY <1>2, <1>4 DEF Edit, Refuse, Idle
  <1>5. {"save", "wipe_user", "install_library", "library_def"} \subseteq Saves
        /\ {"restore", "boot", "safe_boot", "wipe"} \subseteq Ops
    BY DEF Saves, AtOnce, Ops
  <1>6. CASE Prompt
    <2>1. CASE \E w \in UserWords, d \in Defs : DefineUserWord(w, d)
      BY <1>4, <2>1 DEF DefineUserWord
    <2>2. CASE \E w \in LibWords, d \in Defs : DefineLibraryWord(w, d)
      BY <1>3, <1>4, <1>5, <2>2 DEF DefineLibraryWord
    <2>3. CASE Clear
      BY <1>4, <2>3 DEF Clear
    <2>4. CASE InstallUser
      BY <1>2, <2>4 DEF InstallUser, Idle
    <2>5. CASE Save \/ WipeUser \/ InstallLibrary
      BY <1>3, <1>4, <1>5, <2>5 DEF Save, WipeUser, InstallLibrary
    <2>6. CASE Restore \/ Wipe
      BY <1>2, <1>5, <2>6 DEF Restore, Wipe
    <2> QED BY <1>6, <2>1, <2>2, <2>3, <2>4, <2>5, <2>6 DEF Prompt
  <1>7. CASE PowerOn \/ SafeBoot \/ PowerLoss
    BY <1>2, <1>5, <1>7 DEF PowerOn, SafeBoot, PowerLoss
  <1> QED BY <1>6, <1>7

\* A failed commit ends the command with a cleared project, or goes to mount.
LEMMA CommitFailedTiers ==
    ASSUME IInv, TInv, pc \in StreamSteps, CommitFailed
    PROVE  TInv'
  <1>1. cmd \in Commands /\ rt \in Runtimes /\ cmd.op \in Saves
    BY DEF IInv, TypeOK, TInv, OpFits
  <1>2. cmd.op # "boot" /\ "save" \notin AtOnce
    BY <1>1 DEF Saves, AtOnce
  <1>3. CASE /\ cmd.op = "save"
             /\ Return("err") /\ UNCHANGED rt
    BY <1>2, <1>3, ElsewhereTiers
    DEF Return, OpFits, StreamSteps, MountSteps, WipeSteps
  <1>4. CASE Return("err") /\ rt' = ClearProject(rt)
    <2>1. Clean(rt')
      BY <1>1, <1>4, ClearedIsClean
    <2> QED
      BY <1>2, <1>4, <2>1
      DEF Return, TInv, OpFits, BootSafe, EditsSafe, BootIsOneImage,
          FailedSaveDropsEdits, StreamSteps, MountSteps, WipeSteps, Clean
  <1>5. CASE pc' = "mount" /\ cmd' = [cmd EXCEPT !.failed = TRUE]
    <2>1. cmd'.op = cmd.op /\ cmd'.index = cmd.index
      BY <1>1, <1>5 DEF Commands
    <2>2. cmd.index = 0
      BY DEF TInv, OpFits
    <2> QED
      BY <1>1, <1>5, <2>1, <2>2, ElsewhereTiers
      DEF OpFits, StreamSteps, MountSteps, WipeSteps
  <1> QED BY <1>3, <1>4, <1>5 DEF CommitFailed

\* The steps of a save.
LEMMA StreamTiers ==
    ASSUME IInv, TInv, StreamBegin \/ StreamErase \/ StreamWrite \/ StreamFinalize
    PROVE  TInv'
  <1>1. /\ pc \in StreamSteps /\ cmd \in Commands
        /\ cmd.op \in Saves /\ cmd.index = 0
    BY DEF StreamBegin, StreamErase, StreamWrite, StreamFinalize, StreamSteps,
           IInv, TypeOK, TInv, OpFits
  <1>2. CASE CommitFailed
    BY <1>1, <1>2, CommitFailedTiers
  <1>3. ASSUME cmd'.op = cmd.op, cmd'.index = cmd.index,
               pc' \in StreamSteps \cup {"mount"}
        PROVE  TInv'
    BY <1>1, <1>3, ElsewhereTiers
    DEF OpFits, StreamSteps, MountSteps, WipeSteps
  <1>4. ASSUME NEW p, cmd' = [cmd EXCEPT !.want = p], pc' = "header"
        PROVE  TInv'
    BY <1>1, <1>3, <1>4, CommandFields DEF StreamSteps
  <1> QED
    BY <1>2, <1>3, <1>4
    DEF StreamBegin, StreamErase, StreamWrite, StreamFinalize, StreamSteps, ram

\* A candidate is looked for: whoever gives up has cleared the project, now
\* or after the last candidate.
LEMMA MountTiers ==
    ASSUME IInv, TInv, Mount
    PROVE  TInv'
  <1>1. /\ pc = "mount" /\ pc \in MountSteps /\ pin = NoSlot
        /\ rt \in Runtimes /\ cmd \in Commands
        /\ cmd.op \in Saves \cup {"boot", "restore"}
        /\ cmd.op \in Saves /\ cmd.index > 0 => Clean(rt)
        /\ NoSlot \notin Slots /\ "restore" \notin Saves
    BY DEF Mount, MountSteps, IInv, TypeOK, PinSafe, TInv, OpFits, EditsSafe,
           Slots, NoSlot, Saves, AtOnce
  <1>2. CASE Missed
    <2>1. cmd.op \in Saves => Clean(rt')
      BY <1>1, <1>2, ClearedIsClean DEF Missed, ResetOnMiss
    <2> QED BY <1>1, <1>2, <2>1, LoopTiers DEF Missed
  <1>3. CASE /\ cmd.index # 0 /\ LoopReturns(FALSE)
             /\ UNCHANGED <<mounted, pin, stream, rt>>
    <2>1. cmd.index > 0
      BY <1>1, <1>3 DEF Commands
    <2> QED BY <1>1, <1>3, <2>1, LoopTiers DEF Clean
  <1>4. CASE pc' = "apply" /\ cmd' = cmd
    BY <1>1, <1>4, ElsewhereTiers
    DEF OpFits, StreamSteps, MountSteps, WipeSteps
  <1> QED BY <1>2, <1>3, <1>4 DEF Mount

\* A payload is applied, or its failure cleaned up.
LEMMA ApplyTiers ==
    ASSUME IInv, TInv, Apply
    PROVE  TInv'
  <1> DEFINE image == flash[candidate]
  <1>1. /\ pc = "apply" /\ pc \in MountSteps /\ pin = NoSlot
        /\ rt \in Runtimes /\ cmd \in Commands
        /\ image \in Images /\ image.program \in Programs
        /\ cmd.op \in Saves \cup {"boot", "restore"}
        /\ NoSlot \notin Slots /\ "restore" \notin Saves /\ "boot" \notin Saves
        /\ UNCHANGED <<flash, mounted, pin, stream>>
    BY DEF Apply, MountSteps, IInv, TypeOK, ImagesHold, CandidateSafe, PinSafe,
           TInv, OpFits, Slots, NoSlot, Saves, AtOnce
  <1>2. CASE /\ rt' = Applied(rt, cmd.op, image.program)
             /\ pc' = "mount_commit"
             /\ UNCHANGED <<candidate, tier, cmd, reply>>
    <2>1. cmd.op # "restore" => LibBound(image.program, rt')
      BY <1>1, <1>2, AppliedGives
    <2>2. cmd.op \in Saves => Clean(rt')
      BY <1>1, <1>2, AppliedGives
    <2> QED
      BY <1>1, <1>2, <2>1, <2>2
      DEF TInv, OpFits, BootSafe, EditsSafe, BootIsOneImage,
          FailedSaveDropsEdits, StreamSteps, MountSteps, WipeSteps
  <1>3. ASSUME NEW r \in FailedApplies(rt, cmd.op, image), ApplyFailed(r)
        PROVE  TInv'
    <2>1. Clean(rt')
      <3>1. r \in Runtimes
        BY <1>1, FailedApplyType
      <3> QED BY <1>3, <3>1, ClearedIsClean DEF ApplyFailed
    <2>2. CASE LoopReturns(FALSE)
      BY <1>1, <2>1, <2>2, LoopTiers
    <2>3. CASE pc' = "mount" /\ cmd' = [cmd EXCEPT !.index = @ + 1]
      <3>1. cmd'.op = cmd.op
        BY <1>1, <2>3, CommandFields
      <3> QED
        BY <1>1, <2>1, <2>3, <3>1
        DEF TInv, OpFits, BootSafe, EditsSafe, BootIsOneImage,
            FailedSaveDropsEdits, StreamSteps, MountSteps, WipeSteps
    <2> QED BY <1>3, <2>2, <2>3 DEF ApplyFailed
  <1> QED BY <1>2, <1>3 DEF Apply

\* The candidate becomes the mounted slot, pinned by a boot, or is given up.
LEMMA MountCommitTiers ==
    ASSUME IInv, TInv, MountCommit
    PROVE  TInv'
  <1>1. /\ pc = "mount_commit" /\ pc \in MountSteps /\ pin = NoSlot
        /\ rt \in Runtimes /\ NoSlot \notin Slots /\ flash' = flash
        /\ cmd.op \in Saves => Clean(rt)
        /\ cmd.op = "boot" => LibBound(flash[candidate].program, rt)
    BY DEF MountCommit, MountSteps, IInv, TypeOK, PinSafe, TInv, BootSafe,
           EditsSafe, Slots, NoSlot
  <1>2. CASE /\ pin' = IF cmd.op = "boot" THEN candidate ELSE pin
             /\ LoopReturns(TRUE)
             /\ UNCHANGED rt
    BY <1>1, <1>2, LoopTiers DEF Clean, LibBound
  <1>3. CASE /\ rt' = CleanupFailedApply(rt)
             /\ LoopReturns(FALSE)
             /\ UNCHANGED <<mounted, pin>>
    <2>1. Clean(rt')
      BY <1>1, <1>3, ClearedIsClean
    <2> QED BY <1>1, <1>3, <2>1, LoopTiers
  <1> QED BY <1>2, <1>3 DEF MountCommit

\* The second pass binds the user tier of the payload whose library is there.
LEMMA UserPassTiers ==
    ASSUME IInv, TInv, BootUserPass
    PROVE  TInv'
  <1>1. /\ pc = "user_pass" /\ pc' = "idle" /\ rt \in Runtimes
        /\ UNCHANGED <<flash, mounted, candidate, stream, tier, cmd>>
        /\ cmd.op = "boot" /\ cmd.op \notin AtOnce /\ NoSlot \notin Slots
        /\ pin \in Slots \cup {NoSlot}
    BY DEF BootUserPass, IInv, TypeOK, TInv, OpFits, AtOnce, Slots, NoSlot
  <1>2. OpFits' /\ EditsSafe'
    BY <1>1
    DEF OpFits, EditsSafe, FailedSaveDropsEdits, StreamSteps, MountSteps,
        WipeSteps
  <1>3. ASSUME mounted \in Slots, pin' = NoSlot, reply' = "ok"
        PROVE  LET p == flash[mounted].program
               IN  LibBound(p, rt') /\ UserBound(p, rt')
    <2>1. /\ pin \in Slots /\ pin = mounted
          /\ rt' = BindUser(rt, flash[pin].program)
      BY <1>1, <1>3 DEF BootUserPass, IInv, PinSafe, PinIsMounted
    <2>2. flash[pin].program \in Programs /\ LibBound(flash[pin].program, rt)
      BY <1>1, <2>1
      DEF IInv, ImagesHold, CodeMatchesImage, TInv, BootSafe
    <2>3. /\ UserBound(flash[pin].program, BindUser(rt, flash[pin].program))
          /\ BindUser(rt, flash[pin].program).lib = rt.lib
      BY <1>1, <2>2, BindGives
    <2> QED BY <2>1, <2>2, <2>3 DEF LibBound
  <1>4. BootSafe'
    BY <1>1, <1>3 DEF BootSafe, BootIsOneImage, LibBound, UserBound
  <1> QED BY <1>2, <1>4 DEF TInv

LEMMA WipeTiers ==
    ASSUME IInv, TInv, NEW s \in Slots, WipeErase(s)
    PROVE  TInv'
  <1>1. pc \in WipeSteps /\ cmd.op = "wipe"
    BY DEF WipeErase, WipeSteps, TInv, OpFits
  <1>2. cmd'.op \in {"wipe", "none"} /\ pc' \in {"wipe1", "idle", "off"}
        /\ (pc' = "wipe1" => cmd'.op = "wipe")
    BY <1>1 DEF WipeErase, WipeFails, Return, ram, NoCommand
  <1> QED
    BY <1>2, ElsewhereTiers
    DEF OpFits, StreamSteps, MountSteps, WipeSteps, AtOnce

LEMMA NextTiers ==
    ASSUME IInv, TInv, [Next]_vars
    PROVE  TInv'
  <1>1. CASE Run
    BY <1>1, StreamTiers, MountTiers, ApplyTiers, MountCommitTiers,
       UserPassTiers, WipeTiers DEF Run
  <1>2. CASE Prompt \/ PowerOn \/ SafeBoot \/ PowerLoss
    BY <1>2, PromptTiers
  <1>3. CASE UNCHANGED vars
    BY <1>3
    DEF vars, TInv, OpFits, BootSafe, EditsSafe, BootIsOneImage,
        FailedSaveDropsEdits, LibBound, Clean
  <1> QED BY <1>1, <1>2, <1>3 DEF Next

\* Which image each tier came from, and what a command has undone, is an
\* invariant on top of the one of FrothyPersistProof.
THEOREM TiersInductive == Spec => []TInv
  <1> QED BY InitTiers, NextTiers, Inductive, PTL DEF Spec

\* A boot that got through both its passes (fr_persist_restore_lib, then
\* fr_persist_restore_user) has both tiers of the image it mounted, and not
\* the library of one and the program of the other.
THEOREM BootsAreOneImage == Spec => []BootIsOneImage
  <1>1. TInv => BootIsOneImage
    BY DEF TInv, BootSafe
  <1> QED BY <1>1, TiersInductive, PTL

\* wipe-user, install-library and a library definition that answer an error
\* leave the words as an image or the firmware has them.
THEOREM FailuresDropEdits == Spec => []FailedSaveDropsEdits
  <1>1. TInv => FailedSaveDropsEdits
    BY DEF TInv, EditsSafe
  <1> QED BY <1>1, TiersInductive, PTL

(***************************************************************************)
(* Saves, on flash that a scan sees as it is: one whose writes do not go   *)
(* wrong unnoticed, or that is read back.                                  *)
(***************************************************************************)

\* What a save that answers ok promises.
Running ==
    /\ mounted \in Slots /\ mounted = NewestSlot(flash)
    /\ flash[mounted].program = cmd.want
    /\ rt.table = cmd.want
    /\ LibBound(cmd.want, rt) /\ UserBound(cmd.want, rt)

Distinct == BothValid(flash) => flash[0].gen # flash[1].gen

\* The image of a save is the newest, and goes to a slot without an image, to
\* the older one, or to the one that is not mounted.
StreamNewest ==
    /\ pc \in {"erase", "write", "header"}
        => \A s \in Slots : Valid(flash, s) => flash[s].gen < stream.gen
    /\ pc = "erase" /\ Valid(flash, stream.slot)
        => /\ BothValid(flash)
           /\ stream.slot # NewestSlot(flash) \/ mounted = 1 - stream.slot
    /\ pc \in {"write", "header"} => ~Valid(flash, stream.slot)

\* The mount that ends a save tries the image that was just written and no
\* other one, unless the command has failed already.
SaveMounts ==
    /\ pc \in StreamSteps => cmd.latest = TRUE /\ cmd.failed = FALSE
    /\ pc \in MountSteps /\ cmd.op \in Saves /\ cmd.failed = FALSE
        => /\ cmd.latest = TRUE /\ cmd.index = 0
           /\ Valid(flash, NewestSlot(flash))
           /\ flash[NewestSlot(flash)].program = cmd.want
           /\ pc # "mount" => candidate = NewestSlot(flash)
           /\ pc = "mount_commit"
               => LibBound(cmd.want, rt) /\ UserBound(cmd.want, rt)
    /\ SaveAnswersOk

KInv == Distinct /\ StreamNewest /\ SaveMounts

LEMMA SeenSound ==
    ASSUME BadFlash => Verify, NEW f
    PROVE  Seen(f) = {f}
  BY DEF Seen

\* The newest slot holds a good image when any does, and it is the slot whose
\* generation is above the other's.
LEMMA NewestIs ==
    ASSUME NEW f \in [Slots -> Images]
    PROVE  /\ NewestSlot(f) \in Slots
           /\ \A s \in Slots : Valid(f, s) => Valid(f, NewestSlot(f))
           /\ \A s \in Slots :
                Valid(f, s) /\ (Valid(f, 1 - s) => f[1 - s].gen < f[s].gen)
                => NewestSlot(f) = s
  <1>1. 0 \in Slots /\ 1 \in Slots /\ \A s \in Slots : s = 0 \/ s = 1
    BY DEF Slots
  <1>2. f[0].gen \in Int /\ f[1].gen \in Int
    BY <1>1, MaxGenAssumption DEF Images
  <1> QED BY <1>1, <1>2 DEF NewestSlot, Valid

\* A slot that no longer has a good image.
LEMMA ErasedDistinct ==
    ASSUME TypeOK, Distinct, NEW s \in Slots, NEW image, SetSlot(s, image),
           image.state # "valid" \/ image = flash[s]
    PROVE  /\ Distinct'
           /\ \A t \in Slots : Valid(flash, t)' => Valid(flash, t) /\ flash'[t] = flash[t]
  <1>1. /\ flash'[s] = image
        /\ \A t \in Slots : t # s => flash'[t] = flash[t]
    BY DEF SetSlot, TypeOK
  <1>2. \A t \in Slots : Valid(flash, t)' => Valid(flash, t) /\ flash'[t] = flash[t]
    BY <1>1 DEF Valid
  <1>3. 0 \in Slots /\ 1 \in Slots
    BY DEF Slots
  <1> QED BY <1>2, <1>3 DEF Distinct, BothValid

LEMMA HalfErasedIs ==
    ASSUME NEW s, NEW image \in HalfErased(s)
    PROVE  image.state # "valid" \/ image = flash[s]
  BY DEF HalfErased, Empty, Corrupt, Bare

\* A step to somewhere that promises nothing of a save.
LEMMA ElsewhereSaves ==
    ASSUME Distinct', pc' \notin {"erase", "write", "header"},
           pc' = "begin" => cmd'.latest = TRUE /\ cmd'.failed = FALSE,
           pc' \in MountSteps => cmd'.op \notin Saves \/ cmd'.failed = TRUE,
           pc' = "idle" => cmd'.op \notin Saves \/ reply' = "err"
    PROVE  KInv'
  BY DEF KInv, StreamNewest, SaveMounts, SaveAnswersOk, StreamSteps

LEMMA InitSaves == Init => KInv
  <1> SUFFICES ASSUME Init PROVE KInv
    OBVIOUS
  <1>1. ~Valid(flash, 1)
    BY DEF Init, Valid, Empty, OtherRelease, Bare, Slots
  <1> QED
    BY <1>1
    DEF Init, KInv, Distinct, BothValid, StreamNewest, SaveMounts,
        SaveAnswersOk, StreamSteps, MountSteps

\* A new command starts from nothing.
LEMMA PromptSaves ==
    ASSUME IInv, KInv, Prompt \/ PowerOn \/ SafeBoot
    PROVE  KInv'
  <1>1. NoCommand.op \notin Saves
    BY DEF NoCommand, Saves, AtOnce
  <1>2. ASSUME flash' = flash, cmd' = NoCommand, pc' \in {"idle", "off"}
        PROVE  KInv'
    <2>1. Distinct'
      BY <1>2 DEF KInv, Distinct, BothValid, Valid
    <2> QED BY <1>1, <1>2, <2>1, ElsewhereSaves DEF MountSteps
  <1>3. ASSUME NEW op, flash' = flash, cmd' = Command(op),
               \/ pc' = "begin" /\ op \in Saves
               \/ pc' \in {"mount", "wipe0", "idle"} /\ op \notin Saves
        PROVE  KInv'
    <2>1. Distinct'
      BY <1>3 DEF KInv, Distinct, BothValid, Valid
    <2>2. cmd'.op = op /\ cmd'.latest = (op \in Saves) /\ cmd'.failed = FALSE
      BY <1>3 DEF Command
    <2> QED BY <1>3, <2>1, <2>2, ElsewhereSaves DEF MountSteps
  <1>4. ASSUME NEW op \in Saves, NEW r, StartCommit(op, r) PROVE KInv'
    BY <1>3, <1>4 DEF StartCommit
  <1>5. ASSUME NEW r, Idle, Edit(r) \/ Refuse PROVE KInv'
    BY <1>2, <1>5 DEF Edit, Refuse, Idle
  <1>6. {"save", "wipe_user", "install_library", "library_def"} \subseteq Saves
        /\ \A op \in {"restore", "boot", "safe_boot", "wipe"} : op \notin Saves
    BY DEF Saves, AtOnce
  <1>7. CASE \E w \in UserWords, d \in Defs : DefineUserWord(w, d)
    BY <1>5, <1>7 DEF DefineUserWord
  <1>8. CASE \E w \in LibWords, d \in Defs : DefineLibraryWord(w, d)
    BY <1>4, <1>5, <1>6, <1>8 DEF DefineLibraryWord
  <1>9. CASE Clear \/ InstallUser
    BY <1>2, <1>5, <1>9 DEF Clear, InstallUser, Idle
  <1>10. CASE Save \/ WipeUser \/ InstallLibrary
    BY <1>4, <1>5, <1>6, <1>10 DEF Save, WipeUser, InstallLibrary
  <1>11. CASE Restore \/ Wipe \/ PowerOn \/ SafeBoot
    BY <1>3, <1>6, <1>11 DEF Restore, Wipe, PowerOn, SafeBoot
  <1> QED BY <1>7, <1>8, <1>9, <1>10, <1>11 DEF Prompt

\* A failed commit answers an error, now or after the mount that follows.
LEMMA CommitFailedSaves ==
    ASSUME IInv, pc \in StreamSteps, CommitFailed, Distinct'
    PROVE  KInv'
  <1>1. cmd \in Commands
    BY DEF IInv, TypeOK
  <1>2. CASE Return("err")
    BY <1>2, ElsewhereSaves DEF Return, MountSteps
  <1>3. CASE pc' = "mount" /\ cmd' = [cmd EXCEPT !.failed = TRUE]
    BY <1>1, <1>3, CommandFields, ElsewhereSaves
  <1> QED BY <1>2, <1>3 DEF CommitFailed

\* The mount loop returns: only a save that has not failed may answer ok.
LEMMA LoopSaves ==
    ASSUME IInv, TInv, KInv, pc \in MountSteps, NEW ok \in BOOLEAN,
           LoopReturns(ok), flash' = flash,
           ok /\ cmd.op \in Saves /\ cmd.failed = FALSE /\ cmd' = cmd => Running'
    PROVE  KInv'
  <1>1. /\ cmd \in Commands /\ cmd.op \in Saves \cup {"boot", "restore"}
        /\ cmd.failed \in BOOLEAN /\ cmd.latest \in BOOLEAN
        /\ cmd.op \in Saves /\ cmd.failed = FALSE => cmd.latest = TRUE
    BY DEF IInv, TypeOK, Commands, TInv, OpFits, KInv, SaveMounts
  <1>2. Distinct'
    BY DEF KInv, Distinct, BothValid, Valid
  <1>3. CASE cmd.op = "boot"
    BY <1>2, <1>3, ElsewhereSaves DEF LoopReturns, MountSteps
  <1>4. CASE cmd.op \in Saves /\ cmd.op # "boot" /\ cmd.latest /\ ~ok
    <2>1. pc' = "mount" /\ cmd'.failed = TRUE
      BY <1>1, <1>4, CommandFields DEF LoopReturns
    <2> QED BY <1>2, <2>1, ElsewhereSaves
  <1>5. CASE cmd.op # "boot" /\ ~(cmd.op \in Saves /\ cmd.latest /\ ~ok)
    <2>1. Return(IF ok /\ ~cmd.failed THEN "ok" ELSE "err")
      BY <1>5 DEF LoopReturns
    <2>2. CASE cmd.op \in Saves /\ ok /\ cmd.failed = FALSE
      <3>1. pc' = "idle" /\ cmd' = cmd /\ Running'
        BY <2>1, <2>2 DEF Return
      <3> QED
        BY <1>2, <3>1
        DEF KInv, StreamNewest, SaveMounts, SaveAnswersOk, Running, LibBound,
            UserBound, StreamSteps, MountSteps
    <2>3. CASE ~(cmd.op \in Saves /\ ok /\ cmd.failed = FALSE)
      <3>1. pc' = "idle" /\ cmd' = cmd /\ (cmd.op \notin Saves \/ reply' = "err")
        BY <1>1, <1>5, <2>1, <2>3 DEF Return
      <3> QED BY <1>2, <3>1, ElsewhereSaves DEF MountSteps
    <2> QED BY <2>2, <2>3
  <1> QED BY <1>3, <1>4, <1>5

\* The slot and the generation are chosen.
LEMMA BeginSaves ==
    ASSUME BadFlash => Verify, IInv, TInv, KInv, StreamBegin
    PROVE  KInv'
  <1>1. /\ pc = "begin" /\ pc \in StreamSteps /\ flash' = flash
        /\ flash \in [Slots -> Images] /\ mounted \in Slots \cup {NoSlot}
    BY DEF StreamBegin, StreamSteps, IInv, TypeOK
  <1>2. Distinct'
    BY <1>1 DEF KInv, Distinct, BothValid, Valid
  <1>3. CASE CommitFailed
    BY <1>1, <1>2, <1>3, CommitFailedSaves
  <1>4. CASE /\ stream' = [slot |-> CommitSlot(flash, mounted), gen |-> CommitGen(flash)]
             /\ pc' = "erase"
             /\ UNCHANGED <<mounted, candidate, pin, rt, tier, cmd, reply>>
    <2>1. stream'.slot = CommitSlot(flash, mounted) /\ stream'.gen = CommitGen(flash)
      BY <1>4
    <2>2. 0 \in Slots /\ 1 \in Slots /\ \A s \in Slots : s = 0 \/ s = 1
      BY DEF Slots
    <2>3. flash[0].gen \in Int /\ flash[1].gen \in Int
      BY <1>1, <2>2, MaxGenAssumption DEF Images
    <2>4. \A s \in Slots : Valid(flash, s) => flash[s].gen < CommitGen(flash)
      BY <2>2, <2>3 DEF CommitGen, NewestGen, BothValid, Valid
    <2>5. /\ mounted \in Slots => Valid(flash, mounted)
          /\ BothValid(flash) => flash[0].gen # flash[1].gen
      BY DEF IInv, CodeMatchesImage, KInv, Distinct
    <2>6. Valid(flash, CommitSlot(flash, mounted))
          => /\ BothValid(flash)
             /\ \/ CommitSlot(flash, mounted) # NewestSlot(flash)
                \/ mounted = 1 - CommitSlot(flash, mounted)
      <3>1. CASE mounted \in Slots
        BY <2>2, <2>5, <3>1 DEF CommitSlot, BothValid
      <3>2. CASE mounted \notin Slots
        BY <2>2, <2>3, <2>5, <3>2 DEF CommitSlot, NewestSlot, BothValid, Valid
      <3> QED BY <3>1, <3>2
    <2>7. StreamNewest'
      BY <1>1, <1>4, <2>1, <2>4, <2>6
      DEF StreamNewest, Valid, BothValid, NewestSlot
    <2>8. SaveMounts'
      BY <1>1, <1>4 DEF KInv, SaveMounts, SaveAnswersOk, StreamSteps, MountSteps
    <2> QED BY <1>2, <2>7, <2>8 DEF KInv
  <1> QED BY <1>1, <1>3, <1>4, SeenSound DEF StreamBegin

\* The slot is erased: what stays good was good before.
LEMMA EraseSaves ==
    ASSUME IInv, KInv, StreamErase
    PROVE  KInv'
  <1>1. /\ pc = "erase" /\ pc \in StreamSteps /\ stream.slot \in Slots
        /\ TypeOK /\ Distinct
    BY DEF StreamErase, StreamSteps, IInv, StreamSafe, KInv
  <1>2. ASSUME NEW image \in HalfErased(stream.slot), SetSlot(stream.slot, image)
        PROVE  /\ Distinct'
               /\ \A t \in Slots : Valid(flash, t)'
                    => Valid(flash, t) /\ flash'[t] = flash[t]
    BY <1>1, <1>2, HalfErasedIs, ErasedDistinct
  <1>3. CASE (\E image \in HalfErased(stream.slot) : SetSlot(stream.slot, image))
             /\ CommitFailed
    BY <1>1, <1>2, <1>3, CommitFailedSaves
  <1>4. CASE SetSlot(stream.slot, Empty) /\ pc' = "write" /\ UNCHANGED ram
    <2>1. /\ Distinct'
          /\ \A t \in Slots : Valid(flash, t)'
               => Valid(flash, t) /\ flash'[t] = flash[t]
      BY <1>2, <1>4 DEF HalfErased
    <2>2. ~Valid(flash, stream.slot)'
      BY <1>1, <1>4 DEF SetSlot, TypeOK, Valid, Empty, Bare, ram
    <2>3. StreamNewest'
      BY <1>1, <1>4, <2>1, <2>2 DEF StreamNewest, KInv, ram
    <2>4. SaveMounts'
      BY <1>1, <1>4
      DEF KInv, SaveMounts, SaveAnswersOk, StreamSteps, MountSteps, ram
    <2> QED BY <2>1, <2>3, <2>4 DEF KInv
  <1> QED BY <1>3, <1>4 DEF StreamErase

\* The payload goes into the erased slot.
LEMMA WriteSaves ==
    ASSUME IInv, KInv, StreamWrite
    PROVE  KInv'
  <1>1. pc = "write" /\ pc \in StreamSteps /\ flash' = flash /\ cmd \in Commands
    BY DEF StreamWrite, StreamSteps, IInv, TypeOK
  <1>2. Distinct'
    BY <1>1 DEF KInv, Distinct, BothValid, Valid
  <1>3. CASE CommitFailed
    BY <1>1, <1>2, <1>3, CommitFailedSaves
  <1>4. ASSUME NEW p, cmd' = [cmd EXCEPT !.want = p], pc' = "header",
               UNCHANGED <<mounted, candidate, pin, stream, rt, tier, reply>>
        PROVE  KInv'
    <2>1. cmd'.latest = cmd.latest /\ cmd'.failed = cmd.failed
      BY <1>1, <1>4, CommandFields
    <2>2. StreamNewest'
      BY <1>1, <1>4 DEF KInv, StreamNewest, Valid
    <2>3. SaveMounts'
      BY <1>1, <1>4, <2>1
      DEF KInv, SaveMounts, SaveAnswersOk, StreamSteps, MountSteps
    <2> QED BY <1>2, <2>2, <2>3 DEF KInv
  <1> QED BY <1>3, <1>4 DEF StreamWrite

\* The image that the header commits is the newest one.
LEMMA FinalizedNewest ==
    ASSUME IInv, KInv, pc = "header", SetSlot(stream.slot, NewImage)
    PROVE  /\ Distinct' /\ NewestSlot(flash') = stream.slot
           /\ Valid(flash', stream.slot)
           /\ flash'[stream.slot].program = cmd.want
           /\ flash'[stream.slot].gen = stream.gen
           /\ \A t \in Slots : t # stream.slot => flash'[t] = flash[t]
  <1>1. /\ flash \in [Slots -> Images] /\ stream.slot \in Slots
        /\ NewImage \in Images
    BY NewImageType DEF IInv, TypeOK, StreamSafe
  <1>2. /\ flash'[stream.slot] = NewImage /\ flash' \in [Slots -> Images]
        /\ \A t \in Slots : t # stream.slot => flash'[t] = flash[t]
    BY <1>1 DEF SetSlot
  <1>3. /\ NewImage.gen = stream.gen /\ NewImage.state = "valid"
        /\ NewImage.program = cmd.want
    BY DEF NewImage, Image
  <1>4. \A t \in Slots : t # stream.slot /\ Valid(flash', t)
          => flash'[t].gen < flash'[stream.slot].gen
    BY <1>2, <1>3 DEF KInv, StreamNewest, Valid
  <1>5. 0 \in Slots /\ 1 \in Slots /\ \A s \in Slots : s = 0 \/ s = 1
    BY DEF Slots
  <1>6. 1 - stream.slot \in Slots /\ 1 - stream.slot # stream.slot
    BY <1>1, <1>5
  <1>7. Valid(flash', stream.slot)
    BY <1>2, <1>3 DEF Valid
  <1>8. NewestSlot(flash') = stream.slot
    BY <1>1, <1>2, <1>4, <1>6, <1>7, NewestIs
  <1>9. flash'[0].gen \in Int /\ flash'[1].gen \in Int
    BY <1>2, <1>5, MaxGenAssumption DEF Images
  <1>10. Distinct'
    BY <1>1, <1>4, <1>5, <1>7, <1>9 DEF Distinct, BothValid, Valid
  <1> QED BY <1>2, <1>3, <1>7, <1>8, <1>10

\* The header is written: the image is there and the newest, or it is not.
LEMMA FinalizeSaves ==
    ASSUME BadFlash => Verify, IInv, TInv, KInv, StreamFinalize
    PROVE  KInv'
  <1>1. /\ pc = "header" /\ pc \in StreamSteps /\ stream.slot \in Slots
        /\ TypeOK /\ Distinct /\ cmd.op \in Saves /\ cmd.index = 0
        /\ cmd.latest = TRUE /\ cmd.failed = FALSE
    BY DEF StreamFinalize, StreamSteps, IInv, StreamSafe, TInv, OpFits, KInv,
           SaveMounts
  <1>2. ASSUME NEW image \in {Empty, Corrupt, NewImage},
               SetSlot(stream.slot, image), CommitFailed
        PROVE  KInv'
    <2>1. CASE image = NewImage
      BY <1>1, <1>2, <2>1, FinalizedNewest, CommitFailedSaves
    <2>2. CASE image # NewImage
      <3>1. image.state # "valid"
        BY <2>2 DEF Empty, Corrupt, Bare
      <3> QED BY <1>1, <1>2, <3>1, ErasedDistinct, CommitFailedSaves
    <2> QED BY <2>1, <2>2
  <1>3. CASE /\ SetSlot(stream.slot, NewImage)
             /\ pc' = "mount" /\ cmd' = cmd
    <2>1. /\ Distinct' /\ NewestSlot(flash') = stream.slot
          /\ Valid(flash', stream.slot)
          /\ flash'[stream.slot].program = cmd.want
      BY <1>1, <1>3, FinalizedNewest
    <2> QED
      BY <1>1, <1>3, <2>1
      DEF KInv, StreamNewest, SaveMounts, SaveAnswersOk, StreamSteps
  <1> QED BY <1>2, <1>3 DEF StreamFinalize

\* The newest image is found, or none is.
LEMMA MountSaves ==
    ASSUME BadFlash => Verify, IInv, TInv, KInv, Mount
    PROVE  KInv'
  <1>1. pc = "mount" /\ pc \in MountSteps /\ flash' = flash
    BY DEF Mount, MountSteps
  <1>2. CASE LoopReturns(FALSE)
    BY <1>1, <1>2, LoopSaves
  <1>3. CASE /\ candidate' = ReadSlot(flash, cmd.index)
             /\ pc' = "apply"
             /\ UNCHANGED <<mounted, pin, stream, rt, tier, cmd, reply>>
    <2>1. Distinct' /\ StreamNewest'
      BY <1>1, <1>3 DEF KInv, Distinct, BothValid, Valid, StreamNewest
    <2>2. SaveMounts'
      BY <1>1, <1>3
      DEF KInv, SaveMounts, SaveAnswersOk, ReadSlot, Valid, NewestSlot,
          StreamSteps, MountSteps
    <2> QED BY <2>1, <2>2 DEF KInv
  <1> QED BY <1>1, <1>2, <1>3, SeenSound DEF Mount, Missed

\* Its payload is applied, or the command has failed.
LEMMA ApplySaves ==
    ASSUME IInv, TInv, KInv, Apply
    PROVE  KInv'
  <1> DEFINE image == flash[candidate]
  <1>1. /\ pc = "apply" /\ pc \in MountSteps /\ flash' = flash
        /\ rt \in Runtimes /\ cmd \in Commands /\ image.program \in Programs
        /\ cmd.failed \in BOOLEAN
        /\ cmd.op \in Saves => cmd.op # "boot" /\ cmd.op # "restore"
    BY DEF Apply, MountSteps, IInv, TypeOK, ImagesHold, CandidateSafe, Saves,
           AtOnce, Commands
  <1>2. Distinct'
    BY <1>1 DEF KInv, Distinct, BothValid, Valid
  <1>3. CASE LoopReturns(FALSE)
    BY <1>1, <1>3, LoopSaves
  <1>4. CASE ~cmd.latest /\ pc' = "mount" /\ cmd' = [cmd EXCEPT !.index = @ + 1]
    <2>1. cmd'.op = cmd.op /\ cmd'.failed = cmd.failed
      BY <1>1, <1>4, CommandFields
    <2>2. cmd.op \in Saves => cmd.failed = TRUE
      BY <1>1, <1>4 DEF KInv, SaveMounts
    <2> QED BY <1>2, <1>4, <2>1, <2>2, ElsewhereSaves
  <1>5. CASE /\ rt' = Applied(rt, cmd.op, image.program)
             /\ pc' = "mount_commit"
             /\ UNCHANGED <<candidate, tier, cmd, reply>>
    <2>1. cmd.op \in Saves
          => LibBound(image.program, rt') /\ UserBound(image.program, rt')
      BY <1>1, <1>5, AppliedGives
    <2>2. SaveMounts'
      BY <1>1, <1>5, <2>1
      DEF KInv, SaveMounts, SaveAnswersOk, Valid, NewestSlot, StreamSteps,
          MountSteps
    <2> QED BY <1>2, <1>5, <2>2 DEF KInv, StreamNewest
  <1> QED BY <1>3, <1>4, <1>5 DEF Apply, ApplyFailed

\* The candidate is mounted: a save that has not failed runs from its image.
LEMMA MountCommitSaves ==
    ASSUME IInv, TInv, KInv, MountCommit
    PROVE  KInv'
  <1>1. /\ pc = "mount_commit" /\ pc \in MountSteps /\ flash' = flash
        /\ candidate \in Slots /\ rt.table = flash[candidate].program
    BY DEF MountCommit, MountSteps, IInv, CandidateSafe
  <1>2. CASE LoopReturns(FALSE)
    BY <1>1, <1>2, LoopSaves
  <1>3. CASE /\ mounted' = candidate /\ LoopReturns(TRUE) /\ UNCHANGED rt
    <2>1. cmd.op \in Saves /\ cmd.failed = FALSE /\ cmd' = cmd => Running'
      BY <1>1, <1>3
      DEF KInv, SaveMounts, Running, NewestSlot, Valid, LibBound, UserBound
    <2> QED BY <1>1, <1>3, <2>1, LoopSaves
  <1> QED BY <1>2, <1>3 DEF MountCommit

\* The second pass of a boot, a wipe, and the loss of power promise nothing
\* of a save.
LEMMA OtherSaves ==
    ASSUME IInv, TInv, KInv,
           BootUserPass \/ PowerLoss \/ \E s \in Slots : WipeErase(s)
    PROVE  KInv'
  <1>1. TypeOK /\ Distinct
    BY DEF IInv, KInv
  <1>2. "boot" \notin Saves /\ "wipe" \notin Saves /\ NoCommand.op \notin Saves
    BY DEF Saves, AtOnce, NoCommand
  <1>3. CASE BootUserPass
    <2>1. Distinct'
      BY <1>1, <1>3 DEF BootUserPass, Distinct, BothValid, Valid
    <2>2. pc' = "idle" /\ cmd' = cmd /\ cmd.op = "boot"
      BY <1>3 DEF BootUserPass, TInv, OpFits
    <2> QED BY <1>2, <2>1, <2>2, ElsewhereSaves DEF MountSteps
  <1>4. ASSUME NEW s \in Slots, WipeErase(s) PROVE KInv'
    <2>1. Distinct'
      <3>1. PICK image \in HalfErased(s) : SetSlot(s, image)
        BY <1>4 DEF WipeErase, WipeFails, HalfErased
      <3> QED BY <1>1, <3>1, HalfErasedIs, ErasedDistinct
    <2>2. /\ pc' \in {"wipe1", "idle", "off"} /\ cmd.op = "wipe"
          /\ cmd' = cmd \/ cmd' = NoCommand
      BY <1>4 DEF WipeErase, WipeFails, Return, ram, TInv, OpFits, WipeSteps
    <2> QED BY <1>2, <2>1, <2>2, ElsewhereSaves DEF MountSteps
  <1>5. CASE PowerLoss
    <2>1. Distinct'
      <3>1. CASE flash' = flash
        BY <1>1, <3>1 DEF Distinct, BothValid, Valid
      <3>2. ASSUME NEW s \in TornSlots, NEW image \in TornImages(s),
                   SetSlot(s, image)
            PROVE  Distinct'
        <4>1. s \in Slots
          BY DEF TornSlots, IInv, StreamSafe, Slots
        <4>2. CASE pc # "header"
          BY <1>1, <3>2, <4>1, <4>2, HalfErasedIs, ErasedDistinct
          DEF TornImages
        <4>3. CASE pc = "header" /\ image # NewImage
          <5>1. image.state # "valid"
            BY <4>3 DEF TornImages, Empty, Corrupt, Bare
          <5> QED BY <1>1, <3>2, <4>1, <5>1, ErasedDistinct
        <4>4. CASE pc = "header" /\ image = NewImage
          <5>1. s = stream.slot
            BY <4>4 DEF TornSlots
          <5> QED BY <3>2, <4>4, <5>1, FinalizedNewest
        <4> QED BY <4>2, <4>3, <4>4
      <3> QED BY <1>5, <3>1, <3>2 DEF PowerLoss
    <2>2. pc' = "off"
      BY <1>5 DEF PowerLoss
    <2> QED BY <2>1, <2>2, ElsewhereSaves DEF MountSteps
  <1> QED BY <1>3, <1>4, <1>5

LEMMA NextSaves ==
    ASSUME BadFlash => Verify, IInv, TInv, KInv, [Next]_vars
    PROVE  KInv'
  <1>1. CASE Run
    BY <1>1, BeginSaves, EraseSaves, WriteSaves, FinalizeSaves, MountSaves,
       ApplySaves, MountCommitSaves, OtherSaves DEF Run
  <1>2. CASE Prompt \/ PowerOn \/ SafeBoot
    BY <1>2, PromptSaves
  <1>3. CASE PowerLoss
    BY <1>3, OtherSaves
  <1>4. CASE UNCHANGED vars
    BY <1>4
    DEF vars, KInv, Distinct, StreamNewest, SaveMounts, SaveAnswersOk,
        BothValid, Valid, NewestSlot, LibBound, UserBound
  <1> QED BY <1>1, <1>2, <1>3, <1>4 DEF Next

\* On flash that a scan sees as it is, the generations of two good images
\* differ, a save's image is the newest, and its mount tries no other one.
THEOREM SavesInductive == (BadFlash => Verify) => (Spec => []KInv)
  <1> SUFFICES ASSUME BadFlash => Verify PROVE Spec => []KInv
    OBVIOUS
  <1>1. KInv /\ IInv /\ TInv /\ [Next]_vars => KInv'
    BY NextSaves
  <1> QED BY <1>1, InitSaves, Inductive, TiersInductive, PTL DEF Spec

\* A save (fr_persist_save, fr_persist_save_at_once) that answers ok has its
\* image on flash as the newest one, and the runtime runs from it.
THEOREM OkSavesAreDurable ==
    (BadFlash => Verify) => (Spec => []SaveAnswersOk)
  <1> SUFFICES ASSUME BadFlash => Verify PROVE Spec => []SaveAnswersOk
    OBVIOUS
  <1>1. KInv => SaveAnswersOk
    BY DEF KInv, SaveMounts
  <1> QED BY <1>1, SavesInductive, PTL

(***************************************************************************)
(* The two slots implement ProgramStore.                                   *)
(***************************************************************************)

\* The program the store has in use, and whether a wipe is under way.
InUse == IF mounted \in Slots THEN flash[mounted].program ELSE NoProgram
Wiping == pc \in WipeSteps

\* The older program is the one beside the newest.
LEMMA SlotsView ==
    ASSUME NEW f \in [Slots -> Images], NEW s \in Slots
    PROVE  /\ 1 - s \in Slots /\ 1 - s # s /\ \A t \in Slots : t = s \/ t = 1 - s
           /\ BothValid(f) <=> Valid(f, s) /\ Valid(f, 1 - s)
           /\ NewestSlot(f) = s \/ NewestSlot(f) = 1 - s
           /\ ~Valid(f, s) /\ ~Valid(f, 1 - s) => Durable(f) = NoProgram
           /\ Valid(f, s) /\ ~Valid(f, 1 - s) => Durable(f) = f[s].program
           /\ ~BothValid(f) => OlderProgram(f) = NoProgram
           /\ BothValid(f) /\ NewestSlot(f) = s
               => Durable(f) = f[s].program /\ OlderProgram(f) = f[1 - s].program
           /\ BothValid(f) /\ NewestSlot(f) # s
               => Durable(f) = f[1 - s].program /\ OlderProgram(f) = f[s].program
  <1>1. 0 \in Slots /\ 1 \in Slots /\ \A t \in Slots : t = 0 \/ t = 1
    BY DEF Slots
  <1>2. 1 - s \in Slots /\ 1 - s # s /\ \A t \in Slots : t = s \/ t = 1 - s
    BY <1>1
  <1>3. BothValid(f) <=> Valid(f, s) /\ Valid(f, 1 - s)
    BY <1>1 DEF BothValid
  <1>4. NewestSlot(f) = s \/ NewestSlot(f) = 1 - s
    BY <1>2, NewestIs
  <1>5. 1 - (1 - s) = s
    BY <1>1
  <1>6. ValidSlots(f) = {} <=> ~Valid(f, s) /\ ~Valid(f, 1 - s)
    BY <1>2 DEF ValidSlots
  <1>7. Valid(f, s) /\ ~Valid(f, 1 - s) => NewestSlot(f) = s
    BY <1>2, <1>4, NewestIs
  <1> QED
    BY <1>2, <1>3, <1>4, <1>5, <1>6, <1>7 DEF Durable, OlderProgram

\* What the store sees of a slot whose good image goes: the other one stays.
LEMMA ErasedView ==
    ASSUME NEW f \in [Slots -> Images], NEW g \in [Slots -> Images],
           NEW s \in Slots, g[1 - s] = f[1 - s], ~Valid(g, s)
    PROVE  /\ OlderProgram(g) = NoProgram
           /\ ~Valid(f, s) => /\ Durable(g) = Durable(f)
                              /\ OlderProgram(f) = NoProgram
           /\ Valid(f, s) /\ ~BothValid(f) => Durable(g) = NoProgram
           /\ BothValid(f) /\ s # NewestSlot(f) => Durable(g) = Durable(f)
           /\ BothValid(f) /\ s = NewestSlot(f)
               => /\ Durable(g) = OlderProgram(f)
                  /\ OlderProgram(f) = f[1 - s].program
  <1>1. 1 - s \in Slots /\ 1 - (1 - s) = s
    BY DEF Slots
  <1>2. Valid(g, 1 - s) <=> Valid(f, 1 - s)
    BY DEF Valid
  <1>3. /\ OlderProgram(g) = NoProgram
        /\ ~Valid(f, 1 - s) => Durable(g) = NoProgram
        /\ Valid(f, 1 - s) => Durable(g) = f[1 - s].program
    <2>1. ~BothValid(g)
      BY SlotsView
    <2>2. ~Valid(g, 1 - s) => Durable(g) = NoProgram
      BY SlotsView
    <2>3. Valid(g, 1 - s) => Durable(g) = g[1 - s].program
      BY <1>1, SlotsView
    <2> QED BY <1>2, <2>1, <2>2, <2>3, SlotsView
  <1>4. ~Valid(f, s) => /\ OlderProgram(f) = NoProgram
                        /\ Valid(f, 1 - s) => Durable(f) = f[1 - s].program
                        /\ ~Valid(f, 1 - s) => Durable(f) = NoProgram
    <2>1. ~Valid(f, s) /\ Valid(f, 1 - s) => Durable(f) = f[1 - s].program
      BY <1>1, SlotsView
    <2> QED BY <2>1, SlotsView
  <1>5. BothValid(f) => Valid(f, 1 - s)
    BY SlotsView
  <1>6. Valid(f, s) /\ ~BothValid(f) => ~Valid(f, 1 - s)
    BY SlotsView
  <1>7. BothValid(f) /\ s # NewestSlot(f) => Durable(f) = f[1 - s].program
    BY SlotsView
  <1>8. BothValid(f) /\ s = NewestSlot(f) => OlderProgram(f) = f[1 - s].program
    BY SlotsView
  <1> QED BY <1>3, <1>4, <1>5, <1>6, <1>7, <1>8

\* What it sees of the image that a save commits.
LEMMA TakenView ==
    ASSUME NEW f \in [Slots -> Images], NEW g \in [Slots -> Images],
           NEW s \in Slots, g[1 - s] = f[1 - s], ~Valid(f, s), Valid(g, s),
           NewestSlot(g) = s
    PROVE  /\ Durable(g) = g[s].program
           /\ OlderProgram(g) = Durable(f) /\ OlderProgram(f) = NoProgram
  <1>1. 1 - s \in Slots /\ 1 - (1 - s) = s
    BY DEF Slots
  <1>2. Valid(g, 1 - s) <=> Valid(f, 1 - s)
    BY DEF Valid
  <1>3. Durable(g) = g[s].program
    BY SlotsView
  <1>4. OlderProgram(f) = NoProgram
    BY SlotsView
  <1>5. CASE Valid(f, 1 - s)
    <2>1. Durable(f) = f[1 - s].program
      BY <1>1, <1>5, SlotsView
    <2>2. OlderProgram(g) = g[1 - s].program
      BY <1>2, <1>5, SlotsView
    <2> QED BY <1>3, <1>4, <2>1, <2>2
  <1>6. CASE ~Valid(f, 1 - s)
    BY <1>2, <1>3, <1>4, <1>6, SlotsView
  <1> QED BY <1>5, <1>6

(***************************************************************************)
(* The steps of the store.                                                 *)
(***************************************************************************)

\* A step that changes neither flash, nor what is mounted, nor a wipe.
LEMMA QuietStep ==
    ASSUME flash' = flash, mounted' = mounted, Wiping' = Wiping
    PROVE  UNCHANGED <<Durable(flash), OlderProgram(flash), InUse, Wiping>>
  BY DEF Durable, OlderProgram, InUse, ValidSlots, NewestSlot, BothValid, Valid

\* A save erases its slot: MakeRoom, or a stutter.
LEMMA EraseStep ==
    ASSUME IInv, KInv, pc = "erase", NEW image \in HalfErased(stream.slot),
           SetSlot(stream.slot, image)
    PROVE  LET new == Durable(flash)'
               old == OlderProgram(flash)'
           IN  \/ new = Durable(flash) /\ old = OlderProgram(flash)
               \/ new = Durable(flash) /\ old = NoProgram
               \/ /\ InUse \in {OlderProgram(flash)} \ {NoProgram}
                  /\ new = OlderProgram(flash) /\ old = NoProgram
  <1> DEFINE s == stream.slot
  <1>1. /\ s \in Slots /\ flash \in [Slots -> Images] /\ image \in Images
        /\ 1 - s \in Slots /\ 1 - s # s
    BY HalfErasedImages, SlotsView DEF IInv, TypeOK, StreamSafe
  <1>2. PICK g \in [Slots -> Images] : g = flash'
    BY <1>1 DEF SetSlot
  <1>3. g[s] = image /\ g[1 - s] = flash[1 - s]
    BY <1>1, <1>2 DEF SetSlot
  <1>4. Durable(flash)' = Durable(g) /\ OlderProgram(flash)' = OlderProgram(g)
    BY <1>2 DEF Durable, OlderProgram, ValidSlots, NewestSlot, BothValid, Valid
  <1>5. CASE image = flash[s]
    <2>1. g = flash
      BY <1>1, <1>2, <1>5 DEF SetSlot
    <2> QED BY <1>4, <2>1
  <1>6. CASE image # flash[s]
    <2>1. ~Valid(g, s)
      BY <1>3, <1>6, HalfErasedIs DEF Valid
    <2>2. CASE ~Valid(flash, s)
      BY <1>1, <1>3, <1>4, <2>1, <2>2, ErasedView
    <2>3. CASE Valid(flash, s) /\ s # NewestSlot(flash)
      <3>1. BothValid(flash)
        BY <2>3 DEF KInv, StreamNewest
      <3> QED BY <1>1, <1>3, <1>4, <2>1, <2>3, <3>1, ErasedView
    <2>4. CASE Valid(flash, s) /\ s = NewestSlot(flash)
      <3>1. BothValid(flash) /\ mounted = 1 - s
        BY <2>4 DEF KInv, StreamNewest
      <3>2. flash[mounted].program \in Programs
        BY <1>1, <3>1 DEF IInv, ImagesHold, CodeMatchesImage
      <3>3. InUse = flash[1 - s].program /\ InUse # NoProgram
        BY <1>1, <3>1, <3>2, NoProgramAssumption DEF InUse
      <3> QED BY <1>1, <1>3, <1>4, <2>1, <2>4, <3>1, <3>3, ErasedView
    <2> QED BY <2>2, <2>3, <2>4
  <1> QED BY <1>5, <1>6

\* A save writes its header: Take, or a stutter.
LEMMA HeaderStep ==
    ASSUME IInv, KInv, pc = "header", NEW image \in {Empty, Corrupt, NewImage},
           SetSlot(stream.slot, image)
    PROVE  /\ OlderProgram(flash) = NoProgram
           /\ \/ UNCHANGED <<Durable(flash), OlderProgram(flash)>>
              \/ /\ Durable(flash)' = cmd.want /\ cmd.want \in Programs
                 /\ OlderProgram(flash)' = Durable(flash)
  <1> DEFINE s == stream.slot
  <1>1. /\ s \in Slots /\ flash \in [Slots -> Images] /\ image \in Images
        /\ 1 - s \in Slots /\ 1 - s # s /\ ~Valid(flash, s)
        /\ cmd.want \in Programs
    BY NewImageType, SlotsView
    DEF IInv, TypeOK, StreamSafe, KInv, StreamNewest
  <1>2. PICK g \in [Slots -> Images] : g = flash'
    BY <1>1 DEF SetSlot
  <1>3. g[s] = image /\ g[1 - s] = flash[1 - s]
    BY <1>1, <1>2 DEF SetSlot
  <1>4. Durable(flash)' = Durable(g) /\ OlderProgram(flash)' = OlderProgram(g)
    BY <1>2 DEF Durable, OlderProgram, ValidSlots, NewestSlot, BothValid, Valid
  <1>5. CASE image = NewImage
    <2>1. /\ Valid(g, s) /\ NewestSlot(g) = s /\ g[s].program = cmd.want
      BY <1>2, <1>5, FinalizedNewest
    <2> QED BY <1>1, <1>3, <1>4, <2>1, TakenView
  <1>6. CASE image # NewImage
    <2>1. ~Valid(g, s)
      BY <1>3, <1>6 DEF Valid, Empty, Corrupt, Bare
    <2> QED BY <1>1, <1>3, <1>4, <2>1, ErasedView
  <1> QED BY <1>5, <1>6

\* A wipe erases a slot: Lose, or a stutter.
LEMMA LoseStep ==
    ASSUME IInv, NEW s \in Slots, NEW image \in HalfErased(s), SetSlot(s, image)
    PROVE  \/ UNCHANGED <<Durable(flash), OlderProgram(flash)>>
           \/ /\ Durable(flash)' \in {Durable(flash), OlderProgram(flash), NoProgram}
              /\ OlderProgram(flash)' = NoProgram
  <1>1. /\ flash \in [Slots -> Images] /\ image \in Images
        /\ 1 - s \in Slots /\ 1 - s # s
    BY HalfErasedImages, SlotsView DEF IInv, TypeOK
  <1>2. PICK g \in [Slots -> Images] : g = flash'
    BY <1>1 DEF SetSlot
  <1>3. g[s] = image /\ g[1 - s] = flash[1 - s]
    BY <1>1, <1>2 DEF SetSlot
  <1>4. Durable(flash)' = Durable(g) /\ OlderProgram(flash)' = OlderProgram(g)
    BY <1>2 DEF Durable, OlderProgram, ValidSlots, NewestSlot, BothValid, Valid
  <1>5. CASE image = flash[s]
    <2>1. g = flash
      BY <1>1, <1>2, <1>5 DEF SetSlot
    <2> QED BY <1>4, <2>1
  <1>6. CASE image # flash[s]
    <2>1. ~Valid(g, s)
      BY <1>3, <1>6, HalfErasedIs DEF Valid
    <2>2. /\ OlderProgram(g) = NoProgram
          /\ Durable(g) \in {Durable(flash), OlderProgram(flash), NoProgram}
      BY <1>1, <1>3, <2>1, ErasedView
    <2> QED BY <1>4, <2>2
  <1> QED BY <1>5, <1>6

\* What is in use stays as long as it is mounted.
LEMMA InUseStays ==
    ASSUME IInv, [Next]_vars, mounted' = mounted
    PROVE  InUse' = InUse
  BY MountedStep DEF InUse

\* The steps of a save and of its failure.
LEMMA SaveStores ==
    ASSUME BadFlash => Verify, IInv, KInv, [Next]_vars,
           StreamBegin \/ StreamErase \/ StreamWrite \/ StreamFinalize
    PROVE  [Store!Next]_<<Durable(flash), OlderProgram(flash), InUse, Wiping>>
  <1>1. /\ mounted' = mounted /\ Wiping = FALSE /\ Wiping' = FALSE
        /\ StreamBegin \/ StreamWrite => flash' = flash
    BY DEF StreamBegin, StreamErase, StreamWrite, StreamFinalize, CommitFailed,
           Return, ram, Wiping, WipeSteps
  <1>2. InUse' = InUse
    BY <1>1, InUseStays
  <1>3. CASE StreamBegin \/ StreamWrite
    BY <1>1, <1>3, QuietStep
  <1>4. CASE StreamErase
    <2>1. PICK image \in HalfErased(stream.slot) : SetSlot(stream.slot, image)
      BY <1>4 DEF StreamErase, HalfErased
    <2>2. \/ UNCHANGED <<Durable(flash), OlderProgram(flash)>>
          \/ Durable(flash)' = Durable(flash) /\ OlderProgram(flash)' = NoProgram
          \/ /\ InUse \in {OlderProgram(flash)} \ {NoProgram}
             /\ Durable(flash)' = OlderProgram(flash)
             /\ OlderProgram(flash)' = NoProgram
      BY <1>4, <2>1, EraseStep DEF StreamErase
    <2> QED
      BY <1>1, <1>2, <2>2 DEF Store!Next, Store!MakeRoom, InUse, Wiping
  <1>5. CASE StreamFinalize
    <2>1. PICK image \in {Empty, Corrupt, NewImage} : SetSlot(stream.slot, image)
      BY <1>5 DEF StreamFinalize
    <2>2. /\ OlderProgram(flash) = NoProgram
          /\ \/ UNCHANGED <<Durable(flash), OlderProgram(flash)>>
             \/ /\ Durable(flash)' = cmd.want /\ cmd.want \in Programs
                /\ OlderProgram(flash)' = Durable(flash)
      BY <1>5, <2>1, HeaderStep DEF StreamFinalize
    <2> QED
      BY <1>1, <1>2, <2>2 DEF Store!Next, Store!Take, InUse, Wiping
  <1> QED BY <1>3, <1>4, <1>5

\* The candidate is mounted: one of the two programs in store is used.
LEMMA MountStores ==
    ASSUME IInv, MountCommit
    PROVE  [Store!Next]_<<Durable(flash), OlderProgram(flash), InUse, Wiping>>
  <1>1. flash' = flash /\ Wiping = FALSE /\ Wiping' = FALSE
    BY DEF MountCommit, LoopReturns, Return, Wiping, WipeSteps
  <1>2. CASE mounted' = mounted
    BY <1>1, <1>2, QuietStep
  <1>3. CASE mounted' = candidate
    <2>1. /\ candidate \in Slots /\ Valid(flash, candidate)
          /\ flash[candidate].program \in Programs
          /\ flash \in [Slots -> Images]
      BY DEF MountCommit, IInv, TypeOK, ImagesHold, CandidateSafe
    <2>2. InUse' = flash[candidate].program
      BY <1>1, <1>3, <2>1 DEF InUse
    <2>3. InUse' \in {Durable(flash), OlderProgram(flash)} \ {NoProgram}
      BY <2>1, <2>2, SlotsView, NoProgramAssumption
    <2>4. UNCHANGED <<Durable(flash), OlderProgram(flash)>>
      BY <1>1
      DEF Durable, OlderProgram, ValidSlots, NewestSlot, BothValid, Valid
    <2> QED
      BY <1>1, <2>3, <2>4 DEF Store!Next, Store!Use, InUse, Wiping
  <1> QED BY <1>2, <1>3 DEF MountCommit

\* A wipe loses the programs one at a time.
LEMMA WipeStores ==
    ASSUME IInv, NEW s \in Slots, WipeErase(s)
    PROVE  [Store!Next]_<<Durable(flash), OlderProgram(flash), InUse, Wiping>>
  <1>1. /\ Wiping /\ mounted = NoSlot /\ mounted' = mounted
        /\ NoSlot \notin Slots
    BY DEF WipeErase, WipeFails, ram, Wiping, WipeSteps, IInv, PinSafe, Slots,
           NoSlot
  <1>2. InUse = NoProgram /\ InUse' = NoProgram
    BY <1>1 DEF InUse
  <1>3. PICK image \in HalfErased(s) : SetSlot(s, image)
    BY DEF WipeErase, WipeFails, HalfErased
  <1>4. \/ UNCHANGED <<Durable(flash), OlderProgram(flash)>>
        \/ /\ Durable(flash)' \in {Durable(flash), OlderProgram(flash), NoProgram}
           /\ OlderProgram(flash)' = NoProgram
    BY <1>3, LoseStep
  <1>5. Wiping' \in BOOLEAN
    BY DEF Wiping
  <1>6. CASE Wiping' = Wiping /\ UNCHANGED <<Durable(flash), OlderProgram(flash)>>
    BY <1>2, <1>6
  <1>7. CASE Wiping' = FALSE /\ UNCHANGED <<Durable(flash), OlderProgram(flash)>>
    BY <1>2, <1>7 DEF Store!Next, Store!Stop, InUse, Wiping
  <1>8. CASE /\ Durable(flash)' \in {Durable(flash), OlderProgram(flash), NoProgram}
             /\ OlderProgram(flash)' = NoProgram
    BY <1>1, <1>2, <1>5, <1>8 DEF Store!Next, Store!Lose, InUse, Wiping
  <1> QED BY <1>1, <1>4, <1>5, <1>6, <1>7, <1>8

\* The power goes in the middle of anything.
LEMMA LossStores ==
    ASSUME IInv, KInv, PowerLoss
    PROVE  [Store!Next]_<<Durable(flash), OlderProgram(flash), InUse, Wiping>>
  <1>1. Wiping' = FALSE /\ InUse' = NoProgram
    BY DEF PowerLoss, Wiping, WipeSteps, InUse, Slots, NoSlot
  <1>2. SUFFICES Store!Stop
    BY DEF Store!Next
  <1>3. CASE UNCHANGED <<Durable(flash), OlderProgram(flash)>>
    BY <1>1, <1>3 DEF Store!Stop, InUse, Wiping
  <1>4. CASE flash' = flash
    BY <1>3, <1>4
    DEF Durable, OlderProgram, ValidSlots, NewestSlot, BothValid, Valid
  <1>5. ASSUME NEW s \in TornSlots, NEW image \in TornImages(s),
               SetSlot(s, image)
        PROVE  Store!Stop
    <2>1. CASE pc = "erase"
      <3>1. s = stream.slot /\ image \in HalfErased(s)
        BY <2>1 DEF TornSlots, TornImages
      <3>2. \/ UNCHANGED <<Durable(flash), OlderProgram(flash)>>
            \/ Durable(flash)' = Durable(flash) /\ OlderProgram(flash)' = NoProgram
            \/ /\ InUse \in {OlderProgram(flash)} \ {NoProgram}
               /\ Durable(flash)' = OlderProgram(flash)
               /\ OlderProgram(flash)' = NoProgram
        BY <1>5, <2>1, <3>1, EraseStep
      <3> QED BY <1>1, <1>3, <3>2 DEF Store!Stop, InUse, Wiping
    <2>2. CASE pc = "header"
      <3>1. s = stream.slot /\ image \in {Empty, Corrupt, NewImage}
        BY <2>2 DEF TornSlots, TornImages
      <3>2. /\ OlderProgram(flash) = NoProgram
            /\ \/ UNCHANGED <<Durable(flash), OlderProgram(flash)>>
               \/ /\ Durable(flash)' = cmd.want /\ cmd.want \in Programs
                  /\ OlderProgram(flash)' = Durable(flash)
        BY <1>5, <2>2, <3>1, HeaderStep
      <3> QED BY <1>1, <1>3, <3>2 DEF Store!Stop, InUse, Wiping
    <2>3. CASE pc \in WipeSteps
      <3>1. s \in Slots /\ image \in HalfErased(s)
        BY <2>3 DEF TornSlots, TornImages, WipeSteps, Slots
      <3>2. \/ UNCHANGED <<Durable(flash), OlderProgram(flash)>>
            \/ /\ Durable(flash)' \in {Durable(flash), OlderProgram(flash), NoProgram}
               /\ OlderProgram(flash)' = NoProgram
        BY <1>5, <3>1, LoseStep
      <3> QED BY <1>1, <1>3, <2>3, <3>2 DEF Store!Stop, InUse, Wiping
    <2> QED BY <2>1, <2>2, <2>3 DEF TornSlots, WipeSteps
  <1> QED BY <1>4, <1>5 DEF PowerLoss

LEMMA NextStores ==
    ASSUME BadFlash => Verify, IInv, KInv, [Next]_vars
    PROVE  [Store!Next]_<<Durable(flash), OlderProgram(flash), InUse, Wiping>>
  <1>1. CASE StreamBegin \/ StreamErase \/ StreamWrite \/ StreamFinalize
    BY <1>1, SaveStores
  <1>2. CASE MountCommit
    BY <1>2, MountStores
  <1>3. CASE \E s \in Slots : WipeErase(s)
    BY <1>3, WipeStores
  <1>4. CASE PowerLoss
    BY <1>4, LossStores
  <1>5. CASE Wipe
    <2>1. /\ Wiping' /\ InUse' = NoProgram /\ flash' = flash
      BY <1>5 DEF Wipe, Wiping, WipeSteps, InUse, Slots, NoSlot
    <2>2. UNCHANGED <<Durable(flash), OlderProgram(flash)>>
      BY <2>1
      DEF Durable, OlderProgram, ValidSlots, NewestSlot, BothValid, Valid
    <2> QED BY <2>1, <2>2 DEF Store!Next, Store!StartWipe, InUse, Wiping
  <1>6. CASE Mount \/ Apply
    <2>1. flash' = flash /\ mounted' = mounted /\ Wiping = FALSE /\ Wiping' = FALSE
      BY <1>6
      DEF Mount, Missed, Apply, ApplyFailed, LoopReturns, Return, Wiping,
          WipeSteps
    <2> QED BY <2>1, QuietStep
  <1>7. CASE BootUserPass \/ PowerOn \/ SafeBoot \/ Restore \/ InstallUser
    <2>1. flash' = flash /\ mounted' = mounted /\ Wiping = FALSE /\ Wiping' = FALSE
      BY <1>7
      DEF BootUserPass, PowerOn, SafeBoot, Restore, InstallUser, Idle, Wiping,
          WipeSteps
    <2> QED BY <2>1, QuietStep
  <1>8. ASSUME NEW op, NEW r, Idle, StartCommit(op, r) \/ Refuse \/ Edit(r)
        PROVE  UNCHANGED <<Durable(flash), OlderProgram(flash), InUse, Wiping>>
    <2>1. flash' = flash /\ mounted' = mounted /\ Wiping = FALSE /\ Wiping' = FALSE
      BY <1>8 DEF StartCommit, Refuse, Edit, Idle, Wiping, WipeSteps
    <2> QED BY <2>1, QuietStep
  <1>9. CASE Clear \/ Save \/ WipeUser \/ InstallLibrary
             \/ (\E w \in UserWords, d \in Defs : DefineUserWord(w, d))
             \/ (\E w \in LibWords, d \in Defs : DefineLibraryWord(w, d))
    BY <1>8, <1>9
    DEF Clear, Save, WipeUser, InstallLibrary, DefineUserWord,
        DefineLibraryWord
  <1>10. CASE UNCHANGED vars
    BY <1>10, QuietStep DEF vars, Wiping
  <1> QED
    BY <1>1, <1>2, <1>3, <1>4, <1>5, <1>6, <1>7, <1>9, <1>10
    DEF Next, Prompt, Run

LEMMA InitStores == Init => Store!Init
  <1> SUFFICES ASSUME Init PROVE Store!Init
    OBVIOUS
  <1>1. flash \in [Slots -> Images] /\ ImagesHold /\ ~BothValid(flash)
    BY InitInv
    DEF IInv, TypeOK, Init, BothValid, Valid, Empty, OtherRelease, Bare, Slots
  <1>2. NewestSlot(flash) \in Slots
        /\ (ValidSlots(flash) # {} => Valid(flash, NewestSlot(flash)))
    BY <1>1, NewestIs DEF ValidSlots
  <1>3. Durable(flash) \in Programs \cup {NoProgram}
    BY <1>1, <1>2 DEF Durable, ImagesHold
  <1>4. OlderProgram(flash) = NoProgram
    BY <1>1 DEF OlderProgram
  <1>5. mounted \notin Slots /\ pc \notin WipeSteps
    BY DEF Init, Slots, NoSlot, WipeSteps
  <1> QED BY <1>3, <1>4, <1>5 DEF Store!Init, Store!Stored

\* A save is taken whole or not at all, displaces no program that is in use,
\* and whatever fails or loses power, only a wipe loses the last program.
THEOREM SlotsAreAStore ==
    (BadFlash => Verify) => (Spec => ImplementsStore)
  <1> SUFFICES ASSUME BadFlash => Verify PROVE Spec => ImplementsStore
    OBVIOUS
  <1>1. IInv /\ KInv /\ [Next]_vars => [Store!Next]_(Store!store)
    BY NextStores DEF Store!store, InUse, Wiping
  <1> QED
    BY <1>1, InitStores, Inductive, SavesInductive, PTL
    DEF Spec, ImplementsStore, Store!Spec
=============================================================================
