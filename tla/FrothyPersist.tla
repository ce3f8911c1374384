--------------------------- MODULE FrothyPersist ---------------------------
(***************************************************************************)
(* Saving, restoring and wiping a Frothy program (src/persist.c) over the  *)
(* A/B flash images of a board (targets/*/platform.c), with every step of  *)
(* a save or a mount able to fail and the power able to go at any moment.  *)
(*                                                                         *)
(* The prompt is single threaded: what interleaves with a command is loss  *)
(* of power.  pc is the step the running command is at; "off" is a board   *)
(* without power, "idle" the prompt.  RAM (everything but flash) is lost   *)
(* when the power goes.                                                    *)
(***************************************************************************)
EXTENDS FrothyFlash

CONSTANTS
    BadFlash,   \* a flash write may go wrong unnoticed, and a read may fail
    Verify      \* RP2040: flash is read in place and finalize reads the slot
                \* back; ESP-IDF does neither

ASSUME BadFlashAssumption == BadFlash \in BOOLEAN
ASSUME VerifyAssumption == Verify \in BOOLEAN

VARIABLES
    flash,      \* the two slots
    mounted,    \* the slot the runtime's image code is mapped from
    candidate,  \* the slot a mount in progress has mapped
    pin,        \* the slot whose payload boot keeps for its second pass
    stream,     \* the slot and generation of a save in progress
    rt,         \* the runtime's words
    tier,       \* install tier of the session
    pc,         \* step of the running command
    cmd,        \* the running (or last) command and its locals
    reply       \* what the last command answered

ram == <<mounted, candidate, pin, stream, rt, tier, cmd, reply>>
vars == <<flash, mounted, candidate, pin, stream, rt, tier, pc, cmd, reply>>

(***************************************************************************)
(* The runtime.  lib and user are the current values of the words;         *)
(* libBase and userBase what the mounted image bound them to, which is     *)
(* where a project clear returns; table is the program whose code can be   *)
(* run: the one installed from the mounted image.                          *)
(***************************************************************************)
Runtimes == [lib : LibLayers, libBase : LibLayers,
             user : UserLayers, userBase : UserLayers,
             table : Programs \cup {NoProgram}]

BaseRuntime == [lib |-> NoLib, libBase |-> NoLib,
                user |-> NoUser, userBase |-> NoUser, table |-> NoProgram]

ClearProject(r) == [r EXCEPT !.lib = r.libBase, !.user = r.userBase]

\* Mutant: the firmware's own code table is not put back.
CleanupKeepsTable(r) == ClearProject(r)

\* clear_project, then code and objects back to the firmware's own.
CleanupFailedApply(r) == [ClearProject(r) EXCEPT !.table = NoProgram]

\* A bind record writes a base value; a word the payload does not bind keeps
\* the base value it has.
Bind(layer, base) ==
    [w \in DOMAIN base |-> IF layer[w] # None THEN layer[w] ELSE base[w]]

BindLib(r, program) ==
    [r EXCEPT !.lib = Bind(program.lib, r.libBase),
              !.libBase = Bind(program.lib, r.libBase)]
BindUser(r, program) ==
    [r EXCEPT !.user = Bind(program.user, r.userBase),
              !.userBase = Bind(program.user, r.userBase)]

WipeUserTier(r) == [r EXCEPT !.user = NoUser, !.userBase = NoUser]
WipeLibraryTier(r) == [r EXCEPT !.lib = NoLib, !.libBase = NoLib]

\* What the payload appliers start from: every one but the user-only restore
\* clears the project first; that one keeps the library tier.
ApplyBase(r, op, program) ==
    LET start == IF op = "restore" THEN WipeUserTier(r) ELSE ClearProject(r)
    IN  [start EXCEPT !.table = program]

\* The binds of each applier: boot binds the user tier in its second pass.
Applied(r, op, program) ==
    LET start == ApplyBase(r, op, program)
        withLib == IF op = "restore" THEN start
                   ELSE BindLib(start, program)
    IN  IF op = "boot" THEN withLib ELSE BindUser(withLib, program)

\* Where an applier that failed leaves the runtime.  A payload that does not
\* decode is refused before anything changes.  One that does can fail when
\* the platform refuses the reset, or refuses an event after all the binds.
FailedApplies(r, op, image) ==
    IF ~image.loads THEN {r}
    ELSE {ClearProject(r) : x \in {op} \ {"restore"}} \cup
         {Applied(r, op, image.program) : x \in {op} \ {"boot"}}

\* A word whose value is a code id of an image that is not the installed one.
StaleLib(r) == {w \in LibWords :
    r.libBase[w] # None /\ (r.table = NoProgram \/ r.table.lib[w] # r.libBase[w])}
StaleUser(r) == {w \in UserWords :
    r.userBase[w] # None /\ (r.table = NoProgram \/ r.table.user[w] # r.userBase[w])}

\* The slots as a scan sees them: a slot that cannot be read is damaged.
Seen(f) ==
    IF BadFlash /\ ~Verify
      THEN {g \in [Slots -> {f[s] : s \in Slots} \cup {Corrupt}] :
              \A s \in Slots : g[s] \in {f[s], Corrupt}}
      ELSE {f}

(***************************************************************************)
(* Commands.                                                               *)
(***************************************************************************)
AtOnce == {"wipe_user", "install_library", "library_def"}
FullSaves == {"install_library", "library_def"}
Saves == {"save"} \cup AtOnce
Ops == Saves \cup {"none", "restore", "boot", "safe_boot", "wipe"}

Commands == [op : Ops,
             index : 0 .. 2,            \* candidate image the loop is at
             latest : BOOLEAN,          \* latest_only of the mount loop
             failed : BOOLEAN,          \* the commit failed
             hadMount : BOOLEAN,        \* an image was mounted at the start
             want : Programs \cup {NoProgram}]  \* the payload streamed

NoStream == [slot |-> NoSlot, gen |-> 0]

\* Mutant: a save's own mount may fall back to the older image.
CommandFallsBack(op) ==
    [op |-> op, index |-> 0, latest |-> FALSE,
     failed |-> FALSE, hadMount |-> mounted # NoSlot, want |-> NoProgram]

Command(op) == [op |-> op, index |-> 0, latest |-> op \in Saves,
                failed |-> FALSE, hadMount |-> mounted # NoSlot,
                want |-> NoProgram]
NoCommand == [op |-> "none", index |-> 0, latest |-> FALSE, failed |-> FALSE,
              hadMount |-> FALSE, want |-> NoProgram]

StreamSteps == {"begin", "erase", "write", "header"}
MountSteps == {"mount", "apply", "mount_commit"}
WipeSteps == {"wipe0", "wipe1"}
Steps == StreamSteps \cup MountSteps \cup WipeSteps \cup {"user_pass"}

TypeOK ==
    /\ flash \in [Slots -> Images]
    /\ mounted \in Slots \cup {NoSlot}
    /\ candidate \in Slots \cup {NoSlot}
    /\ pin \in Slots \cup {NoSlot}
    /\ stream \in [slot : Slots \cup {NoSlot}, gen : 0 .. MaxGen]
    /\ rt \in Runtimes
    /\ tier \in {"user", "library"}
    /\ pc \in Steps \cup {"off", "idle"}
    /\ cmd \in Commands
    /\ reply \in {"none", "ok", "err"}

\* A board that is new, or updated from another release, or that holds one
\* saved program, which this firmware may be unable to decode.
Init ==
    /\ \/ flash \in [Slots -> {Empty, OtherRelease}]
       \/ \E p \in Programs, loads \in BOOLEAN :
            flash = [s \in Slots |->
                IF s = 0 THEN [Image(1, p) EXCEPT !.loads = loads] ELSE Empty]
    /\ mounted = NoSlot /\ candidate = NoSlot /\ pin = NoSlot
    /\ stream = NoStream /\ rt = BaseRuntime /\ tier = "user"
    /\ pc = "off" /\ cmd = NoCommand /\ reply = "none"

(***************************************************************************)
(* Edits at the prompt, which change only RAM.                             *)
(***************************************************************************)
Idle == pc = "idle"

Edit(r) ==
    /\ rt' = r /\ reply' = "none" /\ cmd' = NoCommand
    /\ UNCHANGED <<flash, mounted, candidate, pin, stream, tier, pc>>

DefineUserWord(w, d) ==
    /\ Idle /\ tier = "user"
    /\ Edit([rt EXCEPT !.user[w] = d])

Clear == Idle /\ Edit(ClearProject(rt))

InstallUser ==
    /\ Idle /\ tier' = "user" /\ reply' = "none" /\ cmd' = NoCommand
    /\ UNCHANGED <<flash, mounted, candidate, pin, stream, rt, pc>>

(***************************************************************************)
(* The end of a command.                                                   *)
(***************************************************************************)
Return(answer) ==
    /\ pc' = "idle" /\ reply' = answer /\ UNCHANGED cmd
    /\ tier' = IF cmd.op = "install_library" /\ answer = "ok" THEN "library"
               ELSE tier

\* The mount loop returns to its caller: boot goes on to its second pass; a
\* save whose newest image did not mount runs the ordinary loop once more,
\* and answers its own error whatever that loop does.
LoopReturns(ok) ==
    IF cmd.op = "boot"
      THEN /\ pc' = "user_pass" /\ UNCHANGED <<cmd, reply, tier>>
      ELSE IF cmd.op \in Saves /\ cmd.latest /\ ~ok
        THEN /\ pc' = "mount" /\ UNCHANGED <<reply, tier>>
             /\ cmd' = [cmd EXCEPT !.latest = FALSE, !.index = 0, !.failed = TRUE]
        ELSE Return(IF ok /\ ~cmd.failed THEN "ok" ELSE "err")

(***************************************************************************)
(* Committing an image.                                                    *)
(***************************************************************************)
\* Mutant: the payload pointer of the boot is not forgotten.
StartCommitKeepsPin(op, r) ==
    /\ CommitGen(flash) <= MaxGen
    /\ pc' = "begin" /\ cmd' = Command(op) /\ reply' = "none"
    /\ rt' = r
    /\ UNCHANGED <<flash, mounted, candidate, pin, stream, tier>>

StartCommit(op, r) ==
    /\ CommitGen(flash) <= MaxGen   \* bound
    /\ pc' = "begin" /\ cmd' = Command(op) /\ reply' = "none"
    /\ rt' = r /\ pin' = NoSlot
    /\ UNCHANGED <<flash, mounted, candidate, stream, tier>>

\* A command refused before it changed anything: an event that does not
\* unregister, or a value that a save cannot store.
Refuse ==
    /\ reply' = "err" /\ cmd' = NoCommand
    /\ UNCHANGED <<flash, mounted, candidate, pin, stream, rt, tier, pc>>

Save == Idle /\ StartCommit("save", rt)
WipeUser ==
    Idle /\ (Refuse \/ StartCommit("wipe_user", WipeUserTier(rt)))
InstallLibrary ==
    Idle /\ (Refuse \/ StartCommit("install_library", WipeLibraryTier(rt)))
DefineLibraryWord(w, d) ==
    /\ Idle /\ tier = "library"
    /\ Refuse \/ StartCommit("library_def", [rt EXCEPT !.lib[w] = d])

\* Mutant: with nothing mounted the change of the command stays.
CommitFailedKeepsChange ==
    /\ stream' = NoStream
    /\ \/ /\ cmd.op = "save" \/ ~cmd.hadMount
          /\ Return("err") /\ UNCHANGED rt
       \/ /\ cmd.op # "save" /\ cmd.hadMount
          /\ pc' = "mount" /\ cmd' = [cmd EXCEPT !.failed = TRUE]
          /\ UNCHANGED <<rt, reply, tier>>
    /\ UNCHANGED <<mounted, candidate, pin>>

\* The commit failed.  A plain save keeps the runtime as it is; a command
\* that changed the runtime first goes back to an image, or, with nothing
\* mounted, to a cleared project.
CommitFailed ==
    /\ stream' = NoStream
    /\ \/ /\ cmd.op = "save"
          /\ Return("err") /\ UNCHANGED rt
       \/ /\ cmd.op # "save" /\ ~cmd.hadMount
          /\ Return("err") /\ rt' = ClearProject(rt)
       \/ /\ cmd.op # "save" /\ cmd.hadMount
          /\ pc' = "mount" /\ cmd' = [cmd EXCEPT !.failed = TRUE]
          /\ UNCHANGED <<rt, reply, tier>>
    /\ UNCHANGED <<mounted, candidate, pin>>

StreamBegin ==
    /\ pc = "begin"
    /\ \/ /\ \E f \in Seen(flash) :
                stream' = [slot |-> CommitSlot(f, mounted), gen |-> CommitGen(f)]
          /\ pc' = "erase"
          /\ UNCHANGED <<mounted, candidate, pin, rt, tier, cmd, reply>>
       \/ CommitFailed
    /\ UNCHANGED flash

SetSlot(s, image) == flash' = [flash EXCEPT ![s] = image]

\* What an erase that stops half-way leaves.
HalfErased(s) == {flash[s], Empty, Corrupt}

StreamErase ==
    /\ pc = "erase"
    /\ \/ /\ SetSlot(stream.slot, Empty)
          /\ pc' = "write"
          /\ UNCHANGED ram
       \/ /\ \E image \in HalfErased(stream.slot) : SetSlot(stream.slot, image)
          /\ CommitFailed

\* The library records a save keeps are those of the mounted image.
KeptLib == IF mounted \in Slots THEN flash[mounted].program.lib ELSE NoLib

\* What the encoder may write.  A stale word has no code to encode, or the
\* code another image has under the same id.
Payload(uw) ==
    [lib |-> IF cmd.op \in FullSaves THEN rt.lib ELSE KeptLib, user |-> uw]
Encodable ==
    \/ rt.table # NoProgram
    \/ StaleUser(rt) = {} /\ (cmd.op \in FullSaves => StaleLib(rt) = {})
EncodedUser ==
    {uw \in UserLayers : \A w \in UserWords :
        \/ uw[w] = rt.user[w]
        \/ w \in StaleUser(rt) /\ rt.user[w] = rt.userBase[w] /\ uw[w] # None}

\* The payload goes out first: the header is still erased, so the slot reads
\* as empty whatever has been written.
StreamWrite ==
    /\ pc = "write"
    /\ \/ /\ Encodable
          /\ \E uw \in EncodedUser : cmd' = [cmd EXCEPT !.want = Payload(uw)]
          /\ pc' = "header"
          /\ UNCHANGED <<mounted, candidate, pin, stream, rt, tier, reply>>
       \/ CommitFailed
    /\ UNCHANGED flash

NewImage == Image(stream.gen, cmd.want)

\* The header goes last and is the commit.  Its failure has an unknown
\* result: nothing, a torn header, or the whole image.
StreamFinalize ==
    /\ pc = "header"
    /\ \/ /\ \/ SetSlot(stream.slot, NewImage)
             \/ BadFlash /\ ~Verify /\ SetSlot(stream.slot, Corrupt)
          /\ pc' = "mount" /\ stream' = NoStream
          /\ UNCHANGED <<mounted, candidate, pin, rt, tier, cmd, reply>>
       \/ /\ \E image \in {Empty, Corrupt, NewImage} : SetSlot(stream.slot, image)
          /\ CommitFailed

(***************************************************************************)
(* Mounting an image: map it, apply its payload to the runtime, make the   *)
(* mapping the active one; on a failure go to the next older image.        *)
(***************************************************************************)
Restore ==
    /\ Idle /\ pin' = NoSlot
    /\ cmd' = Command("restore")
    /\ \/ pc' = "mount" /\ reply' = "none"
       \/ pc' = "idle" /\ reply' = "err"    \* BLE cleanup failed
    /\ UNCHANGED <<flash, mounted, candidate, stream, rt, tier>>

ResetOnMiss == cmd.op # "restore"

Missed ==
    /\ rt' = IF ResetOnMiss THEN ClearProject(rt) ELSE rt
    /\ LoopReturns(FALSE)
    /\ candidate' = NoSlot
    /\ UNCHANGED <<mounted, pin, stream>>

Mount ==
    /\ pc = "mount"
    /\ \E f \in Seen(flash) :
       \/ /\ ReadVerdict(f, cmd.index) = "ok"
          /\ candidate' = ReadSlot(f, cmd.index)
          /\ pc' = "apply"
          /\ UNCHANGED <<mounted, pin, stream, rt, tier, cmd, reply>>
       \/ \* no more images: the error of the last one, if there was one
          /\ ReadVerdict(f, cmd.index) = "not_found"
          /\ IF cmd.index = 0 THEN Missed
             ELSE /\ LoopReturns(FALSE)
                  /\ candidate' = NoSlot
                  /\ UNCHANGED <<mounted, pin, stream, rt>>
       \/ \* damage, another release, or the map failed
          Missed
    /\ UNCHANGED flash

\* Mutant: the loop tries the same candidate again.
ApplyFailedRetries(r) ==
    /\ rt' = CleanupFailedApply(r)
    /\ candidate' = NoSlot
    /\ IF cmd.latest THEN LoopReturns(FALSE)
       ELSE pc' = "mount" /\ UNCHANGED <<cmd, reply, tier>>

ApplyFailed(r) ==
    /\ rt' = CleanupFailedApply(r)
    /\ candidate' = NoSlot
    /\ IF cmd.latest THEN LoopReturns(FALSE)
       ELSE /\ pc' = "mount" /\ cmd' = [cmd EXCEPT !.index = @ + 1]
            /\ UNCHANGED <<reply, tier>>

Apply ==
    /\ pc = "apply"
    /\ LET image == flash[candidate] IN
       \/ /\ image.loads
          /\ rt' = Applied(rt, cmd.op, image.program)
          /\ pc' = "mount_commit"
          /\ UNCHANGED <<candidate, tier, cmd, reply>>
       \/ \E r \in FailedApplies(rt, cmd.op, image) : ApplyFailed(r)
    /\ UNCHANGED <<flash, mounted, pin, stream>>

MountCommit ==
    /\ pc = "mount_commit"
    /\ candidate' = NoSlot
    /\ \/ /\ mounted' = candidate
          /\ pin' = IF cmd.op = "boot" THEN candidate ELSE pin
          /\ LoopReturns(TRUE)
          /\ UNCHANGED rt
       \/ /\ rt' = CleanupFailedApply(rt)
          /\ LoopReturns(FALSE)
          /\ UNCHANGED <<mounted, pin>>
    /\ UNCHANGED <<flash, stream>>

(***************************************************************************)
(* Boot, safe boot, wipe, and the loss of power.                           *)
(***************************************************************************)
PowerOn ==
    /\ pc = "off" /\ pc' = "mount" /\ cmd' = Command("boot")
    /\ UNCHANGED <<flash, mounted, candidate, pin, stream, rt, tier, reply>>

SafeBoot ==
    /\ pc = "off" /\ pc' = "idle" /\ cmd' = Command("safe_boot")
    /\ UNCHANGED <<flash, mounted, candidate, pin, stream, rt, tier, reply>>

\* Mutant: the second pass reads the newest image again.
BootUserPassRereads ==
    /\ pc = "user_pass" /\ pc' = "idle"
    /\ \/ pin = NoSlot /\ reply' = "err" /\ UNCHANGED <<rt, pin>>
       \/ /\ pin # NoSlot
          /\ rt' = BindUser(rt, Durable(flash))
          /\ \/ reply' = "ok" /\ pin' = NoSlot
             \/ reply' = "err" /\ UNCHANGED pin
    /\ UNCHANGED <<flash, mounted, candidate, stream, tier, cmd>>

\* The second pass of a boot binds the user tier of the payload the first
\* pass pinned.  When the platform then refuses an event the binds stay.
BootUserPass ==
    /\ pc = "user_pass" /\ pc' = "idle"
    /\ \/ pin = NoSlot /\ reply' = "err" /\ UNCHANGED <<rt, pin>>
       \/ /\ pin # NoSlot
          /\ rt' = BindUser(rt, flash[pin].program)
          /\ \/ reply' = "ok" /\ pin' = NoSlot
             \/ reply' = "err" /\ UNCHANGED pin
    /\ UNCHANGED <<flash, mounted, candidate, stream, tier, cmd>>

Wipe ==
    /\ Idle /\ pc' = "wipe0" /\ cmd' = Command("wipe") /\ reply' = "none"
    /\ rt' = [ClearProject(rt) EXCEPT !.table = NoProgram]
    /\ mounted' = NoSlot /\ candidate' = NoSlot /\ pin' = NoSlot
    /\ UNCHANGED <<flash, stream, tier>>

WipeFails(s) ==
    /\ \E image \in HalfErased(s) : SetSlot(s, image)
    /\ Return("err")
    /\ UNCHANGED <<mounted, candidate, pin, stream, rt>>

\* One erase over both slots, in address order.
WipeErase(s) ==
    /\ pc = (IF s = 0 THEN "wipe0" ELSE "wipe1")
    /\ \/ /\ SetSlot(s, Empty)
          /\ IF s = 0
               THEN pc' = "wipe1" /\ UNCHANGED ram
               ELSE \* the host cannot restart: it installs the base image
                    \/ /\ rt' = BaseRuntime /\ tier' = "user"
                       /\ pc' = "idle" /\ reply' = "ok"
                       /\ UNCHANGED <<mounted, candidate, pin, stream, cmd>>
                    \/ /\ rt' = BaseRuntime /\ tier' = "user"
                       /\ pc' = "off" /\ reply' = "none" /\ cmd' = NoCommand
                       /\ UNCHANGED <<mounted, candidate, pin, stream>>
       \/ WipeFails(s)

\* The slot the power failure may catch in the middle of a change, and what
\* it can be left as.
TornSlots ==
    IF pc \in {"erase", "header"} THEN {stream.slot}
    ELSE IF pc = "wipe0" THEN {0} ELSE IF pc = "wipe1" THEN {1} ELSE {}
TornImages(s) ==
    IF pc = "header" THEN {Empty, Corrupt, NewImage} ELSE HalfErased(s)

PowerLoss ==
    /\ pc # "off" /\ pc' = "off"
    /\ IF TornSlots = {} THEN UNCHANGED flash
       ELSE \E s \in TornSlots : \E image \in TornImages(s) : SetSlot(s, image)
    /\ mounted' = NoSlot /\ candidate' = NoSlot /\ pin' = NoSlot
    /\ stream' = NoStream /\ rt' = BaseRuntime /\ tier' = "user"
    /\ cmd' = NoCommand /\ reply' = "none"

Prompt ==
    \/ \E w \in UserWords, d \in Defs : DefineUserWord(w, d)
    \/ \E w \in LibWords, d \in Defs : DefineLibraryWord(w, d)
    \/ Clear \/ InstallUser \/ Save \/ WipeUser \/ InstallLibrary
    \/ Restore \/ Wipe

\* A step of the running command.
Run ==
    \/ StreamBegin \/ StreamErase \/ StreamWrite \/ StreamFinalize
    \/ Mount \/ Apply \/ MountCommit \/ BootUserPass
    \/ \E s \in Slots : WipeErase(s)

Next == Prompt \/ Run \/ PowerOn \/ SafeBoot \/ PowerLoss

Spec == Init /\ [][Next]_vars

\* The prompt loop runs the command it has read to its end.
FairSpec == Spec /\ WF_vars(Run)

(***************************************************************************)
(* Properties.                                                             *)
(***************************************************************************)

\* The installed code is the code of the mounted image, and that image is
\* intact: frames, names and constants are read straight out of flash, so
\* code installed from any other bytes would run as garbage.
CodeMatchesImage ==
    /\ mounted \in Slots => Valid(flash, mounted) /\ flash[mounted].loads
    /\ rt.table # NoProgram /\ pc # "mount_commit"
        => mounted \in Slots /\ rt.table = flash[mounted].program

\* The payload pointer that the first boot pass keeps for the second one
\* points into the mounted image, whatever commands run in between.
PinIsMounted == pin \in Slots => pin = mounted

\* A boot that got through both passes took both tiers from one image, also
\* when it had to fall back to the older one.
BootIsOneImage ==
    pc = "idle" /\ cmd.op = "boot" /\ mounted \in Slots /\ pin = NoSlot
    /\ reply = "ok"
    => LET p == flash[mounted].program IN
       /\ \A w \in LibWords : p.lib[w] # None => rt.lib[w] = p.lib[w]
       /\ \A w \in UserWords : p.user[w] # None => rt.user[w] = p.user[w]

\* A save that answers ok has its image on flash as the newest one, and the
\* runtime runs from that image and from no older one.
SaveAnswersOk ==
    pc = "idle" /\ cmd.op \in Saves /\ reply = "ok"
    => /\ mounted \in Slots /\ mounted = NewestSlot(flash)
       /\ flash[mounted].program = cmd.want
       /\ rt.table = cmd.want
       /\ \A w \in LibWords : cmd.want.lib[w] # None => rt.lib[w] = cmd.want.lib[w]
       /\ \A w \in UserWords : cmd.want.user[w] # None => rt.user[w] = cmd.want.user[w]

\* A command that changed the runtime before its save and then failed leaves
\* none of that change, nor any other unsaved definition, behind.
FailedSaveDropsEdits ==
    pc = "idle" /\ cmd.op \in AtOnce /\ reply = "err"
    => rt.user = rt.userBase /\ rt.lib = rt.libBase

\* No step writes to the slot the runtime is mounted on; a wipe unmounts
\* it first.
MountedNeverWritten ==
    [][(mounted \in Slots) => flash'[mounted] = flash[mounted]]_vars

\* Every command comes to its end, whichever of its steps fail and whatever
\* images it meets: the mount loop always runs out of candidates.
CommandEnds == (pc \in Steps) ~> (pc \in {"idle", "off"})

\* The two slots implement the store of programs.
OlderProgram(f) ==
    IF BothValid(f) THEN f[1 - NewestSlot(f)].program ELSE NoProgram
Store == INSTANCE ProgramStore WITH
    newest <- Durable(flash),
    older <- OlderProgram(flash),
    inUse <- IF mounted \in Slots THEN flash[mounted].program ELSE NoProgram,
    wiping <- pc \in WipeSteps
ImplementsStore == Store!Spec

=============================================================================
