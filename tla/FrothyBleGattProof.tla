------------------------- MODULE FrothyBleGattProof -------------------------
(***************************************************************************)
(* What TLAPS proves of FrothyBleGatt, so of the whole Bluetooth driver,   *)
(* for every build, queue and number of connections: nothing of a          *)
(* connection that is gone reaches the one after it, what is busy is owed  *)
(* an answer, every queue hands out in order, and the driver does nothing  *)
(* to the radio that FrothyBleRadio does not, so the radio keeps its       *)
(* promise under it; and between two operations the driver and the         *)
(* controller agree on who scans, advertises and is linked.                *)
(*                                                                         *)
(* `Whole` is the inductive invariant: that of FrothyBleStepsProof, the    *)
(* radio's own with the driver's call seen as the radio sees it, and the   *)
(* order of the queues.  The two need each other: only a stopped host      *)
(* loses its link unheard, and only a ready radio is asked for anything.   *)
(* `Agreed` strengthens it with how far the two sides may differ while an  *)
(* operation is under way: UseInv of the scan and the advertisement,       *)
(* SlotInv of the connection, SizeInv of the queues.                       *)
(***************************************************************************)
EXTENDS FrothyBleStepsProof

-----------------------------------------------------------------------------
(* The radio under it: what the calls of FrothyBleGatt are to the radio is   *)
(* the call of the radio they contain, if they are in one.                   *)

Seen(f) == [op |-> IF f.op = "clear" THEN "off" ELSE f.op, at |-> f.at, gen |-> f.gen, stay |-> f.stay]
RadioCall == IF fg.at \in RadioPhases THEN Seen(fg) ELSE Idle
R == INSTANCE FrothyBleRadioProof WITH fg <- RadioCall

InRadio == fg \in CallT /\ fg.at \in RadioPhases

LEMMA SeenAt == ASSUME InRadio PROVE R!At(fg.at) /\ RadioCall = Seen(fg) /\ RadioCall.stay = fg.stay
                                    /\ RadioCall.gen = fg.gen /\ (RadioCall.op = "on" <=> fg.op = "on")
  BY DEF InRadio, R!At, RadioCall, Seen, CallT, Ops

LEMMA SeenGo == ASSUME InRadio, NEW p \in RadioPhases, Go(p) PROVE R!Go(p)
<1>1. fg'.at = p /\ fg'.op = fg.op /\ fg'.gen = fg.gen /\ fg'.stay = fg.stay BY DEF InRadio, Go, CallT
<1>2. RadioCall' = Seen(fg') BY <1>1 DEF RadioCall
<1>3. [Seen(fg) EXCEPT !.at = p] = Seen(fg') BY <1>1 DEF Seen
<1> QED BY <1>2, <1>3, SeenAt DEF R!Go

LEMMA SeenNumber ==
  ASSUME InRadio, NEW p \in RadioPhases, NEW g \in Nat, fg' = [fg EXCEPT !.at = p, !.gen = g]
  PROVE  RadioCall' = [RadioCall EXCEPT !.at = p, !.gen = g]
<1>1. fg'.at = p /\ fg'.op = fg.op /\ fg'.gen = g /\ fg'.stay = fg.stay BY DEF InRadio, CallT
<1>2. RadioCall' = Seen(fg') BY <1>1 DEF RadioCall
<1> DEFINE s == [op |-> IF fg.op = "clear" THEN "off" ELSE fg.op, at |-> p, gen |-> fg.gen, stay |-> fg.stay]
<1>3. [Seen(fg) EXCEPT !.at = p] = s BY DEF Seen
<1>4. [s EXCEPT !.gen = g] = Seen(fg') BY <1>1 DEF Seen
<1> HIDE DEF s
<1> QED BY <1>2, <1>3, <1>4, SeenAt

LEMMA SeenLeave == ASSUME InRadio, CleanAndLeave PROVE R!CleanAndLeave
<1>1. fg'.at = "clean" /\ fg'.op = fg.op /\ fg'.gen = fg.gen /\ fg'.stay = FALSE
  BY DEF InRadio, CleanAndLeave, CallT
<1>2. RadioCall' = Seen(fg') BY <1>1 DEF RadioCall, RadioPhases
<1> DEFINE s == [op |-> IF fg.op = "clear" THEN "off" ELSE fg.op, at |-> "clean", gen |-> fg.gen, stay |-> fg.stay]
<1>3. [Seen(fg) EXCEPT !.at = "clean"] = s BY DEF Seen
<1>4. ASSUME NEW w PROVE [s EXCEPT !.stay = w] = [op |-> s.op, at |-> s.at, gen |-> s.gen, stay |-> w] OBVIOUS
<1>5. Seen(fg') = [op |-> s.op, at |-> s.at, gen |-> s.gen, stay |-> FALSE] BY <1>1 DEF Seen
<1> HIDE DEF s
<1> QED BY <1>2, <1>3, <1>4, <1>5, SeenAt DEF R!CleanAndLeave

LEMMA SeenAnswer == ASSUME Answer PROVE R!Answer
  BY DEF Answer, R!Answer, RadioCall, RadioPhases, Idle, R!Idle

LEMMA SeenBegin ==
  ASSUME NEW op \in {"on", "off"}, NEW p \in RadioPhases, Begin(op, p) PROVE R!Begin(op, p)
  BY DEF Begin, R!Begin, RadioCall, Seen

LEMMA SeenCleaning == ASSUME InRadio, Cleaning PROVE R!Cleaning
<1>1. "wait" \in RadioPhases BY DEF RadioPhases
<1> QED BY <1>1, SeenAt, SeenGo, SeenAnswer DEF Cleaning, R!Cleaning

LEMMA SeenIdle == ASSUME fg.at \notin RadioPhases PROVE RadioCall = Idle /\ R!At("idle")
  BY DEF RadioCall, R!At, Idle

RadioFlags == UNCHANGED <<flags, stack, worker>>

\* A step of the driver that is none of the radio's.
LEMMA NotRadio ==
  ASSUME fg.at \notin RadioPhases, fg'.at \notin RadioPhases, RadioFlags
  PROVE  UNCHANGED R!rvars
  BY DEF RadioFlags, R!rvars, R!flags, R!stack, flags, stack, RadioCall

LEMMA SeenOnCheck == ASSUME fg \in CallT, OnCheck PROVE R!OnCheck
<1>1. R!At(fg.at)
  <2>1. CASE fg.at = "idle" BY <2>1, SeenIdle DEF RadioPhases
  <2>2. CASE fg.at = "on.check" BY <2>2, SeenAt DEF InRadio, RadioPhases
  <2> QED BY <2>1, <2>2 DEF OnCheck, At
<1>2. "clean" \in RadioPhases /\ "on.start" \in RadioPhases /\ "on" \in {"on", "off"} BY DEF RadioPhases
<1> QED BY <1>1, <1>2, SeenAnswer, SeenBegin DEF OnCheck, At, R!OnCheck, flags, stack, R!flags, R!stack

LEMMA SeenOff == ASSUME fg \in CallT, Off PROVE R!Off
<1>1. R!At("idle") BY SeenIdle DEF Off, At, RadioPhases
<1>2. "clean" \in RadioPhases /\ "off" \in {"on", "off"} BY DEF RadioPhases
<1> QED BY <1>1, <1>2, SeenBegin DEF Off, R!Off, flags, stack, R!flags, R!stack

LEMMA SeenOnStart == ASSUME fg \in CallT, OnStart, life \in Nat PROVE R!OnStart
<1>1. InRadio /\ fg.at = "on.start" BY DEF OnStart, At, InRadio, RadioPhases
<1>2. "on.init" \in RadioPhases /\ life + 1 \in Nat BY DEF RadioPhases
<1>3. RadioCall' = [RadioCall EXCEPT !.at = "on.init", !.gen = life + 1] BY <1>1, <1>2, SeenNumber DEF OnStart
<1>4. R!At("on.start") BY <1>1, SeenAt
<1> QED BY <1>3, <1>4 DEF OnStart, R!OnStart, stack, R!stack

LEMMA SeenOnPortInit == ASSUME fg \in CallT, OnPortInit PROVE R!OnPortInit
<1>1. InRadio /\ fg.at = "on.init" BY DEF OnPortInit, At, InRadio, RadioPhases
<1>2. "on.register" \in RadioPhases BY DEF RadioPhases
<1> QED BY <1>1, <1>2, SeenAt, SeenGo DEF OnPortInit, R!OnPortInit, flags, stack, R!flags, R!stack

LEMMA SeenOnPortInitFails == ASSUME fg \in CallT, OnPortInitFails PROVE R!OnPortInitFails
<1>1. InRadio /\ fg.at = "on.init" BY DEF OnPortInitFails, At, InRadio, RadioPhases
<1> QED BY <1>1, SeenAt, SeenAnswer DEF OnPortInitFails, R!OnPortInitFails, flags, stack, R!flags, R!stack

LEMMA SeenOnRegister == ASSUME fg \in CallT, OnRegister PROVE R!OnRegister
<1>1. InRadio /\ fg.at = "on.register" BY DEF OnRegister, At, InRadio, RadioPhases
<1>2. "on.create" \in RadioPhases BY DEF RadioPhases
<1> QED BY <1>1, <1>2, SeenAt, SeenGo DEF OnRegister, R!OnRegister, flags, stack, R!flags, R!stack

LEMMA SeenOnRegisterFails == ASSUME fg \in CallT, OnRegisterFails PROVE R!OnRegisterFails
<1>1. InRadio /\ fg.at = "on.register" BY DEF OnRegisterFails, At, InRadio, RadioPhases
<1> QED BY <1>1, SeenAt, SeenAnswer
    DEF OnRegisterFails, R!OnRegisterFails, flags, stack, R!flags, R!stack, FailOwing, R!FailOwing, MarkOff,
        R!MarkOff

LEMMA SeenOnCreateHost == ASSUME fg \in CallT, OnCreateHost PROVE R!OnCreateHost
<1>1. InRadio /\ fg.at = "on.create" BY DEF OnCreateHost, At, InRadio, RadioPhases
<1>2. "on.created" \in RadioPhases BY DEF RadioPhases
<1> QED BY <1>1, <1>2, SeenAt, SeenGo DEF OnCreateHost, R!OnCreateHost, flags, stack, R!flags, R!stack

LEMMA SeenOnHostCreated == ASSUME fg \in CallT, OnHostCreated PROVE R!OnHostCreated
<1>1. InRadio /\ fg.at = "on.created" BY DEF OnHostCreated, At, InRadio, RadioPhases
<1>2. "on.wait" \in RadioPhases BY DEF RadioPhases
<1> QED BY <1>1, <1>2, SeenAt, SeenGo DEF OnHostCreated, R!OnHostCreated, flags, stack, R!flags, R!stack

LEMMA SeenOnCreateHostFails == ASSUME fg \in CallT, OnCreateHostFails PROVE R!OnCreateHostFails
<1>1. InRadio /\ fg.at = "on.create" BY DEF OnCreateHostFails, At, InRadio, RadioPhases
<1>2. "on.undo" \in RadioPhases BY DEF RadioPhases
<1> QED BY <1>1, <1>2, SeenAt, SeenGo
    DEF OnCreateHostFails, R!OnCreateHostFails, flags, stack, R!flags, R!stack, FailOwing, R!FailOwing

LEMMA SeenOnUndoPort == ASSUME fg \in CallT, OnUndoPort PROVE R!OnUndoPort
<1>1. InRadio /\ fg.at = "on.undo" BY DEF OnUndoPort, At, InRadio, RadioPhases
<1> QED BY <1>1, SeenAt, SeenAnswer
    DEF OnUndoPort, R!OnUndoPort, flags, stack, R!flags, R!stack, FailOwing, R!FailOwing, MarkOff, R!MarkOff

LEMMA SeenOnWait == ASSUME fg \in CallT, OnWait PROVE R!OnWait
<1>1. InRadio /\ fg.at = "on.wait" BY DEF OnWait, At, InRadio, RadioPhases
<1> QED BY <1>1, SeenAt, SeenLeave, SeenAnswer DEF OnWait, R!OnWait, flags, stack, R!flags, R!stack

LEMMA SeenOnAbort == ASSUME fg \in CallT, OnAbort PROVE R!OnAbort
<1>1. InRadio /\ fg.at = "on.abort" BY DEF OnAbort, At, InRadio, RadioPhases
<1>2. "on.wait" \in RadioPhases BY DEF RadioPhases
<1> QED BY <1>1, <1>2, SeenAt, SeenLeave, SeenGo DEF OnAbort, R!OnAbort, flags, stack, R!flags, R!stack

LEMMA SeenOnGiveUp == ASSUME fg \in CallT, OnGiveUp PROVE R!OnGiveUp
<1>1. InRadio /\ fg.at = "on.wait" BY DEF OnGiveUp, At, InRadio, RadioPhases
<1>2. "on.abort" \in RadioPhases BY DEF RadioPhases
<1> QED BY <1>1, <1>2, SeenAt, SeenGo DEF OnGiveUp, R!OnGiveUp, flags, stack, R!flags, R!stack

LEMMA SeenBeginCleanup == ASSUME fg \in CallT, BeginCleanup PROVE R!BeginCleanup
<1>1. InRadio /\ fg.at = "clean" BY DEF BeginCleanup, At, InRadio, RadioPhases
<1> QED BY <1>1, SeenAt, SeenCleaning
    DEF BeginCleanup, R!BeginCleanup, flags, stack, R!flags, R!stack, MarkOff, R!MarkOff

LEMMA SeenTakeShutdown == ASSUME fg \in CallT, TakeShutdown, life \in Nat PROVE R!TakeShutdown
<1>1. InRadio /\ fg.at = "clean" BY DEF TakeShutdown, At, InRadio, RadioPhases
<1> DEFINE p == IF created THEN "queue" ELSE "spawn"
<1>2. p \in RadioPhases BY DEF RadioPhases
<1>3. RadioCall' = [RadioCall EXCEPT !.at = p, !.gen = life] BY <1>1, <1>2, SeenNumber DEF TakeShutdown
<1>4. R!At("clean") BY <1>1, SeenAt
<1> QED BY <1>3, <1>4 DEF TakeShutdown, R!TakeShutdown, stack, R!stack

LEMMA SeenQueueBarrier == ASSUME fg \in CallT, QueueBarrier PROVE R!QueueBarrier
<1>1. InRadio /\ fg.at = "queue" BY DEF QueueBarrier, At, InRadio, RadioPhases
<1> QED BY <1>1, SeenAt, SeenCleaning DEF QueueBarrier, R!QueueBarrier, flags, stack, R!flags, R!stack

LEMMA SeenStartWorker == ASSUME fg \in CallT, StartWorker PROVE R!StartWorker
<1>1. InRadio /\ fg.at = "spawn" BY DEF StartWorker, At, InRadio, RadioPhases
<1> QED BY <1>1, SeenAt, SeenCleaning, SeenAnswer
    DEF StartWorker, R!StartWorker, flags, stack, R!flags, R!stack, SpawnWorker, R!SpawnWorker, SpawnFails,
        R!SpawnFails, FailOwing, R!FailOwing

LEMMA SeenWaitCleanup == ASSUME fg \in CallT, WaitCleanup PROVE R!WaitCleanup
<1>1. InRadio /\ fg.at = "wait" BY DEF WaitCleanup, At, InRadio, RadioPhases
<1>2. "on.check" \in RadioPhases BY DEF RadioPhases
<1> QED BY <1>1, <1>2, SeenAt, SeenGo, SeenAnswer
        DEF WaitCleanup, R!WaitCleanup, flags, stack, R!flags, R!stack

LEMMA SeenHostEnter == ASSUME HostEnter PROVE R!HostEnter
<1>1. fg' = fg BY DEF HostEnter
<1>2. RadioCall' = RadioCall BY <1>1 DEF RadioCall
<1> QED BY <1>2 DEF HostEnter, R!HostEnter, flags, stack, R!flags, R!stack

LEMMA SeenHostEnabled == ASSUME HostEnabled PROVE R!HostEnabled
<1>1. fg' = fg BY DEF HostEnabled
<1>2. RadioCall' = RadioCall BY <1>1 DEF RadioCall
<1> QED BY <1>2 DEF HostEnabled, R!HostEnabled, flags, stack, R!flags, R!stack

LEMMA SeenOnSync == ASSUME OnSync PROVE R!OnSync
<1>1. fg' = fg BY DEF OnSync, FailOwing, R!FailOwing
<1>2. RadioCall' = RadioCall BY <1>1 DEF RadioCall
<1> QED BY <1>2 DEF OnSync, R!OnSync, flags, stack, R!flags, R!stack, FailOwing, R!FailOwing

LEMMA SeenOnReset == ASSUME OnReset PROVE R!OnReset
<1>1. fg' = fg BY DEF OnReset
<1>2. RadioCall' = RadioCall BY <1>1 DEF RadioCall
<1> QED BY <1>2 DEF OnReset, R!OnReset, flags, stack, R!flags, R!stack

LEMMA SeenRunBarrier == ASSUME RunBarrier PROVE R!RunBarrier
<1>1. fg' = fg BY DEF RunBarrier, SpawnWorker, R!SpawnWorker, SpawnFails, R!SpawnFails, FailOwing, R!FailOwing
<1>2. RadioCall' = RadioCall BY <1>1 DEF RadioCall
<1> QED BY <1>2
    DEF RunBarrier, R!RunBarrier, flags, stack, R!flags, R!stack, SpawnWorker, R!SpawnWorker, SpawnFails,
        R!SpawnFails, FailOwing, R!FailOwing

LEMMA SeenHostLeave == ASSUME HostLeave PROVE R!HostLeave
<1>1. fg' = fg BY DEF HostLeave
<1>2. RadioCall' = RadioCall BY <1>1 DEF RadioCall
<1> QED BY <1>2 DEF HostLeave, R!HostLeave, flags, stack, R!flags, R!stack

LEMMA SeenWorkerBegin == ASSUME WorkerBegin PROVE R!WorkerBegin
<1>1. fg' = fg BY DEF WorkerBegin
<1>2. RadioCall' = RadioCall BY <1>1 DEF RadioCall
<1> QED BY <1>2 DEF WorkerBegin, R!WorkerBegin, flags, stack, R!flags, R!stack

LEMMA SeenWorkerStop == ASSUME WorkerStop PROVE R!WorkerStop
<1>1. fg' = fg BY DEF WorkerStop
<1>2. RadioCall' = RadioCall BY <1>1 DEF RadioCall
<1> QED BY <1>2 DEF WorkerStop, R!WorkerStop, flags, stack, R!flags, R!stack

LEMMA SeenWorkerDrain == ASSUME WorkerDrain PROVE R!WorkerDrain
<1>1. fg' = fg BY DEF WorkerDrain
<1>2. RadioCall' = RadioCall BY <1>1 DEF RadioCall
<1> QED BY <1>2 DEF WorkerDrain, R!WorkerDrain, flags, stack, R!flags, R!stack

LEMMA SeenWorkerDeinit == ASSUME WorkerDeinit PROVE R!WorkerDeinit
<1>1. fg' = fg BY DEF WorkerDeinit
<1>2. RadioCall' = RadioCall BY <1>1 DEF RadioCall
<1> QED BY <1>2 DEF WorkerDeinit, R!WorkerDeinit, flags, stack, R!flags, R!stack

LEMMA SeenWorkerFinish == ASSUME WorkerFinish PROVE R!WorkerFinish
<1>1. fg' = fg BY DEF WorkerFinish, FailOwing, R!FailOwing, MarkOff, R!MarkOff, NoWorker, R!NoWorker
<1>2. RadioCall' = RadioCall BY <1>1 DEF RadioCall
<1> QED BY <1>2
    DEF WorkerFinish, R!WorkerFinish, flags, stack, R!flags, R!stack, FailOwing, R!FailOwing, MarkOff,
        R!MarkOff, NoWorker, R!NoWorker

-----------------------------------------------------------------------------
(* The radio's own steps *)

\* Where a request of the client is on its way.
Asking == {"cli.call", "cli.wait", "cli.next"}
\* A request was made with the radio ready, and nobody stops it meanwhile.
Asked == fg.at \in Asking => ~shut

\* The call stays where it is, or goes through the radio's phases.
RadioPlace(p) == p \in RadioPhases \cup {"idle"}
RadioMoves ==
  \/ fg' = fg /\ (shut' => shut)
  \/ RadioPlace(fg.at) /\ fg' \in CallT /\ RadioPlace(fg'.at)
\* The host leaves or is made anew only when nothing of it is left.
HostMoves ==
  \/ host' = host
  \/ host' = "running"
  \/ host # "running"
  \/ cb = NoCb /\ nim.link.id = 0 /\ nim.conn = 0

LEMMA GoPlace ==
  ASSUME fg \in CallT, NEW p \in RadioPhases, Go(p) PROVE fg' \in CallT /\ fg'.at = p
  BY DEF Go, CallT
LEMMA LeavePlace == ASSUME fg \in CallT, CleanAndLeave PROVE fg' \in CallT /\ fg'.at = "clean"
  BY DEF CleanAndLeave, CallT, RadioPhases
LEMMA NumberPlace ==
  ASSUME fg \in CallT, NEW p \in RadioPhases, NEW g \in Nat, fg' = [fg EXCEPT !.at = p, !.gen = g]
  PROVE  fg' \in CallT /\ fg'.at = p
  BY DEF CallT
LEMMA AnswerPlace == ASSUME Answer PROVE fg' \in CallT /\ fg'.at = "idle"
  BY DEF Answer, Idle, CallT, Ops, GattPhases
LEMMA BeginPlace ==
  ASSUME NEW op \in {"on", "off"}, NEW p \in RadioPhases, Begin(op, p) PROVE fg' \in CallT /\ fg'.at = p
  BY DEF Begin, CallT, Ops
LEMMA CleaningPlace == ASSUME fg \in CallT, Cleaning PROVE fg' \in CallT /\ fg'.at \in {"wait", "idle"}
<1>1. "wait" \in RadioPhases BY DEF RadioPhases
<1> QED BY <1>1, GoPlace, AnswerPlace DEF Cleaning

LEMMA OnStepsMove == ASSUME fg \in CallT, life \in Nat, OnCheck \/ OnSteps PROVE RadioMoves
<1>1. CASE OnCheck
  <2>1. "clean" \in RadioPhases /\ "on.start" \in RadioPhases /\ "on" \in {"on", "off"} /\ "on.check" \in RadioPhases
    BY DEF RadioPhases
  <2> QED BY <1>1, <2>1, AnswerPlace, BeginPlace DEF OnCheck, At, RadioMoves, RadioPlace
<1>2. CASE OnStart
  <2>1. "on.init" \in RadioPhases /\ "on.start" \in RadioPhases /\ life + 1 \in Nat BY DEF RadioPhases
  <2> QED BY <1>2, <2>1, NumberPlace DEF OnStart, At, RadioMoves, RadioPlace
<1>3. CASE OnPortInit \/ OnPortInitFails
  <2>1. "on.register" \in RadioPhases /\ "on.init" \in RadioPhases BY DEF RadioPhases
  <2> QED BY <1>3, <2>1, GoPlace, AnswerPlace DEF OnPortInit, OnPortInitFails, At, RadioMoves, RadioPlace
<1>4. CASE OnRegister \/ OnRegisterFails
  <2>1. "on.register" \in RadioPhases /\ "on.create" \in RadioPhases BY DEF RadioPhases
  <2> QED BY <1>4, <2>1, GoPlace, AnswerPlace DEF OnRegister, OnRegisterFails, At, RadioMoves, RadioPlace
<1>5. CASE OnCreateHost \/ OnHostCreated \/ OnCreateHostFails \/ OnUndoPort
  <2>1. {"on.create", "on.created", "on.wait", "on.undo"} \subseteq RadioPhases BY DEF RadioPhases
  <2> QED BY <1>5, <2>1, GoPlace, AnswerPlace
      DEF OnCreateHost, OnHostCreated, OnCreateHostFails, OnUndoPort, At, RadioMoves, RadioPlace
<1>6. CASE OnWait \/ OnGiveUp \/ OnAbort
  <2>1. {"on.wait", "on.abort", "clean"} \subseteq RadioPhases BY DEF RadioPhases
  <2> QED BY <1>6, <2>1, GoPlace, LeavePlace, AnswerPlace
      DEF OnWait, OnGiveUp, OnAbort, At, RadioMoves, RadioPlace
<1> QED BY <1>1, <1>2, <1>3, <1>4, <1>5, <1>6 DEF OnSteps

LEMMA CleanStepsMove == ASSUME fg \in CallT, life \in Nat, CleanSteps PROVE RadioMoves
<1>1. {"clean", "queue", "spawn", "wait", "on.check"} \subseteq RadioPhases BY DEF RadioPhases
<1>2. CASE BeginCleanup \/ QueueBarrier
  BY <1>1, <1>2, CleaningPlace DEF BeginCleanup, QueueBarrier, At, RadioMoves, RadioPlace
<1>3. CASE TakeShutdown
  <2> DEFINE p == IF created THEN "queue" ELSE "spawn"
  <2>1. p \in RadioPhases BY <1>1
  <2>2. fg' = [fg EXCEPT !.at = p, !.gen = life] /\ fg.at = "clean" BY <1>3 DEF TakeShutdown, At
  <2> HIDE DEF p
  <2> QED BY <1>1, <2>1, <2>2, NumberPlace DEF RadioMoves, RadioPlace
<1>4. CASE StartWorker
  BY <1>1, <1>4, CleaningPlace, AnswerPlace DEF StartWorker, At, RadioMoves, RadioPlace
<1>5. CASE WaitCleanup
  BY <1>1, <1>5, GoPlace, AnswerPlace DEF WaitCleanup, At, RadioMoves, RadioPlace
<1> QED BY <1>2, <1>3, <1>4, <1>5 DEF CleanSteps

LEMMA TasksMove ==
  ASSUME HostEnter \/ HostEnabled \/ OnSync \/ OnReset \/ RunBarrier \/ HostLeave \/ Worker
  PROVE  fg' = fg /\ (shut' => shut)
  BY DEF HostEnter, HostEnabled, OnSync, OnReset, RunBarrier, HostLeave, Worker, WorkerBegin, WorkerStop, WorkerDrain,
         WorkerDeinit, WorkerFinish, SpawnWorker, SpawnFails, FailOwing, MarkOff, flags, stack

\* Each of them moves the call in the radio only, and the host when it may.
LEMMA RadioStepsMove ==
  ASSUME Inv, R!IInv, RadioSteps
  PROVE  RadioMoves /\ HostMoves /\ UNCHANGED lvars
<1>1. fg \in CallT /\ life \in Nat BY DEF Inv, Types, R!IInv, R!Types
<1>2. UNCHANGED lvars BY DEF RadioSteps
<1>3. RadioMoves
  BY <1>1, OnStepsMove, CleanStepsMove, TasksMove DEF RadioSteps, OnSteps, CleanSteps, Worker, StopHost, RadioMoves
<1>4. HostMoves
  <2>1. CASE OnCreateHost
    <3>1. RadioCall.at = "on.create" BY <2>1 DEF OnCreateHost, At, RadioCall, Seen, RadioPhases
    <3>2. host = "none" BY <3>1 DEF R!IInv, R!StartTruth, R!Fresh
    <3> QED BY <3>2 DEF HostMoves
  <2>2. CASE cb = NoCb /\ StopHost
    BY <2>2 DEF StopHost, WorkerStop, HostMoves, LinkUp
  <2>3. CASE HostEnter
    BY <2>3 DEF HostEnter, HostMoves
  <2>4. CASE OnCheck \/ OnStart \/ OnPortInit \/ OnPortInitFails \/ OnRegister
             \/ OnHostCreated \/ OnCreateHostFails \/ OnWait \/ OnGiveUp \/ OnAbort
    BY <2>4 DEF HostMoves, OnCheck, OnStart, OnPortInit, OnPortInitFails, OnRegister, OnHostCreated,
         OnCreateHostFails, OnWait, OnGiveUp, OnAbort, stack
  <2>5. CASE QueueBarrier \/ StartWorker \/ WaitCleanup \/ WorkerBegin \/ WorkerDrain \/ WorkerDeinit
    BY <2>5 DEF HostMoves, QueueBarrier, StartWorker, WaitCleanup, WorkerBegin, WorkerDrain, WorkerDeinit, stack
  <2>6. CASE HostEnabled \/ OnSync \/ RunBarrier
    BY <2>6 DEF HostMoves, HostEnabled, OnSync, RunBarrier, stack
  <2> QED BY <2>1, <2>2, <2>3, <2>4, <2>5, <2>6 DEF RadioSteps
<1> QED BY <1>2, <1>3, <1>4

\* A move of the radio is aside of the connection.
LEMMA MoveIsAside ==
  ASSUME Inv, RadioMoves, HostMoves, UNCHANGED <<conn, notices, srv, cli, nim, cb>>,
         adv.st = "IDLE" => adv'.st = "IDLE"
  PROVE  fg' \in CallT /\ Aside
<1>0. fg \in CallT BY DEF Inv, Types
<1>1. fg' \in CallT BY <1>0 DEF RadioMoves
<1>2. NimKept BY DEF NimKept
<1>3. CbAside BY DEF CbAside
<1>4. HostAside
  <2>1. host # "running" => cb.kind = "none" /\ nim.link.id = 0 /\ nim.conn = 0 BY DEF Inv, LinkInv, LinkUp
  <2>2. cb = NoCb => cb.kind = "none" BY DEF NoCb
  <2> QED BY <2>1, <2>2 DEF HostMoves, HostAside
<1>5. CallAside
  <2>1. \A p : RadioPlace(p) => p \notin Excused /\ p \notin Bound
    BY DEF RadioPlace, RadioPhases, Excused, Bound, Holding, Closing, Clearing
  <2> QED BY <2>1 DEF RadioMoves, CallAside
<1> QED BY <1>1, <1>2, <1>3, <1>4, <1>5 DEF Aside

LEMMA MoveAsked == ASSUME Asked, RadioMoves PROVE Asked'
  BY DEF Asked, RadioMoves, RadioPlace, RadioPhases, Asking

LEMMA RadioStepsKeep ==
  ASSUME Inv, Asked, R!IInv, RadioSteps
  PROVE  Inv' /\ Asked' /\ QueuesQuiet
<1>1. RadioMoves /\ HostMoves /\ UNCHANGED lvars BY RadioStepsMove
<1>2. UNCHANGED <<roles, scan, adv, conn, notices, srv, cli, nim, cb, heard>> BY <1>1 DEF lvars, bleVars
<1>3. fg' \in CallT /\ Aside BY <1>1, <1>2, MoveIsAside
<1>4. Types' BY <1>2, <1>3 DEF Inv, Types
<1>5. QueuesQuiet BY <1>2 DEF QueuesQuiet, GattQuiet
<1> QED BY <1>1, <1>3, <1>4, <1>5, AsideKeeps, MoveAsked

LEMMA ShutdownKeeps ==
  ASSUME Inv, Asked, R!IInv, Shutdown
  PROVE  Inv' /\ Asked' /\ QueuesQuiet
<1>1. fg \in CallT /\ life \in Nat BY DEF Inv, Types, R!IInv, R!Types
<1>2. RadioMoves BY <1>1, CleanStepsMove DEF Shutdown, CleanSteps
<1>3. HostMoves BY DEF Shutdown, TakeShutdown, stack, HostMoves
<1>4. UNCHANGED <<roles, conn, notices, srv, cli, nim, cb, heard>> BY DEF Shutdown, KeepConn
<1>5. ScanNow("IDLE", scan'.gen, <<>>, 0) /\ AdvNow("IDLE", adv'.gen)
  BY AbandonedScan, AbandonedAdv DEF Inv, Shutdown
<1>6. fg' \in CallT /\ Aside BY <1>2, <1>3, <1>4, <1>5, MoveIsAside DEF AdvNow
<1>7. Types' BY <1>4, <1>5, <1>6 DEF Inv, Types, ScanNow, AdvNow
<1>8. QueuesQuiet BY <1>4, <1>5 DEF QueuesQuiet, GattQuiet, ScanNow
<1> QED BY <1>2, <1>6, <1>7, <1>8, AsideKeeps, MoveAsked

\* The host is gone: what NimBLE knew went with it, and it knew nothing.
LEMMA HostGoneKeeps ==
  ASSUME Inv, Asked, HostGone
  PROVE  Inv' /\ Asked' /\ QueuesQuiet
<1>0. ConnOk /\ IndOk /\ QueuesOk /\ ProcOk /\ NimOk /\ PlacesOk /\ UseOk
  BY TypesFlat DEF Inv
<1>1. host = "leaving" /\ host' = "none" /\ fg' = fg /\ shut' = shut BY DEF HostGone, HostLeave
<1>2. UNCHANGED <<roles, scan, adv, conn, notices, srv, cli, cb, heard>> BY DEF HostGone, bleVars
<1>3. NimNow(0, 0, 0, NoLink, nim.links, FALSE, 0, NoProc) BY NimForgets DEF HostGone, Inv, Types
<1>4. cb.kind = "none" /\ ~LinkUp /\ nim.conn = 0 BY <1>1 DEF Inv, LinkInv
<1>5. ~conn.h BY <1>4 DEF Inv, LinkInv
<1>6. nim'.link.id = 0 /\ nim'.link.cb = 0 /\ nim'.conn = 0 /\ nim'.ind = 0 /\ ~nim'.mtu /\ nim'.proc = NoProc
      /\ nim'.proc.stage = "none"
  BY <1>3, NothingAsked DEF NimNow
<1>7. Types' BY <1>1, <1>2, <1>3 DEF Inv, Types, NimNow
<1>8. CallInv' BY <1>1 DEF Inv, CallInv
<1>9. LinkInv' BY <1>0, <1>2, <1>4, <1>5, <1>6 DEF Inv, LinkInv, LinkUp, ConnOk
<1>10. PlaceInv' BY <1>0, <1>1, <1>2, <1>6 DEF Inv, PlaceInv, LinkInv
<1>11. SubInv' /\ DataInv' BY <1>2 DEF Inv, SubInv, DataInv
<1>12. IndInv' BY <1>1, <1>2, <1>5, <1>6 DEF Inv, IndInv, LinkUp
<1>13. ProcInv' BY <1>1, <1>2, <1>5, <1>6 DEF Inv, ProcInv, ProcA, ProcB, ProcC, LinkUp
<1>14. MtuInv' BY <1>2, <1>5, <1>6 DEF Inv, MtuInv, LinkUp
<1>15. Asked' BY <1>1 DEF Asked
<1>16. QueuesQuiet BY <1>2 DEF QueuesQuiet, GattQuiet
<1> QED BY <1>7, <1>8, <1>9, <1>10, <1>11, <1>12, <1>13, <1>14, <1>15, <1>16 DEF Inv

\* The radio is off only without a host, so without a connection.
LEMMA MayBeOffMoves ==
  ASSUME Inv, R!IInv, MayBeOff
  PROVE  /\ RadioMoves /\ host' = host /\ [R!Next]_R!rvars
         /\ fg.at \in Asking => RadioCall.at # "clean" /\ fg' = fg /\ worker.at # "none"
<1>1. fg \in CallT /\ life \in Nat BY DEF Inv, Types, R!IInv, R!Types
<1>2. OnRegisterFails \/ OnUndoPort \/ BeginCleanup \/ WorkerFinish BY DEF MayBeOff
<1>3. RadioMoves BY <1>1, <1>2, OnStepsMove, CleanStepsMove, TasksMove DEF OnSteps, CleanSteps, Worker, RadioMoves
<1>4. host' = host BY <1>2 DEF OnRegisterFails, OnUndoPort, BeginCleanup, WorkerFinish, stack
<1>5. [R!Next]_R!rvars
  BY <1>1, <1>2, SeenOnRegisterFails, SeenOnUndoPort, SeenBeginCleanup, SeenWorkerFinish
  DEF R!Next, R!OnSteps, R!CleanSteps, R!Worker
<1>6. ASSUME fg.at \in Asking
      PROVE  RadioCall.at # "clean" /\ fg' = fg /\ worker.at # "none"
  <2>1. RadioCall.at = "idle" BY <1>6 DEF RadioCall, Asking, RadioPhases, Idle
  <2>2. WorkerFinish BY <1>2, <1>6 DEF OnRegisterFails, OnUndoPort, BeginCleanup, At, Asking
  <2> QED BY <2>1, <2>2 DEF WorkerFinish
<1> QED BY <1>3, <1>4, <1>5, <1>6

LEMMA RadioOn == ASSUME R!IInv, [R!Next]_R!rvars PROVE R!IInv'
  BY R!NextKeeps, RadioAssumption DEF R!RadioAssumption

LEMMA MayBeOffKeeps ==
  ASSUME Inv, Asked, R!IInv, MayBeOff
  PROVE  Inv' /\ Asked' /\ QueuesQuiet
<1>0. ConnOk /\ IndOk /\ QueuesOk /\ ProcOk /\ NimOk /\ PlacesOk /\ UseOk
  BY TypesFlat DEF Inv
<1>1. RadioMoves /\ host' = host /\ [R!Next]_R!rvars BY MayBeOffMoves
<1>2. UNCHANGED <<roles, scan, adv, conn, notices, nim, cb, heard>> BY DEF MayBeOff
<1>3. fg' \in CallT BY <1>1 DEF Inv, Types, RadioMoves
<1>4. Asked' BY <1>1, MoveAsked
<1>5. CASE radio' # "OFF"
  <2>1. UNCHANGED <<srv, cli>> BY <1>5 DEF MayBeOff
  <2>2. Aside BY <1>1, <1>2, <2>1, MoveIsAside DEF HostMoves
  <2>3. Types' BY <1>2, <1>3, <2>1 DEF Inv, Types
  <2>4. QueuesQuiet BY <1>2, <2>1 DEF QueuesQuiet, GattQuiet
  <2> QED BY <1>4, <2>2, <2>3, <2>4, AsideKeeps
<1>6. CASE radio' = "OFF"
  <2>1. R!IInv' BY <1>1, RadioOn
  <2>2. host' = "none" BY <1>6, <2>1 DEF R!IInv, R!Types, R!HostTruth, R!RadioTruth
  <2>3. ~LinkUp /\ cb.kind = "none" BY <1>1, <2>2 DEF Inv, LinkInv
  <2>4. ~conn.h BY <2>3 DEF Inv, LinkInv
  <2>5. srv' = ServerRadioOff /\ cli' = ClientClear BY <1>6 DEF MayBeOff
  <2>6. SrvNow(NoSub, <<>>, NoWrite, srv'.ind) /\ IndKept(FALSE) BY <2>5, SrvRadioOff DEF Inv, Types
  <2>7. CliNow(Unknown, <<>>, NoWrite, cli'.proc) /\ ProcNow(FALSE, FALSE, FALSE, "none", 0, 0, cli'.proc.mode, 0)
    BY <2>5, CliClear
  <2>8. fg.at \notin Asking
    <3>1. worker.at # "none" => shut BY DEF R!IInv, R!ShutTruth
    <3> QED BY <3>1, MayBeOffMoves DEF Asked
  <2>9. fg' = fg \/ fg'.at \notin Bound \cup Excused
    BY <1>1 DEF RadioMoves, RadioPlace, RadioPhases, Bound, Excused, Holding, Closing, Clearing
  <2>10. Types' BY <1>2, <1>3, <2>6, <2>7 DEF Inv, Types, SrvNow, CliNow
  <2>11. CallInv'
    BY <2>9 DEF Inv, CallInv, Bound
  <2>12. LinkInv' BY <1>1, <1>2 DEF Inv, LinkInv, LinkUp
  <2>13. PlaceInv'
    <3>1. CASE fg' = fg BY <3>1, <1>2, <2>6, Constants DEF Inv, PlaceInv, SrvNow
    <3>2. CASE fg'.at \notin Bound \cup Excused BY <3>2 DEF PlaceInv, Bound, Clearing
    <3> QED BY <2>9, <3>1, <3>2
  <2>14. SubInv' BY <2>6, <2>7, Constants, ClearedClient DEF SubInv, SrvNow, CliNow
  <2>15. DataInv' BY <2>6, <2>7, Constants DEF DataInv, DataAt, SrvNow, CliNow
  <2>16. IndInv'
    <3>1. CASE fg' = fg BY <3>1, <1>2, <2>3, <2>4, <2>6 DEF Inv, IndInv, LinkUp, SrvNow, IndKept
    <3>2. CASE fg'.at \notin Bound \cup Excused BY <3>2, <1>2, <2>3, <2>4, <2>6
        DEF Inv, IndInv, LinkUp, SrvNow, IndKept, Excused
    <3> QED BY <2>9, <3>1, <3>2
  <2>17. fg'.at # "cli.call" BY <2>8, <2>9 DEF Asking, Excused
  <2>18. ProcInv' BY <1>0, <1>2, <2>3, <2>4, <2>7, <2>17
      DEF Inv, ProcInv, ProcA, ProcB, ProcC, LinkUp, ProcNow, ConnOk
  <2>19. MtuInv' BY <1>2, <2>3, <2>4 DEF Inv, MtuInv, LinkUp
  <2>20. QueuesQuiet BY <1>2, <2>6, <2>7 DEF QueuesQuiet, GattQuiet, SrvNow, CliNow
  <2> QED BY <1>4, <2>10, <2>11, <2>12, <2>13, <2>14, <2>15, <2>16, <2>18, <2>19, <2>20 DEF Inv
<1> QED BY <1>5, <1>6

\* A reset ends the connection as it stands: what the program holds becomes
\* disconnected, what it does not hold is freed, its own connect fails.
LEMMA ResetConn ==
  ASSUME Inv, Reset
  PROVE  /\ conn' \in ConnT /\ conn'.gen = conn.gen /\ ~conn'.h /\ ~conn'.mtu
         /\ \/ /\ conn'.st = "FREE"
               /\ conn.st \in {"FREE", "PENDING", "CLOSING"} \/ (conn.st = "CONNECTING" /\ conn.role = "peripheral")
            \/ conn.st = "LIVE" /\ conn'.st = "DISCONNECTED" /\ conn'.role = conn.role /\ conn'.link = conn.link
            \/ /\ conn.st \in {"CONNECTING", "DISCONNECTED"} /\ conn'.st = conn.st /\ conn'.role = conn.role
               /\ conn'.link = conn.link /\ (conn.st = "CONNECTING" => conn.role = "central")
         /\ conn.st = "FREE" => conn' = conn
         /\ conn' = conn \/ conn.st = "CONNECTING" => conn.st \in {"CONNECTING", "DISCONNECTED", "FREE"}
<1>0. ConnOk /\ conn \in ConnT BY TypesFlat DEF Inv, Types
<1>1. cb.kind = "none" BY DEF Reset, NoCb
<1>2. conn.st \in {"FREE", "DISCONNECTED"} => ~conn.h BY DEF Inv, LinkInv
<1>3. conn.mtu => conn.h BY DEF Inv, MtuInv
<1>4. CASE conn.st = "LIVE" /\ conn' = [conn EXCEPT !.st = "DISCONNECTED", !.h = FALSE, !.par = FALSE, !.mtu = FALSE]
  <2>1. ConnNow("DISCONNECTED", conn.role, conn.gen, FALSE, conn.ref, conn.done, FALSE, FALSE, conn.link)
    BY <1>0, <1>4, ConnDown
  <2> QED BY <1>4, <2>1 DEF ConnNow
<1>5. CASE /\ conn.st \in {"PENDING", "CLOSING"} \/ (conn.st = "CONNECTING" /\ conn.role = "peripheral")
           /\ conn' = FreeConn(conn.gen)
  <2>1. ConnNow("FREE", "none", conn.gen, FALSE, FALSE, FALSE, FALSE, FALSE, 0) BY <1>0, <1>5, ConnFree DEF ConnOk
  <2> QED BY <1>5, <2>1 DEF ConnNow
<1>6. CASE conn.st = "CONNECTING" /\ conn.role = "central" /\ conn' = [conn EXCEPT !.done = TRUE]
  <2>1. ConnNow(conn.st, conn.role, conn.gen, conn.h, conn.ref, TRUE, conn.mtu, conn.par, conn.link)
    BY <1>0, <1>6, ConnDone
  <2>2. ~conn.h BY <1>0, <1>6 DEF Inv, LinkInv, ConnOk
  <2> QED BY <1>3, <1>6, <2>1, <2>2 DEF ConnNow
<1>7. CASE conn.st \in {"DISCONNECTED", "FREE"} /\ conn' = conn
  BY <1>0, <1>2, <1>3, <1>7
<1> QED BY <1>4, <1>5, <1>6, <1>7 DEF Reset

LEMMA ResetKeeps ==
  ASSUME Inv, Asked, Reset
  PROVE  Inv' /\ Asked' /\ QueuesQuiet
<1>0. ConnOk /\ IndOk /\ QueuesOk /\ ProcOk /\ NimOk /\ PlacesOk /\ UseOk
  BY TypesFlat DEF Inv
<1>1. host = "running" /\ cb.kind = "none" BY DEF Reset, NoCb
<1>2. fg' = fg /\ host' = host /\ (shut' <=> shut) BY DEF Reset, OnReset, rvars, stack, flags
<1>3. UNCHANGED <<roles, notices, cb, heard>> BY DEF Reset
<1>4. ScanNow("IDLE", scan'.gen, <<>>, 0) /\ AdvNow("IDLE", adv'.gen)
  BY AbandonedScan, AbandonedAdv DEF Inv, Reset
<1>5. NimNow(0, 0, 0, NoLink, nim.links, FALSE, 0, NoProc) BY NimForgets DEF Reset, Inv, Types
<1>6. nim'.link.id = 0 /\ nim'.link.cb = 0 /\ nim'.conn = 0 /\ nim'.ind = 0 /\ ~nim'.mtu /\ nim'.proc = NoProc
      /\ nim'.proc.stage = "none"
  BY <1>5, NothingAsked DEF NimNow
<1>7. SrvNow(NoSub, <<>>, NoWrite, srv'.ind) /\ IndKept(FALSE) BY SrvRadioOff DEF Reset, Inv, Types
<1>8. /\ conn' \in ConnT /\ conn'.gen = conn.gen /\ ~conn'.h /\ ~conn'.mtu
      /\ \/ /\ conn'.st = "FREE"
            /\ conn.st \in {"FREE", "PENDING", "CLOSING"} \/ (conn.st = "CONNECTING" /\ conn.role = "peripheral")
         \/ conn.st = "LIVE" /\ conn'.st = "DISCONNECTED" /\ conn'.role = conn.role /\ conn'.link = conn.link
         \/ /\ conn.st \in {"CONNECTING", "DISCONNECTED"} /\ conn'.st = conn.st /\ conn'.role = conn.role
            /\ conn'.link = conn.link /\ (conn.st = "CONNECTING" => conn.role = "central")
      /\ conn.st = "FREE" => conn' = conn
  BY ResetConn
<1>9. conn' = conn \/ conn.st = "CONNECTING" => conn.st \in {"CONNECTING", "DISCONNECTED", "FREE"} BY ResetConn
<1>10. /\ CliNow(cli'.entry, cli.q, cli.cur, cli'.proc) /\ ~cli'.entry.valid
       /\ cli'.proc.stage = cli.proc.stage /\ cli'.proc.gen = cli.proc.gen /\ cli'.proc.id = cli.proc.id
       /\ cli'.proc.answer = cli.proc.answer /\ (cli'.proc.abandoned <=> cli.proc.abandoned)
       /\ (cli'.proc.complete <=> cli.proc.complete)
       /\ cli'.proc.pending => cli.proc.pending /\ fg.at \in {"clear.server", "clear.client"} /\ cli.proc.gen # conn.gen
  <2>1. CASE conn' = conn \/ conn.st = "CONNECTING"
    <3>1. cli' = cli BY <2>1 DEF Reset
    <3>2. conn.st \notin {"LIVE", "CLOSING"} BY <1>9, <2>1
    <3>3. ~cli.entry.valid BY <3>2 DEF Inv, SubInv
    <3>4. cli.proc.pending => fg.at \in {"clear.server", "clear.client"} /\ cli.proc.gen # conn.gen
      BY <3>2 DEF Inv, ProcInv, ProcC
    <3> QED BY <3>1, <3>3, <3>4 DEF CliNow, Inv, Types
  <2>2. CASE ~(conn' = conn \/ conn.st = "CONNECTING")
    <3>1. cli' = ClientClosed(conn.gen) BY <2>2 DEF Reset
    <3>2. /\ CliNow(Unknown, cli.q, cli.cur, cli'.proc)
          /\ ProcNow(cli.proc.pending /\ cli.proc.gen # conn.gen, cli.proc.abandoned, cli.proc.complete, cli.proc.stage,
                     cli.proc.gen, cli.proc.id, cli.proc.mode, cli.proc.answer)
      BY <1>0, <3>1, CliClosed DEF Inv, Types, ConnOk
    <3>3. cli.proc.pending /\ cli.proc.gen # conn.gen => fg.at \in {"clear.server", "clear.client"}
      BY DEF Inv, ProcInv, ProcC
    <3> QED BY <3>2, <3>3, ClearedClient DEF CliNow, ProcNow
  <2> QED BY <2>1, <2>2
<1>11. Types' BY <1>2, <1>3, <1>4, <1>5, <1>7, <1>8, <1>10 DEF Inv, Types, ScanNow, AdvNow, NimNow, SrvNow, CliNow
<1>12. CallInv' BY <1>2 DEF Inv, CallInv
<1>13. LinkInv' BY <1>0, <1>1, <1>2, <1>3, <1>6, <1>8 DEF Inv, LinkInv, LinkUp, ConnOk
<1>14. PlaceInv'
  <2>1. adv'.st = "IDLE" BY <1>4 DEF AdvNow
  <2>2. srv'.sub = ServerOff.sub /\ srv'.q = <<>> BY <1>7, Constants DEF SrvNow
  <2>3. conn.st # "FREE" => conn.gen # 0 BY DEF Inv, LinkInv
  <2>4. notices' = notices BY <1>3
  <2>5. CASE conn.st = "FREE"
    <3>1. conn' = conn BY <1>8, <2>5
    <3> QED BY <1>2, <1>6, <2>1, <2>2, <2>4, <2>5, <3>1 DEF Inv, PlaceInv
  <2>6. CASE conn.st # "FREE" /\ conn'.st = "FREE"
    <3>1. conn.st \in {"PENDING", "CLOSING"} \/ (conn.st = "CONNECTING" /\ conn.role = "peripheral")
      BY <1>8, <2>6
    <3> QED BY <1>2, <1>8, <2>1, <2>2, <2>6, <3>1 DEF Inv, PlaceInv
  <2>7. CASE conn.st # "FREE" /\ conn'.st # "FREE"
    <3>1. /\ conn'.gen = conn.gen /\ conn'.role = conn.role /\ conn'.link = conn.link
          /\ \/ conn.st = "LIVE" /\ conn'.st = "DISCONNECTED"
             \/ conn.st \in {"CONNECTING", "DISCONNECTED"} /\ conn'.st = conn.st
      BY <1>8, <2>7
    <3> QED BY <1>2, <1>6, <2>1, <2>2, <2>3, <2>7, <3>1 DEF Inv, PlaceInv
  <2> QED BY <2>5, <2>6, <2>7
<1>15. SubInv' BY <1>7, <1>10, Constants DEF SubInv, SrvNow
<1>16. GattQuiet BY <1>7, <1>10 DEF GattQuiet, SrvNow, CliNow
<1>17. ConnGrows BY <1>8 DEF ConnGrows
<1>18. DataInv' BY <1>11, <1>16, <1>17, DataKept DEF Inv
<1>19. IndInv' BY <1>2, <1>6, <1>7, <1>8 DEF Inv, IndInv, LinkUp, IndKept
<1>20. ProcA' /\ ProcB' BY <1>2, <1>6, <1>8, <1>10 DEF Inv, ProcInv, ProcA, ProcB, LinkUp
<1>21. ProcC' BY <1>2, <1>6, <1>8, <1>10 DEF Inv, ProcInv, ProcC, LinkUp
<1>22. MtuInv' BY <1>6, <1>8 DEF MtuInv
<1>23. Asked' BY <1>2 DEF Asked
<1>24. QueuesQuiet BY <1>3, <1>4, <1>16 DEF QueuesQuiet, ScanNow
<1> QED BY <1>11, <1>12, <1>13, <1>14, <1>15, <1>18, <1>19, <1>20, <1>21, <1>22, <1>23, <1>24 DEF Inv, ProcInv

-----------------------------------------------------------------------------
(* The steps above the radio *)

\* A step that leaves the radio alone: it goes on in a call of the driver, and
\* a request of the client is made only of a ready radio.
StaysOut ==
  /\ RadioFlags
  /\ \/ fg' = fg
     \/ /\ fg.at \notin RadioPhases /\ fg'.at \notin RadioPhases
        /\ fg'.at \in Asking => fg.at \in Asking \/ radio = "READY"

LEMMA GoAt == ASSUME fg \in CallT, NEW p, Go(p) PROVE fg'.at = p
  BY DEF Go, CallT
LEMMA DoAt == ASSUME NEW op, NEW p, NEW g, Do(op, p, g) PROVE fg'.at = p
  BY DEF Do
LEMMA AnswerAt == ASSUME Answer PROVE fg'.at = "idle"
  BY DEF Answer, Idle
LEMMA ArmAt == ASSUME fg \in CallT, NEW p, NEW g, fg' = [fg EXCEPT !.at = p, !.gen = g] PROVE fg'.at = p
  BY DEF CallT

LEMMA ScanStaysOut == ASSUME fg \in CallT, ScanSteps PROVE StaysOut
<1>1. CASE ScanStart BY <1>1, DoAt DEF StaysOut, RadioFlags, RadioPhases, Asking, ScanStart, Calls, At, LeaveRadio,
    KeepConn, flags, stack, Quiet
<1>2. CASE ScanCall BY <1>2, GoAt, AnswerAt DEF StaysOut, RadioFlags, RadioPhases, Asking, ScanCall, At, LeaveRadio,
    KeepConn, flags, stack
<1>3. CASE ScanCheck BY <1>3, AnswerAt DEF StaysOut, RadioFlags, RadioPhases, Asking, ScanCheck, At, LeaveRadio,
    KeepConn, flags, stack
<1>4. CASE ScanStop BY <1>4, DoAt, AnswerAt DEF StaysOut, RadioFlags, RadioPhases, Asking, ScanStop, Calls, At,
    LeaveRadio, KeepConn, flags, stack
<1>5. CASE ScanCancel BY <1>5, GoAt, AnswerAt DEF StaysOut, RadioFlags, RadioPhases, Asking, ScanCancel, At,
    LeaveRadio, KeepConn, flags, stack
<1>6. CASE ScanStopped BY <1>6, AnswerAt DEF StaysOut, RadioFlags, RadioPhases, Asking, ScanStopped, At, LeaveRadio,
    KeepConn, flags, stack
<1>7. CASE ScanNext BY <1>7 DEF StaysOut, RadioFlags, ScanNext, Calls, At, LeaveRadio, KeepConn, flags, stack
<1>8. CASE ReportHeard BY <1>8 DEF StaysOut, RadioFlags, ReportHeard, Callback, KeepConn, flags, stack
<1>9. CASE ReportQueued BY <1>9 DEF StaysOut, RadioFlags, ReportQueued, LeaveRadio, KeepConn, flags, stack
<1>10. CASE ReportFiltered BY <1>10 DEF StaysOut, RadioFlags, ReportFiltered, LeaveRadio, KeepConn, flags, stack
<1>11. CASE DiscComplete BY <1>11 DEF StaysOut, RadioFlags, DiscComplete, Callback, KeepConn, flags, stack
<1> QED BY <1>1, <1>2, <1>3, <1>4, <1>5, <1>6, <1>7, <1>8, <1>9, <1>10, <1>11 DEF ScanSteps

LEMMA AdvStaysOut == ASSUME fg \in CallT, AdvSteps PROVE StaysOut
<1>1. CASE AdvertiseStart BY <1>1, DoAt DEF StaysOut, RadioFlags, RadioPhases, Asking, AdvertiseStart, Calls, At,
    LeaveRadio, KeepConn, flags, stack, Quiet
<1>2. CASE AdvertiseCall BY <1>2, GoAt, AnswerAt DEF StaysOut, RadioFlags, RadioPhases, Asking, AdvertiseCall, At,
    LeaveRadio, KeepConn, flags, stack
<1>3. CASE AdvertiseCheck BY <1>3, AnswerAt DEF StaysOut, RadioFlags, RadioPhases, Asking, AdvertiseCheck, At,
    LeaveRadio, KeepConn, flags, stack
<1>4. CASE AdvertiseStop BY <1>4, DoAt DEF StaysOut, RadioFlags, RadioPhases, Asking, AdvertiseStop, Calls, At,
    LeaveRadio, KeepConn, flags, stack
<1>5. CASE AdvertiseCancel BY <1>5, GoAt, AnswerAt DEF StaysOut, RadioFlags, RadioPhases, Asking, AdvertiseCancel, At,
    LeaveRadio, KeepConn, flags, stack
<1>6. CASE AdvertiseStopped BY <1>6, AnswerAt DEF StaysOut, RadioFlags, RadioPhases, Asking, AdvertiseStopped, At,
    LeaveRadio, KeepConn, flags, stack
<1>7. CASE AdvertiseOver BY <1>7 DEF StaysOut, RadioFlags, AdvertiseOver, Callback, KeepConn, flags, stack
<1>8. CASE Incoming BY <1>8 DEF StaysOut, RadioFlags, Incoming, Callback, KeepConn, flags, stack
<1>9. CASE IncomingPending BY <1>9 DEF StaysOut, RadioFlags, IncomingPending, LeaveRadio, KeepConn, flags, stack
<1>10. CASE RefuseLink BY <1>10 DEF StaysOut, RadioFlags, RefuseLink, LeaveRadio, flags, stack
<1> QED BY <1>1, <1>2, <1>3, <1>4, <1>5, <1>6, <1>7, <1>8, <1>9, <1>10 DEF AdvSteps

LEMMA ConnStaysOut == ASSUME fg \in CallT, ConnSteps PROVE StaysOut
<1>1. CASE Connect BY <1>1, DoAt DEF StaysOut, RadioFlags, RadioPhases, Asking, Connect, Calls, At, LeaveRadio, flags,
    stack, Quiet
<1>2. CASE ConnectCall BY <1>2, GoAt, AnswerAt DEF StaysOut, RadioFlags, RadioPhases, Asking, ConnectCall, At,
    LeaveRadio, flags, stack
<1>3. CASE ConnectWait BY <1>3, AnswerAt DEF StaysOut, RadioFlags, RadioPhases, Asking, ConnectWait, At, LeaveRadio,
    flags, stack
<1>4. CASE ConnectAbort BY <1>4, GoAt DEF StaysOut, RadioFlags, RadioPhases, Asking, ConnectAbort, At, LeaveRadio,
    flags, stack
<1>5. CASE ConnectCancel BY <1>5, AnswerAt DEF StaysOut, RadioFlags, RadioPhases, Asking, ConnectCancel, At,
    LeaveRadio, flags, stack, lvars
<1>6. CASE ConnectFailed BY <1>6 DEF StaysOut, RadioFlags, ConnectFailed, Callback, flags, stack
<1>7. CASE Connected BY <1>7 DEF StaysOut, RadioFlags, Connected, Callback, flags, stack
<1>8. CASE LinkLost BY <1>8 DEF StaysOut, RadioFlags, LinkLost, Callback, flags, stack
<1>9. CASE LinkDown BY <1>9 DEF StaysOut, RadioFlags, LinkDown, LeaveRadio, KeepConn, flags, stack
<1>10. CASE TerminateFails BY <1>10 DEF StaysOut, RadioFlags, TerminateFails, Callback, flags, stack
<1>11. CASE Accept BY <1>11 DEF StaysOut, RadioFlags, Accept, Calls, At, LeaveRadio, flags, stack
<1>12. CASE RejectPending BY <1>12, DoAt DEF StaysOut, RadioFlags, RadioPhases, Asking, RejectPending, Calls, At,
    LeaveRadio, flags, stack
<1>13. CASE Close BY <1>13, DoAt DEF StaysOut, RadioFlags, RadioPhases, Asking, Close, At, LeaveRadio, flags, stack
<1>14. CASE CloseCall BY <1>14, GoAt DEF StaysOut, RadioFlags, RadioPhases, Asking, CloseCall, At, LeaveRadio, flags,
    stack
<1>15. CASE CloseDone BY <1>15, AnswerAt DEF StaysOut, RadioFlags, RadioPhases, Asking, CloseDone, At, LeaveRadio,
    flags, stack
<1>16. CASE Params BY <1>16, DoAt DEF StaysOut, RadioFlags, RadioPhases, Asking, Params, At, LeaveRadio, flags, stack
<1>17. CASE ParamsCall BY <1>17, AnswerAt DEF StaysOut, RadioFlags, RadioPhases, Asking, ParamsCall, At, LeaveRadio,
    flags, stack
<1>18. CASE ParamsUpdated BY <1>18 DEF StaysOut, RadioFlags, ParamsUpdated, Callback, flags, stack
<1>19. CASE Mtu BY <1>19, DoAt DEF StaysOut, RadioFlags, RadioPhases, Asking, Mtu, At, LeaveRadio, flags, stack
<1>20. CASE MtuCall BY <1>20, GoAt, AnswerAt DEF StaysOut, RadioFlags, RadioPhases, Asking, MtuCall, At, LeaveRadio,
    flags, stack
<1>21. CASE MtuWait BY <1>21, AnswerAt DEF StaysOut, RadioFlags, RadioPhases, Asking, MtuWait, At, LeaveRadio, flags,
    stack, lvars
<1>22. CASE MtuComplete BY <1>22 DEF StaysOut, RadioFlags, MtuComplete, Callback, flags, stack
<1> QED BY <1>1, <1>2, <1>3, <1>4, <1>5, <1>6, <1>7, <1>8, <1>9, <1>10, <1>11, <1>12, <1>13, <1>14, <1>15, <1>16,
    <1>17, <1>18, <1>19, <1>20, <1>21, <1>22 DEF ConnSteps

LEMMA ServerStaysOut == ASSUME fg \in CallT, ServerSteps PROVE StaysOut
<1>1. CASE RemoteWrite BY <1>1 DEF StaysOut, RadioFlags, RemoteWrite, Callback, Numbered, flags, stack
<1>2. CASE RemoteSubscribe BY <1>2 DEF StaysOut, RadioFlags, RemoteSubscribe, Callback, flags, stack
<1>3. CASE WriteNext BY <1>3 DEF StaysOut, RadioFlags, WriteNext, Calls, At, LeaveRadio, KeepGap, flags, stack
<1>4. CASE Indicate BY <1>4, DoAt DEF StaysOut, RadioFlags, RadioPhases, Asking, Indicate, Calls, At, LeaveRadio,
    KeepGap, flags, stack, MayIndicate
<1>5. CASE IndicateArm
  <2>1. fg.at = "ind.arm" /\ RadioFlags BY <1>5 DEF IndicateArm, At, LeaveRadio, RadioFlags
  <2>2. CASE fg' = [fg EXCEPT !.at = "ind.call", !.gen = conn.gen]
    <3>1. fg'.at = "ind.call" BY <2>2, ArmAt
    <3> QED BY <2>1, <3>1 DEF StaysOut, RadioPhases, Asking
  <2>3. CASE Answer BY <2>1, <2>3, AnswerAt DEF StaysOut, RadioPhases, Asking
  <2> QED BY <1>5, <2>2, <2>3 DEF IndicateArm
<1>6. CASE IndicateCall BY <1>6, GoAt, AnswerAt DEF StaysOut, RadioFlags, RadioPhases, Asking, IndicateCall, At,
    LeaveRadio, KeepGap, flags, stack
<1>7. CASE IndicateWait BY <1>7, AnswerAt DEF StaysOut, RadioFlags, RadioPhases, Asking, IndicateWait, At, LeaveRadio,
    flags, stack, lvars
<1>8. CASE Acknowledged BY <1>8 DEF StaysOut, RadioFlags, Acknowledged, Callback, flags, stack
<1> QED BY <1>1, <1>2, <1>3, <1>4, <1>5, <1>6, <1>7, <1>8 DEF ServerSteps

LEMMA ClientStaysOut == ASSUME fg \in CallT, ClientSteps PROVE StaysOut
<1>1. CASE Find BY <1>1, DoAt DEF StaysOut, RadioFlags, RadioPhases, Asking, Find, Calls, At, LeaveRadio, Ask,
    KeepGap, flags, stack, MayAsk
<1>2. CASE Read BY <1>2, DoAt DEF StaysOut, RadioFlags, RadioPhases, Asking, Read, Calls, At, LeaveRadio, Ask,
    KeepGap, flags, stack, MayAsk
<1>3. CASE Write BY <1>3, DoAt DEF StaysOut, RadioFlags, RadioPhases, Asking, Write, Calls, At, LeaveRadio, Ask,
    KeepGap, flags, stack, MayAsk
<1>4. CASE Subscribe BY <1>4, DoAt DEF StaysOut, RadioFlags, RadioPhases, Asking, Subscribe, Calls, At, LeaveRadio,
    Ask, KeepGap, flags, stack, MayAsk
<1>5. CASE ClientCall BY <1>5, GoAt DEF StaysOut, RadioFlags, RadioPhases, Asking, ClientCall, At, LeaveRadio,
    KeepGap, flags, stack, Mine
<1>6. CASE ClientWait BY <1>6, GoAt, AnswerAt DEF StaysOut, RadioFlags, RadioPhases, Asking, ClientWait, At,
    LeaveRadio, flags, stack, lvars
<1>7. CASE ClientAbandon BY <1>7, AnswerAt DEF StaysOut, RadioFlags, RadioPhases, Asking, ClientAbandon, At,
    LeaveRadio, KeepGap, flags, stack
<1>8. CASE ClientNext BY <1>8, GoAt DEF StaysOut, RadioFlags, RadioPhases, Asking, ClientNext, At, LeaveRadio,
    KeepGap, flags, stack, Mine
<1>9. CASE ClientAnswered BY <1>9 DEF StaysOut, RadioFlags, ClientAnswered, Callback, flags, stack, Mine
<1>10. CASE Notified BY <1>10 DEF StaysOut, RadioFlags, Notified, Callback, Numbered, flags, stack
<1>11. CASE NotificationNext BY <1>11 DEF StaysOut, RadioFlags, NotificationNext, Calls, At, LeaveRadio, KeepGap,
    flags, stack
<1> QED BY <1>1, <1>2, <1>3, <1>4, <1>5, <1>6, <1>7, <1>8, <1>9, <1>10, <1>11 DEF ClientSteps

LEMMA ClearStaysOut ==
  ASSUME fg \in CallT, ProjectClear \/ ClearAdvertising \/ ClearLink \/ ClearServer
  PROVE  StaysOut
<1>1. CASE ProjectClear BY <1>1, DoAt DEF StaysOut, RadioFlags, RadioPhases, Asking, ProjectClear, At, LeaveRadio,
    KeepConn, flags, stack
<1>2. CASE ClearAdvertising BY <1>2, GoAt DEF StaysOut, RadioFlags, RadioPhases, Asking, ClearAdvertising, At,
    LeaveRadio, KeepConn, flags, stack
<1>3. CASE ClearLink BY <1>3, GoAt DEF StaysOut, RadioFlags, RadioPhases, Asking, ClearLink, At, LeaveRadio, flags,
    stack
<1>4. CASE ClearServer BY <1>4, GoAt DEF StaysOut, RadioFlags, RadioPhases, Asking, ClearServer, At, LeaveRadio,
    KeepGap, flags, stack
<1> QED BY <1>1, <1>2, <1>3, <1>4

-----------------------------------------------------------------------------
(* The order of what is handed out *)

OrderStep ==
  /\ scan'.cur # 0 /\ scan.cur # 0 => scan'.cur >= scan.cur
  /\ srv'.cur.id # 0 /\ srv.cur.id # 0 => srv'.cur.id >= srv.cur.id
  /\ cli'.cur.id # 0 /\ cli.cur.id # 0 => cli'.cur.id >= cli.cur.id

LEMMA IdsOf ==
  ASSUME NEW q \in Seq(EntryT)
  PROVE  DOMAIN Ids(q) = 1 .. Len(q) /\ \A i \in 1 .. Len(q) : Ids(q)[i] = q[i].id /\ Ids(q)[i] \in Nat
<1>1. \A i \in 1 .. Len(q) : q[i] \in EntryT OBVIOUS
<1>2. \A i \in 1 .. Len(q) : q[i].id \in Nat BY <1>1 DEF EntryT
<1> QED BY <1>2 DEF Ids

LEMMA NothingOrdered ==
  ASSUME NEW c \in Nat, NEW h \in Nat, c <= h
  PROVE  Ordered(<<>>, c, h) /\ Ordered(Ids(<<>>), c, h)
  BY DEF Ordered, Ids

LEMMA LaterOrdered ==
  ASSUME NEW f, NEW D, DOMAIN f = D, \A i \in D : f[i] \in Nat,
         NEW c \in Nat, NEW h \in Nat, NEW c2 \in Nat, NEW h2 \in Nat,
         Ordered(f, c, h), c2 <= c, h <= h2
  PROVE  Ordered(f, c2, h2)
<1>1. \A i \in D : c <= f[i] /\ f[i] <= h BY DEF Ordered
<1>2. \A i \in D : c2 <= f[i] /\ f[i] <= h2 BY <1>1
<1>3. c2 <= h2 BY DEF Ordered
<1>4. \A i, j \in D : i <= j => f[i] <= f[j] BY DEF Ordered
<1> QED BY <1>2, <1>3, <1>4 DEF Ordered

\* What leaves the queues alone, or empties them, keeps them in order.
LEMMA QuietOrder ==
  ASSUME Types, OrderInv, QueuesQuiet
  PROVE  OrderInv' /\ OrderStep
<1>0. scan.q \in Seq(Nat) /\ scan.cur \in Nat /\ srv.q \in Seq(EntryT) /\ cli.q \in Seq(EntryT) /\ heard \in Nat
      /\ srv.cur \in EntryT /\ cli.cur \in EntryT
  BY TypesFlat DEF QueuesOk, UseOk
<1>1. srv.cur.id \in Nat /\ cli.cur.id \in Nat BY <1>0 DEF EntryT
<1>2. heard' \in Nat /\ heard <= heard' BY <1>0 DEF QueuesQuiet
<1>3. ASSUME NEW f, NEW D, DOMAIN f = D, \A i \in D : f[i] \in Nat, NEW c \in Nat, Ordered(f, c, heard)
      PROVE  Ordered(f, c, heard') /\ Ordered(f, 0, heard') /\ c <= heard'
  <2>1. 0 \in Nat /\ 0 <= c /\ c <= c OBVIOUS
  <2>2. Ordered(f, c, heard') /\ Ordered(f, 0, heard') BY <1>0, <1>2, <1>3, <2>1, LaterOrdered
  <2>3. c <= heard' BY <2>2 DEF Ordered
  <2> QED BY <2>2, <2>3
<1>4. Ordered(scan'.q, scan'.cur, heard')
  <2>1. Ordered(scan.q, scan.cur, heard) BY DEF OrderInv
  <2>2. Ordered(scan.q, scan.cur, heard') /\ Ordered(scan.q, 0, heard') /\ scan.cur <= heard'
    <3>1. DOMAIN scan.q = 1 .. Len(scan.q) /\ \A i \in 1 .. Len(scan.q) : scan.q[i] \in Nat BY <1>0
    <3> QED BY <1>0, <1>3, <2>1, <3>1
  <2>3. Ordered(<<>>, scan.cur, heard') /\ Ordered(<<>>, 0, heard') BY <1>0, <1>2, <2>2, NothingOrdered
  <2> QED BY <2>2, <2>3 DEF QueuesQuiet
<1>5. Ordered(Ids(srv'.q), srv'.cur.id, heard')
  <2>1. Ordered(Ids(srv.q), srv.cur.id, heard) BY DEF OrderInv
  <2>2. Ordered(Ids(srv.q), srv.cur.id, heard') /\ Ordered(Ids(srv.q), 0, heard') /\ srv.cur.id <= heard'
    BY <1>0, <1>1, <1>3, <2>1, IdsOf
  <2>3. Ordered(Ids(<<>>), srv.cur.id, heard') /\ Ordered(Ids(<<>>), 0, heard') BY <1>1, <1>2, <2>2, NothingOrdered
  <2> QED BY <2>2, <2>3, Constants DEF QueuesQuiet, GattQuiet
<1>6. Ordered(Ids(cli'.q), cli'.cur.id, heard')
  <2>1. Ordered(Ids(cli.q), cli.cur.id, heard) BY DEF OrderInv
  <2>2. Ordered(Ids(cli.q), cli.cur.id, heard') /\ Ordered(Ids(cli.q), 0, heard') /\ cli.cur.id <= heard'
    BY <1>0, <1>1, <1>3, <2>1, IdsOf
  <2>3. Ordered(Ids(<<>>), cli.cur.id, heard') /\ Ordered(Ids(<<>>), 0, heard') BY <1>1, <1>2, <2>2, NothingOrdered
  <2> QED BY <2>2, <2>3, Constants DEF QueuesQuiet, GattQuiet
<1>7. OrderStep BY <1>0, <1>1, Constants DEF OrderStep, QueuesQuiet, GattQuiet
<1> QED BY <1>4, <1>5, <1>6, <1>7 DEF OrderInv

LEMMA TailOrdered ==
  ASSUME NEW q \in Seq(Nat), q # <<>>, NEW c \in Nat, NEW h \in Nat, Ordered(q, c, h)
  PROVE  Ordered(Tail(q), c, h) /\ Ordered(Tail(q), Head(q), h) /\ Head(q) \in Nat /\ c <= Head(q)
<1> DEFINE r == Tail(q)
<1>1. Len(q) \in Nat /\ Len(q) >= 1 /\ Head(q) = q[1] /\ 1 \in 1 .. Len(q) OBVIOUS
<1>2. DOMAIN r = 1 .. Len(q) - 1 OBVIOUS
<1>3. \A i \in 1 .. Len(q) - 1 : r[i] = q[i + 1] /\ i + 1 \in 1 .. Len(q) OBVIOUS
<1>4. \A i \in 1 .. Len(q) : q[i] \in Nat /\ c <= q[i] /\ q[i] <= h BY DEF Ordered
<1>5. \A i, j \in 1 .. Len(q) : i <= j => q[i] <= q[j] BY DEF Ordered
<1> HIDE DEF r
<1>6. \A i \in 1 .. Len(q) - 1 : r[i] \in Nat /\ c <= r[i] /\ r[i] <= h BY <1>3, <1>4
<1>7. ASSUME NEW i \in 1 .. Len(q) - 1, NEW j \in 1 .. Len(q) - 1, i <= j PROVE r[i] <= r[j]
  <2>1. r[i] = q[i + 1] /\ r[j] = q[j + 1] /\ i + 1 \in 1 .. Len(q) /\ j + 1 \in 1 .. Len(q) BY <1>3
  <2>2. i + 1 <= j + 1 BY <1>7
  <2> QED BY <1>5, <2>1, <2>2
<1>8. ASSUME NEW i \in 1 .. Len(q) - 1 PROVE q[1] <= r[i]
  <2>1. r[i] = q[i + 1] /\ i + 1 \in 1 .. Len(q) /\ 1 <= i + 1 BY <1>3
  <2> QED BY <1>1, <1>5, <2>1
<1>9. q[1] \in Nat /\ c <= q[1] /\ q[1] <= h /\ c <= h BY <1>1, <1>4 DEF Ordered
<1>10. Ordered(r, c, h) BY <1>2, <1>6, <1>7, <1>9 DEF Ordered
<1>11. Ordered(r, q[1], h) BY <1>2, <1>6, <1>7, <1>8, <1>9 DEF Ordered
<1> QED BY <1>1, <1>9, <1>10, <1>11 DEF r

\* One more, heard last.
LEMMA MoreOrdered ==
  ASSUME NEW f, NEW g, NEW n \in Nat, NEW c \in Nat, NEW h \in Nat, NEW h2 \in Nat, h <= h2,
         DOMAIN f = 1 .. n, \A i \in 1 .. n : f[i] \in Nat, Ordered(f, c, h),
         DOMAIN g = 1 .. n + 1, \A i \in 1 .. n : g[i] = f[i], g[n + 1] = h2
  PROVE  Ordered(g, c, h2)
<1>1. \A i \in 1 .. n : c <= g[i] /\ g[i] <= h /\ g[i] \in Nat BY DEF Ordered
<1>2. \A i, j \in 1 .. n : i <= j => g[i] <= g[j] BY DEF Ordered
<1>3. c <= h BY DEF Ordered
<1>4. \A i \in 1 .. n + 1 : i \in 1 .. n \/ i = n + 1 OBVIOUS
<1>5. \A i \in 1 .. n + 1 : c <= g[i] /\ g[i] <= h2 BY <1>1, <1>3, <1>4
<1>6. ASSUME NEW i \in 1 .. n + 1, NEW j \in 1 .. n + 1, i <= j PROVE g[i] <= g[j]
  <2>1. CASE j = n + 1 BY <1>5, <2>1
  <2>2. CASE j \in 1 .. n
    <3>1. i \in 1 .. n BY <1>6, <2>2
    <3> QED BY <1>2, <1>6, <2>2, <3>1
  <2> QED BY <1>4, <2>1, <2>2
<1>7. c <= h2 BY <1>3
<1> QED BY <1>5, <1>6, <1>7 DEF Ordered

LEMMA NumberOrdered ==
  ASSUME NEW q \in Seq(Nat), NEW c \in Nat, NEW h \in Nat, NEW h2 \in Nat, h <= h2, Ordered(q, c, h)
  PROVE  Ordered(Append(q, h2), c, h2)
<1> DEFINE n == Len(q)
           g == Append(q, h2)
<1>1. n \in Nat /\ DOMAIN q = 1 .. n /\ \A i \in 1 .. n : q[i] \in Nat OBVIOUS
<1>2. DOMAIN g = 1 .. n + 1 /\ (\A i \in 1 .. n : g[i] = q[i]) /\ g[n + 1] = h2 OBVIOUS
<1> HIDE DEF n, g
<1>3. Ordered(g, c, h2) BY <1>1, <1>2, MoreOrdered
<1> QED BY <1>3 DEF g

LEMMA PushedOrdered ==
  ASSUME NEW q \in Seq(Nat), NEW c \in Nat, NEW h \in Nat, h = heard, Ordered(q, c, h)
  PROVE  Ordered(Pushed(q), c, h)
<1>1. h <= h OBVIOUS
<1>2. CASE Len(q) = ScanQueue
  <2>1. q # <<>> BY <1>2, LinkAssumption
  <2>2. Tail(q) \in Seq(Nat) /\ Ordered(Tail(q), c, h) BY <2>1, TailOrdered
  <2>3. Pushed(q) = Append(Tail(q), h) BY <1>2 DEF Pushed
  <2> QED BY <1>1, <2>2, <2>3, NumberOrdered
<1>3. CASE Len(q) # ScanQueue
  <2>1. Pushed(q) = Append(q, h) BY <1>3 DEF Pushed
  <2> QED BY <1>1, <2>1, NumberOrdered
<1> QED BY <1>2, <1>3

LEMMA EntryOrdered ==
  ASSUME NEW q \in Seq(EntryT), NEW e \in EntryT, NEW c \in Nat, NEW h \in Nat, NEW h2 \in Nat, h <= h2,
         Ordered(Ids(q), c, h), e.id = h2
  PROVE  Ordered(Ids(Append(q, e)), c, h2)
<1> DEFINE n == Len(q)
           a == Append(q, e)
           f == Ids(q)
           g == Ids(a)
<1>1. n \in Nat /\ a \in Seq(EntryT) /\ Len(a) = n + 1 /\ (\A i \in 1 .. n : a[i] = q[i]) /\ a[n + 1] = e OBVIOUS
<1>2. DOMAIN f = 1 .. n /\ \A i \in 1 .. n : f[i] = q[i].id /\ f[i] \in Nat BY IdsOf
<1> HIDE DEF a, n
<1>3. DOMAIN g = 1 .. n + 1 /\ \A i \in 1 .. n + 1 : g[i] = a[i].id BY <1>1, IdsOf
<1>4. n + 1 \in 1 .. n + 1 /\ \A i \in 1 .. n : i \in 1 .. n + 1 BY <1>1
<1>5. g[n + 1] = h2 BY <1>1, <1>3, <1>4
<1>6. \A i \in 1 .. n : g[i] = f[i] BY <1>1, <1>2, <1>3, <1>4
<1>7. Ordered(f, c, h) OBVIOUS
<1> HIDE DEF f, g
<1>8. Ordered(g, c, h2) BY <1>1, <1>2, <1>3, <1>5, <1>6, <1>7, MoreOrdered
<1> QED BY <1>8 DEF g, a

LEMMA NextOrdered ==
  ASSUME NEW q \in Seq(EntryT), NEW c \in Nat, NEW h \in Nat, conn.link \in Nat, Ordered(Ids(q), c, h)
  PROVE  /\ Ordered(Ids(NextOf(q).q), NextOf(q).cur.id, h)
         /\ NextOf(q).cur.id # 0 => NextOf(q).cur.id >= c
<1>1. CASE NextOf(q) = [cur |-> NoWrite, q |-> <<>>]
  <2>1. NextOf(q).q = <<>> /\ NextOf(q).cur.id = 0 BY <1>1, Constants
  <2>2. 0 \in Nat /\ 0 <= h OBVIOUS
  <2> QED BY <2>1, <2>2, NothingOrdered
<1>2. ASSUME NEW i \in 1 .. Len(q),
             NextOf(q) = [cur |-> [q[i] EXCEPT !.to = conn.link], q |-> SubSeq(q, i + 1, Len(q))]
      PROVE  /\ Ordered(Ids(NextOf(q).q), NextOf(q).cur.id, h)
             /\ NextOf(q).cur.id # 0 => NextOf(q).cur.id >= c
  <2> DEFINE r == SubSeq(q, i + 1, Len(q))
             d == [q[i] EXCEPT !.to = conn.link]
             f == Ids(q)
             g == Ids(r)
             m == Len(r)
             n == Len(q)
  <2>1. q[i] \in EntryT OBVIOUS
  <2>2. d.id = q[i].id BY <2>1, Handed
  <2>3. r \in Seq(EntryT) /\ \A j \in 1 .. m : r[j] = q[i + j] /\ i + j \in 1 .. n BY RestIs
  <2>4. NextOf(q).q = r /\ NextOf(q).cur = d BY <1>2
  <2>5. DOMAIN f = 1 .. n /\ \A j \in 1 .. n : f[j] = q[j].id /\ f[j] \in Nat BY IdsOf
  <2> HIDE DEF r, d
  <2>6. DOMAIN g = 1 .. m /\ \A j \in 1 .. m : g[j] = r[j].id BY <2>3, IdsOf
  <2>7. \A j \in 1 .. n : c <= f[j] /\ f[j] <= h BY <2>5 DEF Ordered
  <2>8. \A j, k \in 1 .. n : j <= k => f[j] <= f[k] BY <2>5 DEF Ordered
  <2>9. i \in 1 .. n /\ f[i] = d.id BY <2>2, <2>5
  <2>10. \A j \in 1 .. m : g[j] = f[i + j] BY <2>3, <2>5, <2>6
  <2>11. m \in Nat /\ n \in Nat BY <2>3
  <2>12. \A j \in 1 .. m : i + j \in 1 .. n BY <2>3
  <2> HIDE DEF f, g, m, n
  <2>13. ASSUME NEW j \in 1 .. m PROVE f[i] <= g[j] /\ g[j] <= h
    <3>1. i + j \in 1 .. n BY <2>12
    <3>2. g[j] = f[i + j] BY <2>10
    <3>3. i <= i + j BY <2>9, <2>11
    <3> QED BY <2>7, <2>8, <2>9, <3>1, <3>2, <3>3
  <2>14. ASSUME NEW j \in 1 .. m, NEW k \in 1 .. m, j <= k PROVE g[j] <= g[k]
    <3>1. i + j \in 1 .. n /\ i + k \in 1 .. n /\ i + j <= i + k BY <2>9, <2>11, <2>12, <2>14
    <3> QED BY <2>8, <2>10, <3>1
  <2>15. f[i] <= h /\ f[i] >= c BY <2>5, <2>7, <2>9
  <2>16. Ordered(g, f[i], h) BY <2>6, <2>13, <2>14, <2>15 DEF Ordered
  <2> QED BY <2>4, <2>9, <2>15, <2>16 DEF g
<1> QED BY <1>1, <1>2, NextIs

\* What is left alone stays in order, also when one more thing is heard.
LEMMA OthersOrdered ==
  ASSUME Types, OrderInv, heard' \in {heard, heard + 1}
  PROVE  /\ Ordered(scan.q, scan.cur, heard') /\ Ordered(Ids(srv.q), srv.cur.id, heard')
         /\ Ordered(Ids(cli.q), cli.cur.id, heard')
<1>0. scan.q \in Seq(Nat) /\ scan.cur \in Nat /\ srv.q \in Seq(EntryT) /\ cli.q \in Seq(EntryT) /\ heard \in Nat
      /\ srv.cur \in EntryT /\ cli.cur \in EntryT
  BY TypesFlat DEF QueuesOk, UseOk
<1>1. srv.cur.id \in Nat /\ cli.cur.id \in Nat BY <1>0 DEF EntryT
<1>2. heard' \in Nat /\ heard <= heard' BY <1>0
<1>3. ASSUME NEW f, NEW D, DOMAIN f = D, \A i \in D : f[i] \in Nat, NEW c \in Nat, Ordered(f, c, heard)
      PROVE  Ordered(f, c, heard')
  <2>1. c <= c OBVIOUS
  <2> QED BY <1>0, <1>2, <1>3, <2>1, LaterOrdered
<1>4. Ordered(scan.q, scan.cur, heard')
  <2>1. Ordered(scan.q, scan.cur, heard) BY DEF OrderInv
  <2>2. DOMAIN scan.q = 1 .. Len(scan.q) /\ \A i \in 1 .. Len(scan.q) : scan.q[i] \in Nat BY <1>0
  <2> QED BY <1>0, <1>3, <2>1, <2>2
<1>5. Ordered(Ids(srv.q), srv.cur.id, heard')
  <2>1. Ordered(Ids(srv.q), srv.cur.id, heard) BY DEF OrderInv
  <2> QED BY <1>0, <1>1, <1>3, <2>1, IdsOf
<1>6. Ordered(Ids(cli.q), cli.cur.id, heard')
  <2>1. Ordered(Ids(cli.q), cli.cur.id, heard) BY DEF OrderInv
  <2> QED BY <1>0, <1>1, <1>3, <2>1, IdsOf
<1> QED BY <1>4, <1>5, <1>6

\* The numbers that are handed out.
LEMMA TakenAre ==
  ASSUME Types
  PROVE  scan.cur \in Nat /\ srv.cur.id \in Nat /\ cli.cur.id \in Nat /\ heard \in Nat /\ scan.q \in Seq(Nat)
         /\ srv.q \in Seq(EntryT) /\ cli.q \in Seq(EntryT) /\ conn.link \in Nat /\ conn.gen \in Nat
         /\ nim.link.id \in Nat
<1>1. srv.cur \in EntryT /\ cli.cur \in EntryT BY TypesFlat DEF QueuesOk
<1>2. srv.cur.id \in Nat /\ cli.cur.id \in Nat BY <1>1 DEF EntryT
<1> QED BY <1>2, TypesFlat DEF QueuesOk, UseOk, ConnOk, NimOk

\* The queues of the server and the client are not touched.
LEMMA ScanAlone ==
  ASSUME Types, OrderInv, UNCHANGED <<srv, cli, heard>>, Ordered(scan'.q, scan'.cur, heard),
         scan'.cur # 0 /\ scan.cur # 0 => scan'.cur >= scan.cur
  PROVE  OrderInv' /\ OrderStep
<1>1. OrderInv' BY DEF OrderInv
<1>2. OrderStep BY TakenAre DEF OrderStep
<1> QED BY <1>1, <1>2

LEMMA SrvAlone ==
  ASSUME Types, OrderInv, heard' \in {heard, heard + 1}, UNCHANGED <<scan, cli>>,
         Ordered(Ids(srv'.q), srv'.cur.id, heard'), srv'.cur.id # 0 /\ srv.cur.id # 0 => srv'.cur.id >= srv.cur.id
  PROVE  OrderInv' /\ OrderStep
<1>1. OrderInv' BY OthersOrdered DEF OrderInv
<1>2. OrderStep BY TakenAre DEF OrderStep
<1> QED BY <1>1, <1>2

LEMMA CliAlone ==
  ASSUME Types, OrderInv, heard' \in {heard, heard + 1}, UNCHANGED <<scan, srv>>,
         Ordered(Ids(cli'.q), cli'.cur.id, heard'), cli'.cur.id # 0 /\ cli.cur.id # 0 => cli'.cur.id >= cli.cur.id
  PROVE  OrderInv' /\ OrderStep
<1>1. OrderInv' BY OthersOrdered DEF OrderInv
<1>2. OrderStep BY TakenAre DEF OrderStep
<1> QED BY <1>1, <1>2

LEMMA ScanNextOrder == ASSUME Types, OrderInv, ScanNext PROVE OrderInv' /\ OrderStep
<1>0. UNCHANGED <<srv, cli, heard>> BY DEF ScanNext, KeepConn
<1>1. Ordered(scan.q, scan.cur, heard) /\ scan \in ScanT BY DEF OrderInv, Types
<1>2. CASE scan.q = <<>>
  <2>1. ScanNow(scan.st, scan.gen, scan.q, 0) BY <1>1, <1>2, ScanCur DEF ScanNext
  <2>2. 0 \in Nat /\ 0 <= heard BY TakenAre
  <2>3. Ordered(<<>>, 0, heard) BY <2>2, TakenAre, NothingOrdered
  <2>4. scan'.q = <<>> /\ scan'.cur = 0 BY <1>2, <2>1 DEF ScanNow
  <2> QED BY <1>0, <2>3, <2>4, ScanAlone
<1>3. CASE scan.q # <<>>
  <2>1. Head(scan.q) \in Nat /\ Tail(scan.q) \in Seq(Nat) BY <1>3, TakenAre
  <2>2. ScanNow(scan.st, scan.gen, Tail(scan.q), Head(scan.q)) BY <1>1, <1>3, <2>1, ScanTaken DEF ScanNext
  <2>3. Ordered(Tail(scan.q), Head(scan.q), heard) /\ scan.cur <= Head(scan.q)
    BY <1>1, <1>3, TakenAre, TailOrdered
  <2>4. scan'.q = Tail(scan.q) /\ scan'.cur = Head(scan.q) BY <2>2 DEF ScanNow
  <2>5. Ordered(scan'.q, scan'.cur, heard) BY <2>3, <2>4
  <2>6. scan'.cur >= scan.cur BY <2>1, <2>3, <2>4, TakenAre
  <2> QED BY <1>0, <2>5, <2>6, ScanAlone
<1> QED BY <1>2, <1>3

LEMMA ReportQueuedOrder == ASSUME Types, OrderInv, ReportQueued PROVE OrderInv' /\ OrderStep
<1>0. UNCHANGED <<srv, cli, heard>> BY DEF ReportQueued, KeepConn
<1>1. Ordered(scan.q, scan.cur, heard) /\ scan \in ScanT BY DEF OrderInv, Types
<1>2. CASE scan' = scan
  BY <1>0, <1>1, <1>2, TakenAre, ScanAlone
<1>3. CASE scan' # scan
  <2>1. scan' = [scan EXCEPT !.q = Pushed(scan.q)] BY <1>3 DEF ReportQueued, Pushed
  <2>2. Pushed(scan.q) \in Seq(Nat) BY PushedIs, TakenAre
  <2>3. ScanNow(scan.st, scan.gen, Pushed(scan.q), scan.cur) BY <1>1, <2>1, <2>2, ScanQueued
  <2>4. ASSUME NEW h, h = heard PROVE Ordered(Pushed(scan.q), scan.cur, h)
    BY <1>1, <2>4, TakenAre, PushedOrdered
  <2>5. scan'.q = Pushed(scan.q) /\ scan'.cur = scan.cur BY <2>3 DEF ScanNow
  <2> QED BY <1>0, <2>4, <2>5, TakenAre, ScanAlone
<1> QED BY <1>2, <1>3

LEMMA RemoteWriteOrder == ASSUME Types, OrderInv, RemoteWrite PROVE OrderInv' /\ OrderStep
<1> DEFINE e == [gen |-> conn.gen, link |-> nim.link.id, id |-> heard + 1, to |-> 0]
<1>1. heard' = heard + 1 /\ UNCHANGED <<scan, cli>> /\ srv' = [srv EXCEPT !.q = Append(srv.q, e)]
  BY DEF RemoteWrite, Numbered
<1>2. heard + 1 \in Nat /\ heard <= heard + 1 BY TakenAre
<1>3. e \in EntryT /\ e.id = heard + 1 BY <1>2, TakenAre DEF EntryT
<1> HIDE DEF e
<1>4. Append(srv.q, e) \in Seq(EntryT) BY <1>3, TakenAre
<1>5. SrvNow(srv.sub, Append(srv.q, e), srv.cur, srv.ind) BY <1>1, <1>4, SrvWritten DEF Types
<1>6. Ordered(Ids(srv.q), srv.cur.id, heard) BY DEF OrderInv
<1>7. Ordered(Ids(Append(srv.q, e)), srv.cur.id, heard + 1) BY <1>2, <1>3, <1>6, TakenAre, EntryOrdered
<1>8. srv'.q = Append(srv.q, e) /\ srv'.cur = srv.cur BY <1>5 DEF SrvNow
<1>9. Ordered(Ids(srv'.q), srv'.cur.id, heard') BY <1>1, <1>7, <1>8
<1> QED BY <1>1, <1>8, <1>9, TakenAre, SrvAlone

LEMMA NotifiedOrder == ASSUME Types, OrderInv, Notified PROVE OrderInv' /\ OrderStep
<1> DEFINE e == [gen |-> conn.gen, link |-> nim.link.id, id |-> heard + 1, to |-> 0]
<1>1. heard' = heard + 1 /\ UNCHANGED <<scan, srv>> /\ cli' = [cli EXCEPT !.q = Append(cli.q, e)]
  BY DEF Notified, Numbered
<1>2. heard + 1 \in Nat /\ heard <= heard + 1 BY TakenAre
<1>3. e \in EntryT /\ e.id = heard + 1 BY <1>2, TakenAre DEF EntryT
<1> HIDE DEF e
<1>4. Append(cli.q, e) \in Seq(EntryT) BY <1>3, TakenAre
<1>5. CliNow(cli.entry, Append(cli.q, e), cli.cur, cli.proc) BY <1>1, <1>4, CliNotified DEF Types
<1>6. Ordered(Ids(cli.q), cli.cur.id, heard) BY DEF OrderInv
<1>7. Ordered(Ids(Append(cli.q, e)), cli.cur.id, heard + 1) BY <1>2, <1>3, <1>6, TakenAre, EntryOrdered
<1>8. cli'.q = Append(cli.q, e) /\ cli'.cur = cli.cur BY <1>5 DEF CliNow
<1>9. Ordered(Ids(cli'.q), cli'.cur.id, heard') BY <1>1, <1>7, <1>8
<1> QED BY <1>1, <1>8, <1>9, TakenAre, CliAlone

LEMMA WriteNextOrder == ASSUME Types, OrderInv, WriteNext PROVE OrderInv' /\ OrderStep
<1> DEFINE n == NextOf(srv.q)
<1>1. heard' = heard /\ UNCHANGED <<scan, cli>> /\ srv' = [srv EXCEPT !.q = n.q, !.cur = n.cur]
  BY DEF WriteNext, KeepGap
<1>2. n.q \in Seq(EntryT) /\ n.cur \in EntryT BY NextTypes, TakenAre
<1>3. Ordered(Ids(srv.q), srv.cur.id, heard) BY DEF OrderInv
<1>4. Ordered(Ids(n.q), n.cur.id, heard) /\ (n.cur.id # 0 => n.cur.id >= srv.cur.id)
  BY <1>3, TakenAre, NextOrdered
<1> HIDE DEF n
<1>5. SrvNow(srv.sub, n.q, n.cur, srv.ind) BY <1>1, <1>2, SrvTaken DEF Types
<1>6. srv'.q = n.q /\ srv'.cur = n.cur BY <1>5 DEF SrvNow
<1> QED BY <1>1, <1>4, <1>6, SrvAlone

LEMMA NotificationNextOrder == ASSUME Types, OrderInv, NotificationNext PROVE OrderInv' /\ OrderStep
<1> DEFINE n == NextOf(cli.q)
<1>1. heard' = heard /\ UNCHANGED <<scan, srv>> /\ cli' = [cli EXCEPT !.q = n.q, !.cur = n.cur]
  BY DEF NotificationNext, KeepGap
<1>2. n.q \in Seq(EntryT) /\ n.cur \in EntryT BY NextTypes, TakenAre
<1>3. Ordered(Ids(cli.q), cli.cur.id, heard) BY DEF OrderInv
<1>4. Ordered(Ids(n.q), n.cur.id, heard) /\ (n.cur.id # 0 => n.cur.id >= cli.cur.id)
  BY <1>3, TakenAre, NextOrdered
<1> HIDE DEF n
<1>5. CliNow(cli.entry, n.q, n.cur, cli.proc) BY <1>1, <1>2, CliTaken DEF Types
<1>6. cli'.q = n.q /\ cli'.cur = n.cur BY <1>5 DEF CliNow
<1> QED BY <1>1, <1>4, <1>6, CliAlone

-----------------------------------------------------------------------------
(* The driver as a whole *)

\* The inductive invariant: the connection's, what a request needs of the
\* radio, the radio's own, and the order of the queues.
Whole == Inv /\ Asked /\ R!IInv /\ OrderInv

\* A step that leaves the radio alone leaves its invariant alone.
LEMMA StaysKeep ==
  ASSUME fg \in CallT, R!IInv, Asked, StaysOut
  PROVE  R!IInv' /\ Asked' /\ UNCHANGED R!rvars
<1>1. UNCHANGED R!rvars
  <2>1. CASE fg' = fg
    <3>1. RadioCall' = RadioCall BY <2>1 DEF RadioCall
    <3> QED BY <3>1 DEF StaysOut, RadioFlags, R!rvars, R!flags, R!stack, flags, stack
  <2>2. CASE fg.at \notin RadioPhases /\ fg'.at \notin RadioPhases
    BY <2>2, NotRadio DEF StaysOut
  <2> QED BY <2>1, <2>2 DEF StaysOut
<1>2. R!IInv' BY <1>1, RadioOn
<1>3. Asked'
  <2>1. radio = "READY" => ~shut BY DEF R!IInv, R!RadioTruth
  <2>2. shut' = shut BY DEF StaysOut, RadioFlags, flags
  <2> QED BY <2>1, <2>2 DEF StaysOut, Asked
<1> QED BY <1>1, <1>2, <1>3

LEMMA RadioStepsAreRadio == ASSUME fg \in CallT, life \in Nat, RadioSteps PROVE [R!Next]_R!rvars
<1>1. CASE OnCheck \/ OnStart \/ OnPortInit \/ OnPortInitFails \/ OnRegister \/ OnCreateHost \/ OnHostCreated
           \/ OnCreateHostFails \/ OnWait \/ OnGiveUp \/ OnAbort
  BY <1>1, SeenOnCheck, SeenOnStart, SeenOnPortInit, SeenOnPortInitFails, SeenOnRegister, SeenOnCreateHost,
     SeenOnHostCreated, SeenOnCreateHostFails, SeenOnWait, SeenOnGiveUp, SeenOnAbort DEF R!Next, R!OnSteps
<1>2. CASE QueueBarrier \/ StartWorker \/ WaitCleanup \/ WorkerBegin \/ WorkerDrain \/ WorkerDeinit
  BY <1>2, SeenQueueBarrier, SeenStartWorker, SeenWaitCleanup, SeenWorkerBegin, SeenWorkerDrain, SeenWorkerDeinit
  DEF R!Next, R!CleanSteps, R!Worker
<1>3. CASE HostEnter \/ HostEnabled \/ OnSync \/ RunBarrier
  BY <1>3, SeenHostEnter, SeenHostEnabled, SeenOnSync, SeenRunBarrier DEF R!Next
<1>4. CASE StopHost
  BY <1>4, SeenWorkerStop DEF StopHost, R!Next, R!Worker
<1> QED BY <1>1, <1>2, <1>3, <1>4 DEF RadioSteps

\* Clearing the project ends, to the radio, as a call of off.
LEMMA ClearClientIsOff == ASSUME Inv, ClearClient PROVE R!Off /\ Asked'
<1>1. fg.at = "clear.client" /\ Go("clean") /\ UNCHANGED <<flags, stack, worker>> BY DEF ClearClient, At, LeaveRadio
<1>2. fg \in CallT /\ fg.op = "clear" /\ fg.gen = 0 /\ fg.stay = TRUE BY <1>1 DEF Inv, Types, CallInv, Clearing, CallT
<1>3. fg'.at = "clean" /\ fg'.op = "clear" /\ fg'.gen = 0 /\ fg'.stay = TRUE BY <1>1, <1>2 DEF Go, CallT
<1>4. RadioCall' = [op |-> "off", at |-> "clean", gen |-> 0, stay |-> TRUE] BY <1>3 DEF RadioCall, Seen, RadioPhases
<1>5. R!At("idle") BY <1>1, SeenIdle DEF RadioPhases
<1>6. R!Off BY <1>1, <1>4, <1>5 DEF R!Off, R!Begin, R!flags, R!stack, flags, stack
<1> QED BY <1>3, <1>6 DEF Asked, Asking

LEMMA OffAllIsOff == ASSUME fg \in CallT, OffAll PROVE R!Off /\ Asked'
<1>1. R!Off BY SeenOff DEF OffAll
<1>2. fg'.at = "clean" BY DEF OffAll, Off, Begin
<1> QED BY <1>1, <1>2 DEF Asked, Asking

\* A reset is the radio's own while nobody stops it, and nothing to it after.
LEMMA ResetIsReset == ASSUME Reset PROVE [R!Next]_R!rvars
<1>1. CASE shut
  <2>1. UNCHANGED rvars BY <1>1 DEF Reset
  <2>2. RadioCall' = RadioCall BY <2>1 DEF rvars, RadioCall
  <2> QED BY <2>1, <2>2 DEF rvars, R!rvars, flags, stack, R!flags, R!stack
<1>2. CASE ~shut
  BY <1>2, SeenOnReset DEF Reset, R!Next
<1> QED BY <1>1, <1>2

LEMMA RadioGroupKeeps ==
  ASSUME Whole, RadioSteps \/ Reset \/ Shutdown \/ HostGone \/ MayBeOff
  PROVE  Whole' /\ OrderStep /\ [R!Next]_R!rvars
<1>1. Inv /\ Asked /\ R!IInv /\ OrderInv /\ Types /\ fg \in CallT /\ life \in Nat
  BY DEF Whole, Inv, Types, R!IInv, R!Types
<1>2. [R!Next]_R!rvars
  <2>1. CASE RadioSteps BY <1>1, <2>1, RadioStepsAreRadio
  <2>2. CASE Reset BY <2>2, ResetIsReset
  <2>3. CASE Shutdown BY <1>1, <2>3, SeenTakeShutdown DEF Shutdown, R!Next, R!CleanSteps
  <2>4. CASE HostGone BY <2>4, SeenHostLeave DEF HostGone, R!Next
  <2>5. CASE MayBeOff BY <1>1, <2>5, MayBeOffMoves
  <2> QED BY <2>1, <2>2, <2>3, <2>4, <2>5
<1>3. R!IInv' BY <1>1, <1>2, RadioOn
<1>4. Inv' /\ Asked' /\ QueuesQuiet
  BY <1>1, RadioStepsKeep, ResetKeeps, ShutdownKeeps, HostGoneKeeps, MayBeOffKeeps
<1> QED BY <1>1, <1>2, <1>3, <1>4, QuietOrder DEF Whole

LEMMA ClearKeeps == ASSUME Whole, ClearSteps PROVE Whole' /\ OrderStep /\ [R!Next]_R!rvars
<1>1. Inv /\ Asked /\ R!IInv /\ OrderInv /\ Types /\ fg \in CallT BY DEF Whole, Inv, Types
<1>2. Inv' /\ QueuesQuiet
  BY <1>1, OffAllKeeps, ProjectClearKeeps, ClearAdvertisingKeeps, ClearLinkKeeps, ClearServerKeeps, ClearClientKeeps
  DEF ClearSteps
<1>3. Asked' /\ [R!Next]_R!rvars
  <2>1. CASE OffAll \/ ClearClient BY <1>1, <2>1, OffAllIsOff, ClearClientIsOff DEF R!Next
  <2>2. CASE ProjectClear \/ ClearAdvertising \/ ClearLink \/ ClearServer
    <3>1. StaysOut BY <1>1, <2>2, ClearStaysOut
    <3> QED BY <1>1, <3>1, StaysKeep
  <2> QED BY <2>1, <2>2 DEF ClearSteps
<1>4. R!IInv' BY <1>1, <1>3, RadioOn
<1> QED BY <1>1, <1>2, <1>3, <1>4, QuietOrder DEF Whole

LEMMA ScanKeeps == ASSUME Whole, ScanSteps PROVE Whole' /\ OrderStep /\ UNCHANGED R!rvars
<1>1. Inv /\ OrderInv /\ Types /\ fg \in CallT BY DEF Whole, Inv, Types
<1>2. R!IInv' /\ Asked' /\ UNCHANGED R!rvars BY <1>1, ScanStaysOut, StaysKeep DEF Whole
<1>3. CASE ScanStart \/ ScanCall \/ ScanCheck \/ ScanStop \/ ScanCancel \/ ScanStopped \/ ReportHeard \/
      ReportFiltered \/ DiscComplete
  <2>1. Inv' /\ QueuesQuiet BY <1>1, <1>3, ScanStartKeeps, ScanCallKeeps, ScanCheckKeeps, ScanStopKeeps,
      ScanCancelKeeps, ScanStoppedKeeps, ReportHeardKeeps, ReportFilteredKeeps, DiscCompleteKeeps
  <2> QED BY <1>1, <1>2, <2>1, QuietOrder DEF Whole
<1>4. CASE ScanNext BY <1>1, <1>2, <1>4, ScanNextKeeps, ScanNextOrder DEF Whole
<1>5. CASE ReportQueued BY <1>1, <1>2, <1>5, ReportQueuedKeeps, ReportQueuedOrder DEF Whole
<1> QED BY <1>3, <1>4, <1>5 DEF ScanSteps

LEMMA AdvKeeps == ASSUME Whole, AdvSteps PROVE Whole' /\ OrderStep /\ UNCHANGED R!rvars
<1>1. Inv /\ OrderInv /\ Types /\ fg \in CallT BY DEF Whole, Inv, Types
<1>2. R!IInv' /\ Asked' /\ UNCHANGED R!rvars BY <1>1, AdvStaysOut, StaysKeep DEF Whole
<1>3. CASE AdvertiseStart \/ AdvertiseCall \/ AdvertiseCheck \/ AdvertiseStop \/ AdvertiseCancel \/ AdvertiseStopped
      \/ AdvertiseOver \/ Incoming \/ IncomingPending \/ RefuseLink
  <2>1. Inv' /\ QueuesQuiet BY <1>1, <1>3, AdvertiseStartKeeps, AdvertiseCallKeeps, AdvertiseCheckKeeps,
      AdvertiseStopKeeps, AdvertiseCancelKeeps, AdvertiseStoppedKeeps, AdvertiseOverKeeps, IncomingKeeps,
      IncomingPendingKeeps, RefuseLinkKeeps
  <2> QED BY <1>1, <1>2, <2>1, QuietOrder DEF Whole
<1> QED BY <1>3 DEF AdvSteps

LEMMA ConnKeeps == ASSUME Whole, ConnSteps PROVE Whole' /\ OrderStep /\ UNCHANGED R!rvars
<1>1. Inv /\ OrderInv /\ Types /\ fg \in CallT BY DEF Whole, Inv, Types
<1>2. R!IInv' /\ Asked' /\ UNCHANGED R!rvars BY <1>1, ConnStaysOut, StaysKeep DEF Whole
<1>3. CASE Connect \/ ConnectCall \/ ConnectWait \/ ConnectAbort \/ ConnectCancel \/ ConnectFailed \/ Connected \/
      LinkLost \/ LinkDown \/ TerminateFails \/ Accept
  <2>1. Inv' /\ QueuesQuiet BY <1>1, <1>3, ConnectKeeps, ConnectCallKeeps, ConnectWaitKeeps, ConnectAbortKeeps,
      ConnectCancelKeeps, ConnectFailedKeeps, ConnectedKeeps, LinkLostKeeps, LinkDownKeeps, TerminateFailsKeeps,
      AcceptKeeps
  <2> QED BY <1>1, <1>2, <2>1, QuietOrder DEF Whole
<1>4. CASE RejectPending \/ Close \/ CloseCall \/ CloseDone \/ Params \/ ParamsCall \/ ParamsUpdated \/ Mtu \/
      MtuCall \/ MtuWait \/ MtuComplete
  <2>1. Inv' /\ QueuesQuiet BY <1>1, <1>4, RejectPendingKeeps, CloseKeeps, CloseCallKeeps, CloseDoneKeeps,
      ParamsKeeps, ParamsCallKeeps, ParamsUpdatedKeeps, MtuKeeps, MtuCallKeeps, MtuWaitKeeps, MtuCompleteKeeps
  <2> QED BY <1>1, <1>2, <2>1, QuietOrder DEF Whole
<1> QED BY <1>3, <1>4 DEF ConnSteps

LEMMA ServerKeeps == ASSUME Whole, ServerSteps PROVE Whole' /\ OrderStep /\ UNCHANGED R!rvars
<1>1. Inv /\ OrderInv /\ Types /\ fg \in CallT BY DEF Whole, Inv, Types
<1>2. R!IInv' /\ Asked' /\ UNCHANGED R!rvars BY <1>1, ServerStaysOut, StaysKeep DEF Whole
<1>3. CASE RemoteSubscribe \/ Indicate \/ IndicateArm \/ IndicateCall \/ IndicateWait \/ Acknowledged
  <2>1. Inv' /\ QueuesQuiet BY <1>1, <1>3, RemoteSubscribeKeeps, IndicateKeeps, IndicateArmKeeps, IndicateCallKeeps,
      IndicateWaitKeeps, AcknowledgedKeeps
  <2> QED BY <1>1, <1>2, <2>1, QuietOrder DEF Whole
<1>4. CASE RemoteWrite BY <1>1, <1>2, <1>4, RemoteWriteKeeps, RemoteWriteOrder DEF Whole
<1>5. CASE WriteNext BY <1>1, <1>2, <1>5, WriteNextKeeps, WriteNextOrder DEF Whole
<1> QED BY <1>3, <1>4, <1>5 DEF ServerSteps

LEMMA ClientKeeps == ASSUME Whole, ClientSteps PROVE Whole' /\ OrderStep /\ UNCHANGED R!rvars
<1>1. Inv /\ OrderInv /\ Types /\ fg \in CallT BY DEF Whole, Inv, Types
<1>2. R!IInv' /\ Asked' /\ UNCHANGED R!rvars BY <1>1, ClientStaysOut, StaysKeep DEF Whole
<1>3. CASE Find \/ Read \/ Write \/ Subscribe \/ ClientCall \/ ClientWait \/ ClientAbandon \/ ClientNext \/
      ClientAnswered
  <2>1. Inv' /\ QueuesQuiet BY <1>1, <1>3, FindKeeps, ReadKeeps, WriteKeeps, SubscribeKeeps, ClientCallKeeps,
      ClientWaitKeeps, ClientAbandonKeeps, ClientNextKeeps, ClientAnsweredKeeps
  <2> QED BY <1>1, <1>2, <2>1, QuietOrder DEF Whole
<1>4. CASE Notified BY <1>1, <1>2, <1>4, NotifiedKeeps, NotifiedOrder DEF Whole
<1>5. CASE NotificationNext BY <1>1, <1>2, <1>5, NotificationNextKeeps, NotificationNextOrder DEF Whole
<1> QED BY <1>3, <1>4, <1>5 DEF ClientSteps

LEMMA GattStutterKeeps == ASSUME Whole, UNCHANGED gvars PROVE Whole' /\ OrderStep /\ [R!Next]_R!rvars
<1>1. UNCHANGED <<rvars, lvars>> BY DEF gvars
<1>2. UNCHANGED <<radio, life, done, portFlag, created, running, shut, need, port, host, enabled, barrier, worker, fg>>
  BY <1>1 DEF rvars, flags, stack
<1>3. UNCHANGED <<roles, scan, adv, conn, notices, srv, cli, nim, cb, heard>> BY <1>1 DEF lvars, bleVars
<1>4. Inv /\ Types /\ OrderInv BY DEF Whole, Inv
<1>5. QueuesQuiet BY <1>3 DEF QueuesQuiet, GattQuiet
<1>6. OrderInv' /\ OrderStep BY <1>4, <1>5, QuietOrder
<1>7. RadioCall' = RadioCall BY <1>2 DEF RadioCall
<1>8. UNCHANGED R!rvars BY <1>2, <1>7 DEF R!rvars, R!flags, R!stack
<1>9. R!IInv' BY <1>8, RadioOn DEF Whole
<1>10. Asked' BY <1>2 DEF Whole, Asked
<1>11. Aside /\ Types'
  <2>1. Types' BY <1>2, <1>3, <1>4 DEF Types
  <2>2. Aside BY <1>2, <1>3 DEF Aside, NimKept, CbAside, HostAside, CallAside
  <2> QED BY <2>1, <2>2
<1>12. Inv' BY <1>4, <1>11, AsideKeeps
<1> QED BY <1>6, <1>8, <1>9, <1>10, <1>12 DEF Whole

\* Every step keeps the invariant and the order, and is the radio's or none of
\* its business.
LEMMA GattNextKeeps == ASSUME Whole, [GattNext]_gvars PROVE Whole' /\ OrderStep /\ [R!Next]_R!rvars
<1>1. CASE RadioSteps \/ Reset \/ Shutdown \/ HostGone \/ MayBeOff BY <1>1, RadioGroupKeeps
<1>2. CASE ClearSteps BY <1>2, ClearKeeps
<1>3. CASE ScanSteps BY <1>3, ScanKeeps
<1>4. CASE AdvSteps BY <1>4, AdvKeeps
<1>5. CASE ConnSteps BY <1>5, ConnKeeps
<1>6. CASE ServerSteps BY <1>6, ServerKeeps
<1>7. CASE ClientSteps BY <1>7, ClientKeeps
<1>8. CASE UNCHANGED gvars BY <1>8, GattStutterKeeps
<1> QED BY <1>1, <1>2, <1>3, <1>4, <1>5, <1>6, <1>7, <1>8 DEF GattNext

LEMMA GattInitHolds == ASSUME GattInit PROVE Whole /\ R!Init
<1>1. fg = Idle /\ radio = "OFF" /\ host = "none" /\ shut = FALSE BY DEF GattInit, Init
<1>2. fg.at = "idle" /\ fg \in CallT BY <1>1 DEF Idle, CallT, Ops, GattPhases
<1>3. RadioCall = Idle BY <1>2, SeenIdle DEF RadioPhases
<1>4. R!Init BY <1>3 DEF GattInit, Init, R!Init, R!Idle, Idle, R!NoWorker, NoWorker
<1>5. R!IInv BY <1>4, R!InitHolds, RadioAssumption DEF R!RadioAssumption
<1>6. /\ roles \in Builds /\ conn = FreeConn(0) /\ notices = <<>> /\ srv = ServerOff /\ cli = ClientClear
      /\ cb = NoCb /\ heard = 0 /\ scan = [st |-> "IDLE", gen |-> 0, q |-> <<>>, cur |-> 0]
      /\ adv = [st |-> "IDLE", gen |-> 0]
      /\ nim = [scan |-> 0, adv |-> 0, conn |-> 0, link |-> NoLink, links |-> 0,
                mtu |-> FALSE, ind |-> 0, proc |-> NoProc]
  BY DEF GattInit, LinkInit
<1>7. /\ conn \in ConnT /\ conn.st = "FREE" /\ conn.gen = 0 /\ conn.h = FALSE /\ conn.mtu = FALSE /\ conn.link = 0
  BY <1>6 DEF FreeConn, ConnT, ConnStates, ConnRoles
<1>8. /\ srv.sub.mode = "none" /\ srv.q = <<>> /\ srv.cur = NoWrite /\ srv.ind = NoInd
  BY <1>6 DEF ServerOff
<1>9. /\ NoInd \in IndT /\ NoInd.pending = FALSE /\ NoInd.gen = 0 /\ NoInd.answer = 0
  BY DEF NoInd, IndT
<1>10. srv \in SrvT BY <1>6, <1>9, Constants DEF ServerOff, SrvT, NoSub
<1>11. /\ cli.entry.valid = FALSE /\ cli.q = <<>> /\ cli.cur = NoWrite /\ cli.proc = NoClientProc BY <1>6
    DEF ClientClear
<1>12. /\ NoClientProc \in ProcT /\ NoClientProc.pending = FALSE /\ NoClientProc.gen = 0 /\ NoClientProc.answer = 0
       /\ NoClientProc.complete = FALSE
  BY DEF NoClientProc, ProcT, Stages, ClientModes
<1>13. cli \in CliT BY <1>6, <1>12, Constants DEF ClientClear, CliT, KnownT, ClientModes
<1>14. /\ nim \in NimT /\ nim.scan = 0 /\ nim.adv = 0 /\ nim.conn = 0 /\ nim.link = NoLink /\ nim.mtu = FALSE
       /\ nim.ind = 0 /\ nim.proc = NoProc
  BY <1>6, NothingAsked DEF NimT
<1>15. nim.link.id = 0 /\ nim.link.cb = 0 /\ nim.proc.stage = "none" BY <1>14, NothingAsked
<1>16. cb \in CbT /\ cb.kind = "none" BY <1>6 DEF NoCb, CbT, CbKinds
<1>17. scan \in ScanT /\ scan.q = <<>> /\ scan.cur = 0 /\ adv \in AdvT /\ adv.st = "IDLE"
  BY <1>6 DEF ScanT, AdvT, UseStates
<1>18. Types BY <1>2, <1>6, <1>7, <1>10, <1>13, <1>14, <1>16, <1>17 DEF Types
<1>19. CallInv BY <1>2 DEF CallInv, Clearing
<1>20. LinkInv BY <1>7, <1>14, <1>15, <1>16 DEF LinkInv, LinkUp
<1>21. PlaceInv BY <1>2 DEF PlaceInv, Holding, Closing, Clearing
<1>22. SubInv BY <1>8, <1>11 DEF SubInv
<1>23. DataInv BY <1>8, <1>11, Constants DEF DataInv, DataAt
<1>24. IndInv BY <1>2, <1>7, <1>8, <1>9, <1>14 DEF IndInv
<1>25. ProcInv BY <1>2, <1>7, <1>11, <1>12, <1>14, <1>15 DEF ProcInv, ProcA, ProcB, ProcC
<1>26. MtuInv BY <1>7, <1>14 DEF MtuInv
<1>27. Asked BY <1>2 DEF Asked, Asking
<1>28. OrderInv
  <2>1. 0 \in Nat /\ 0 <= 0 OBVIOUS
  <2>2. Ordered(<<>>, 0, 0) /\ Ordered(Ids(<<>>), 0, 0) BY <2>1, NothingOrdered
  <2> QED BY <1>6, <1>8, <1>11, <1>17, <2>2, Constants DEF OrderInv
<1> QED BY <1>4, <1>5, <1>18, <1>19, <1>20, <1>21, <1>22, <1>23, <1>24, <1>25, <1>26, <1>27, <1>28 DEF Whole, Inv

\* The inductive invariant holds of the whole driver.
THEOREM DriverInductive == GattSpec => []Whole
<1>1. GattInit => Whole BY GattInitHolds
<1>2. Whole /\ [GattNext]_gvars => Whole' BY GattNextKeeps
<1> QED BY <1>1, <1>2, PTL DEF GattSpec

LEMMA WholeCrossesNothing == ASSUME Whole PROVE NothingCrosses
<1>1. SubInv /\ DataInv /\ IndInv /\ ProcA /\ PlaceInv BY DEF Whole, Inv, ProcInv
<1>2. GattIsOfConnection BY <1>1 DEF SubInv, GattIsOfConnection
<1>3. DataIsOfConnection BY <1>1 DEF DataInv, DataIsOfConnection
<1>4. AnswersAreOwn BY <1>1 DEF IndInv, ProcA, AnswersAreOwn
<1>5. ClearIsComplete BY <1>1 DEF PlaceInv, ClearIsComplete, At
<1> QED BY <1>2, <1>3, <1>4, <1>5 DEF NothingCrosses

\* Nothing of a connection that is gone reaches the one after it: no
\* subscription, cached handle, queued write or notification, answer of a
\* request or indication; and clearing a project leaves none of them
\* (fr_esp_ble_gatt_*, fr_platform_ble_project_clear).
THEOREM NothingEverCrosses == GattSpec => []NothingCrosses
<1>1. Whole => NothingCrosses BY WholeCrossesNothing
<1> QED BY <1>1, DriverInductive, PTL

LEMMA WholeOwesBusy == ASSUME Whole PROVE BusyIsOwed
<1>1. LinkInv /\ IndInv /\ ProcA /\ ProcC /\ MtuInv BY DEF Whole, Inv, ProcInv
<1>2. SUFFICES ASSUME Settled
               PROVE  /\ srv.ind.pending => nim.ind = srv.ind.id
                      /\ cli.proc.pending => nim.proc.id = cli.proc.id \/ (cli.proc.abandoned /\ StageOver)
                      /\ conn.mtu => nim.mtu
  BY DEF BusyIsOwed
<1>3. fg.at = "idle" /\ cb.kind = "none" BY <1>2 DEF Settled, At, NoCb
<1>4. conn.h => LinkUp BY <1>1, <1>3 DEF LinkInv
<1>5. srv.ind.pending => nim.ind = srv.ind.id BY <1>1, <1>3, <1>4 DEF IndInv
<1>6. cli.proc.pending => nim.proc.id = cli.proc.id \/ (cli.proc.abandoned /\ StageOver)
  BY <1>1, <1>3, <1>4 DEF ProcA, ProcC, StageOver
<1>7. conn.mtu => nim.mtu BY <1>1, <1>3, <1>4 DEF MtuInv
<1> QED BY <1>5, <1>6, <1>7

\* A later call is refused as busy only while NimBLE still owes the answer of
\* an indication, a request or an exchange of the MTU, except for the find
\* abandoned in the gap of fr_esp_ble_gatt_client_wait.
THEOREM BusyIsAlwaysOwed == GattSpec => []BusyIsOwed
<1>1. Whole => BusyIsOwed BY WholeOwesBusy
<1> QED BY <1>1, DriverInductive, PTL

\* What each queue hands out was heard after what it handed out before: scan
\* reports, writes to the server, notifications of the client, over any
\* connections.
THEOREM QueuesInOrder == GattSpec => InOrder
<1>1. Whole /\ [GattNext]_gvars => OrderStep BY GattNextKeeps
<1> QED BY <1>1, DriverInductive, PTL DEF GattSpec, InOrder, OrderStep

\* The driver around it never does to the radio what the radio alone does not:
\* what FrothyBleRadioProof shows of FrothyBleRadio, HostSafe and the refinement
\* of BlePower, holds of the whole driver.
THEOREM RadioIsTheSame == GattSpec => R!Init /\ [][R!Next]_(R!rvars)
<1>1. GattInit => R!Init BY GattInitHolds
<1>2. Whole /\ [GattNext]_gvars => [R!Next]_R!rvars BY GattNextKeeps
<1> QED BY <1>1, <1>2, DriverInductive, PTL DEF GattSpec

LEMMA WholeIsHostSafe == ASSUME Whole PROVE R!HostSafe
<1>1. R!IInv BY DEF Whole
<1> QED BY <1>1, R!InvIsSafe, RadioAssumption DEF R!RadioAssumption

\* Each step of the radio keeps BlePower's promise.
LEMMA RadioKeepsPower == ASSUME R!IInv, [R!Next]_R!rvars PROVE R!PowerStep
  BY R!NextPower, RadioAssumption DEF R!RadioAssumption

\* So a program reads of the radio, in the whole driver too, only what BlePower
\* promises (PowerKept speaks of the radio and the port, which are the same).
THEOREM DriverKeepsPower == GattSpec => PowerKept
<1>1. GattInit => Power!BpInit BY DEF GattInit, Init, Power!BpInit
<1>2. Whole /\ [GattNext]_gvars => [Power!BpNext]_(Power!bpvars)
  <2> SUFFICES ASSUME Whole, [GattNext]_gvars PROVE [Power!BpNext]_(Power!bpvars) OBVIOUS
  <2>1. [R!Next]_R!rvars /\ R!IInv BY GattNextKeeps DEF Whole
  <2>2. R!PowerStep BY <2>1, RadioKeepsPower
  <2> QED BY <2>2 DEF R!PowerStep, R!Power!BpNext, R!Power!BpStart, R!Power!BpUp, R!Power!BpReady, R!Power!BpFail,
      R!Power!BpStop, R!Power!BpDown, R!Power!BpGiveBack, R!Power!BpOff, R!Power!bpvars, Power!BpNext,
      Power!BpStart, Power!BpUp, Power!BpReady, Power!BpFail, Power!BpStop, Power!BpDown, Power!BpGiveBack,
      Power!BpOff, Power!bpvars
<1> QED BY <1>1, <1>2, DriverInductive, PTL DEF GattSpec, PowerKept, Power!BpSpec

\* Whatever the rest of the driver does meanwhile, no start runs over the
\* remains of an earlier one, nothing is released under the host task, and the
\* flags are true: HostSafe, as FrothyBleRadioProof has it of the radio alone.
THEOREM HostStaysSafe == GattSpec => []R!HostSafe
<1>1. Whole => R!HostSafe BY WholeIsHostSafe
<1> QED BY <1>1, DriverInductive, PTL

-----------------------------------------------------------------------------
(* The agreement of the driver and the controller.  Before a call or a       *)
(* callback is over the two may differ; these say by how much.               *)

Scanning == {"scan.call", "scan.check", "scan.cancel", "scan.stopped"}
Advertising == {"adv.call", "adv.check", "adv.cancel", "adv.stopped"}
Connecting == {"connect.call", "connect.wait"}
\* A clear drops what the controller still does, until the radio is stopped.
Forgetting == Cleared \cup {"clear.adv", "clear.conn"}

\* The controller scans for the scan of now, or a clear has dropped that scan;
\* a scan that is active has been started, or is about to be.
ScanInv ==
  /\ scan.st # "IDLE" => radio = "READY"
  /\ nim.scan # 0 => host \in {"running", "leaving"}
  /\ radio = "STARTING" => nim.scan = 0
  /\ fg.at = "scan.call" => nim.scan = 0 /\ (radio = "READY" => scan.st = "ACTIVE")
  /\ fg.at \in {"scan.call", "scan.check"} /\ scan.st = "ACTIVE" => fg.gen = scan.gen
  /\ fg.at \in {"scan.cancel", "scan.stopped"} => scan.st # "ACTIVE"
  /\ fg.at = "scan.stopped" => nim.scan = 0
  /\ radio = "READY" /\ nim.scan # 0 => (nim.scan = scan.gen /\ scan.st # "IDLE") \/ fg.at \in Forgetting
  /\ scan.st = "ACTIVE" => nim.scan = scan.gen \/ fg.at = "scan.call"

\* The same of the advertisement.
AdvInv ==
  /\ adv.st # "IDLE" => radio = "READY"
  /\ nim.adv # 0 => host \in {"running", "leaving"}
  /\ radio = "STARTING" => nim.adv = 0
  /\ fg.at = "adv.call" => nim.adv = 0 /\ (radio = "READY" => adv.st = "ACTIVE")
  /\ fg.at \in {"adv.call", "adv.check"} /\ adv.st = "ACTIVE" => fg.gen = adv.gen
  /\ fg.at \in {"adv.cancel", "adv.stopped"} => adv.st # "ACTIVE"
  /\ fg.at = "adv.stopped" => nim.adv = 0
  /\ radio = "READY" /\ nim.adv # 0 => (nim.adv = adv.gen /\ adv.st # "IDLE") \/ fg.at \in Forgetting
  /\ adv.st = "ACTIVE" => nim.adv = adv.gen \/ fg.at = "adv.call"

\* Whoever uses the radio has it alone.
ApartInv ==
  /\ scan.st # "IDLE" \/ nim.scan # 0 \/ fg.at = "scan.call" => adv.st = "IDLE" /\ nim.adv = 0
  /\ adv.st # "IDLE" \/ nim.adv # 0 \/ fg.at = "adv.call" => scan.st = "IDLE" /\ nim.scan = 0
UseInv == ScanInv /\ AdvInv /\ ApartInv

\* A link has an owner, or is refused or terminated, or a clear has dropped it.
OwnerInv ==
  /\ radio = "STARTING" => ~LinkUp /\ nim.conn = 0
  /\ LinkUp /\ nim.link.term = "no" => conn.h \/ cb.kind = "refuse" \/ fg.at \in Cleared \/ radio # "READY"
  /\ fg.at = "closed.gone" /\ fg.gen = conn.gen /\ conn.st = "CLOSING" => ~LinkUp

\* NimBLE connects for the connection of now, which has no handle yet; and a
\* connection that waits for NimBLE is known to it, or to the call about to ask.
PendingInv ==
  /\ radio = "READY" /\ nim.conn # 0 /\ fg.at \notin Cleared =>
       nim.conn = conn.gen /\ conn.role = "central" /\ conn.st \in {"CONNECTING", "CLOSING"} /\ ~conn.h /\ ~conn.done
  /\ fg.at = "connect.call" => nim.conn = 0 /\ (radio = "READY" => ~conn.done)
  /\ conn.st = "CLOSING" /\ ~conn.h => nim.conn = conn.gen /\ conn.role = "central"
  /\ conn.st = "CONNECTING" /\ conn.role = "central" => conn.ref /\ fg.at \in Connecting /\ fg.gen = conn.gen
  /\ conn.st = "CONNECTING" /\ conn.role = "central" /\ fg.at = "connect.wait" /\ ~conn.done => nim.conn = conn.gen

\* The program has a handle for a connection it may use or close.
HandleInv ==
  /\ conn.st \in {"LIVE", "DISCONNECTED"} => conn.ref
  /\ fg.at \in Closing /\ fg.op = "close" /\ fg.gen = conn.gen /\ conn.st = "CLOSING" => conn.ref

\* The program is told of a pending connection, and there is room to tell it.
NoticeInv ==
  /\ conn.st = "PENDING" => Contains(notices, conn.gen)
  /\ Len(notices) <= NoticeQueue
  /\ cb.kind = "accept" /\ cb.arg = conn.gen /\ conn.st = "CONNECTING" => Len(notices) < NoticeQueue
SlotInv == OwnerInv /\ PendingInv /\ HandleInv /\ NoticeInv

SizeInv == Len(scan.q) <= ScanQueue /\ Len(srv.q) <= DataQueue /\ Len(cli.q) <= DataQueue

\* The inductive invariant, with the agreement.
Agreed == Whole /\ UseInv /\ SlotInv /\ SizeInv

LEMMA AgreedIsTyped == ASSUME Agreed PROVE LinkTypeOK
<1>1. Types /\ R!HostSafe BY WholeIsHostSafe DEF Agreed, Whole, Inv
<1>2. conn \in ConnT /\ scan \in ScanT /\ adv \in AdvT /\ fg \in CallT /\ roles \in Builds BY <1>1 DEF Types
<1>3. fg.gen \in Nat /\ fg.stay \in BOOLEAN BY <1>2 DEF CallT
<1>4. TypeOK BY <1>1, <1>3 DEF R!HostSafe, R!TypeOK, TypeOK
<1>5. scan.st \in {"IDLE", "ACTIVE", "STOPPING"} /\ adv.st \in {"IDLE", "ACTIVE", "STOPPING"}
  BY <1>2 DEF ScanT, AdvT, UseStates
<1>6. conn.st \in ConnStates /\ conn.role \in ConnRoles BY <1>2 DEF ConnT
<1> QED BY <1>2, <1>4, <1>5, <1>6 DEF LinkTypeOK, Agreed, SlotInv, NoticeInv, SizeInv, ConnStates, ConnRoles

LEMMA AgreedUsesRadio == ASSUME Agreed PROVE RadioUse
  BY DEF Agreed, UseInv, ScanInv, AdvInv, ApartInv, RadioUse, Settled, At, Forgetting, Cleared

LEMMA AgreedOwns == ASSUME Agreed PROVE NoOrphanLink /\ LiveHasLink /\ SlotHasOwner
<1>1. SUFFICES ASSUME Settled
               PROVE  /\ LinkUp /\ nim.link.term = "no" => conn.h
                      /\ conn.h => LinkUp /\ nim.link.cb = conn.gen /\ conn.link = nim.link.id
                      /\ conn.st \in {"PENDING", "LIVE"} => conn.h
                      /\ conn.st # "CONNECTING"
                      /\ conn.st \in {"LIVE", "DISCONNECTED"} => conn.ref
                      /\ conn.st = "PENDING" => Contains(notices, conn.gen)
                      /\ conn.st = "CLOSING" => LinkUp \/ nim.conn = conn.gen
  BY DEF NoOrphanLink, LiveHasLink, SlotHasOwner
<1>2. fg.at = "idle" /\ cb.kind = "none" /\ radio = "READY" BY <1>1 DEF Settled, At, NoCb
<1>3. LinkInv /\ ConnOk BY TypesFlat DEF Agreed, Whole, Inv
<1>4. conn.h => LinkUp /\ nim.link.cb = conn.gen /\ conn.link = nim.link.id BY <1>2, <1>3 DEF LinkInv
<1>5. LinkUp /\ nim.link.term = "no" => conn.h BY <1>2 DEF Agreed, SlotInv, OwnerInv, Cleared
<1>6. conn.st \in {"PENDING", "LIVE"} => conn.h BY <1>3 DEF LinkInv
<1>7. conn.st # "CONNECTING"
  <2>1. conn.role \in {"none", "central", "peripheral"} BY <1>3 DEF ConnOk, ConnRoles
  <2>2. conn.st = "CONNECTING" => conn.role = "central" BY <1>2, <1>3, <2>1 DEF LinkInv
  <2> QED BY <1>2, <2>2 DEF Agreed, SlotInv, PendingInv, Connecting
<1>8. conn.st \in {"LIVE", "DISCONNECTED"} => conn.ref BY DEF Agreed, SlotInv, HandleInv
<1>9. conn.st = "PENDING" => Contains(notices, conn.gen) BY DEF Agreed, SlotInv, NoticeInv
<1>10. conn.st = "CLOSING" => LinkUp \/ nim.conn = conn.gen BY <1>4 DEF Agreed, SlotInv, PendingInv
<1> QED BY <1>4, <1>5, <1>6, <1>7, <1>8, <1>9, <1>10

-----------------------------------------------------------------------------
(* Steps that leave part of it alone *)

\* A call that neither uses the radio nor clears the project.
CallElsewhere == fg' = fg \/ (fg.at \notin Scanning \cup Advertising \cup Forgetting
                              /\ fg'.at \notin Scanning \cup Advertising)
ScanKept == scan'.st = scan.st /\ scan'.gen = scan.gen /\ nim'.scan = nim.scan
AdvKept == adv'.st = adv.st /\ adv'.gen = adv.gen /\ nim'.adv = nim.adv
RadioKept == radio' = radio /\ host' = host

LEMMA UseAside ==
  ASSUME UseInv, RadioKept, ScanKept, AdvKept, CallElsewhere
  PROVE  UseInv'
<1>1. CASE fg' = fg BY <1>1 DEF UseInv, ScanInv, AdvInv, ApartInv, RadioKept, ScanKept, AdvKept
<1>2. CASE fg.at \notin Scanning \cup Advertising \cup Forgetting /\ fg'.at \notin Scanning \cup Advertising
  <2>1. ScanInv' BY <1>2 DEF UseInv, ScanInv, RadioKept, ScanKept, Scanning
  <2>2. AdvInv' BY <1>2 DEF UseInv, AdvInv, RadioKept, AdvKept, Advertising
  <2>3. ApartInv' BY <1>2 DEF UseInv, ApartInv, RadioKept, ScanKept, AdvKept, Scanning, Advertising
  <2> QED BY <2>1, <2>2, <2>3 DEF UseInv
<1> QED BY <1>1, <1>2 DEF CallElsewhere

\* The connection is the same to everybody but its parameters and its MTU.
ConnSame ==
  /\ conn'.st = conn.st /\ conn'.role = conn.role /\ conn'.gen = conn.gen
  /\ conn'.h = conn.h /\ conn'.ref = conn.ref /\ conn'.done = conn.done
LinkSame ==
  /\ nim'.conn = nim.conn /\ nim'.link.id = nim.link.id
  /\ LinkUp => nim'.link.term = nim.link.term
CbSame == cb' = cb \/ (cb.kind # "refuse" /\ cb'.kind # "accept")
\* A call that neither connects nor closes; a clear goes on to its end.
CallApart ==
  \/ fg' = fg
  \/ /\ fg.at \notin Connecting /\ fg'.at \notin Connecting \cup Closing
     /\ fg.at \in Cleared => fg'.at \in Cleared

LEMMA SlotAside ==
  ASSUME SlotInv, RadioKept, ConnSame, notices' = notices, LinkSame, CbSame, CallApart
  PROVE  SlotInv'
<1>1. LinkUp' <=> LinkUp BY DEF LinkSame, LinkUp
<1>2. OwnerInv'
  <2>1. CASE fg' = fg BY <1>1, <2>1 DEF SlotInv, OwnerInv, RadioKept, ConnSame, LinkSame, CbSame
  <2>2. CASE /\ fg.at \notin Connecting /\ fg'.at \notin Connecting \cup Closing
             /\ fg.at \in Cleared => fg'.at \in Cleared
    BY <1>1, <2>2 DEF SlotInv, OwnerInv, RadioKept, ConnSame, LinkSame, CbSame, Closing
  <2> QED BY <2>1, <2>2 DEF CallApart
<1>3. PendingInv'
  <2>1. CASE fg' = fg BY <2>1 DEF SlotInv, PendingInv, RadioKept, ConnSame, LinkSame
  <2>2. CASE /\ fg.at \notin Connecting /\ fg'.at \notin Connecting \cup Closing
             /\ fg.at \in Cleared => fg'.at \in Cleared
    BY <2>2 DEF SlotInv, PendingInv, RadioKept, ConnSame, LinkSame, Connecting
  <2> QED BY <2>1, <2>2 DEF CallApart
<1>4. HandleInv' BY DEF SlotInv, HandleInv, ConnSame, CallApart
<1>5. NoticeInv' BY DEF SlotInv, NoticeInv, ConnSame, CbSame
<1> QED BY <1>2, <1>3, <1>4, <1>5 DEF SlotInv

\* What the server and the client do is apart from both.
DataPlace(p) == p \in Holding \cup {"idle"}
DataApart ==
  /\ UNCHANGED <<scan, adv, conn, notices, cb>>
  /\ nim'.scan = nim.scan /\ nim'.adv = nim.adv /\ nim'.conn = nim.conn /\ nim'.link = nim.link
  /\ fg' = fg \/ (DataPlace(fg.at) /\ DataPlace(fg'.at))

LEMMA ServerApart == ASSUME Types, ServerSteps PROVE DataApart
<1>0. nim \in NimT /\ fg \in CallT BY DEF Types
<1>1. CASE RemoteWrite \/ RemoteSubscribe BY <1>1 DEF DataApart, RemoteWrite, RemoteSubscribe, Callback
<1>2. CASE WriteNext BY <1>2 DEF DataApart, WriteNext, KeepGap
<1>3. CASE Indicate
  <2>1. fg.at = "idle" /\ fg'.at = "ind.arm" BY <1>3, DoAt DEF Indicate, Calls, At
  <2> QED BY <1>3, <2>1 DEF DataApart, Indicate, KeepGap, DataPlace, Holding
<1>4. CASE IndicateArm
  <2>1. fg.at = "ind.arm" /\ fg'.at \in {"ind.call", "idle"}
    <3>1. CASE fg' = [fg EXCEPT !.at = "ind.call", !.gen = conn.gen]
      <4>1. fg'.at = "ind.call" BY <1>0, <3>1, ArmAt
      <4> QED BY <1>4, <4>1 DEF IndicateArm, At
    <3>2. CASE Answer BY <1>4, <3>2, AnswerAt DEF IndicateArm, At
    <3> QED BY <1>4, <3>1, <3>2 DEF IndicateArm
  <2> QED BY <1>4, <2>1 DEF DataApart, IndicateArm, KeepGap, DataPlace, Holding
<1>5. CASE IndicateCall
  <2>1. fg.at = "ind.call" /\ fg'.at \in {"ind.wait", "idle"} BY <1>0, <1>5, GoAt, AnswerAt DEF IndicateCall, At
  <2>2. srv.ind.id \in Nat BY TypesFlat DEF IndOk
  <2>3. nim'.scan = nim.scan /\ nim'.adv = nim.adv /\ nim'.conn = nim.conn /\ nim'.link = nim.link
    BY <1>0, <1>5, <2>2, NimInd DEF IndicateCall, NimNow
  <2> QED BY <1>5, <2>1, <2>3 DEF DataApart, IndicateCall, KeepGap, DataPlace, Holding
<1>6. CASE IndicateWait
  <2>1. fg.at = "ind.wait" /\ fg'.at = "idle" BY <1>6, AnswerAt DEF IndicateWait, At
  <2> QED BY <1>6, <2>1 DEF DataApart, IndicateWait, lvars, bleVars, DataPlace, Holding
<1>7. CASE Acknowledged
  <2>1. nim' = [nim EXCEPT !.ind = 0] BY <1>7 DEF Acknowledged
  <2>2. nim'.scan = nim.scan /\ nim'.adv = nim.adv /\ nim'.conn = nim.conn /\ nim'.link = nim.link
    BY <1>0, <2>1, NimInd DEF NimNow
  <2> QED BY <1>7, <2>2 DEF DataApart, Acknowledged, Callback
<1> QED BY <1>1, <1>2, <1>3, <1>4, <1>5, <1>6, <1>7 DEF ServerSteps

LEMMA ClientApart == ASSUME Types, ClientSteps PROVE DataApart
<1>0. nim \in NimT /\ fg \in CallT BY DEF Types
<1>1. ASSUME NEW s, NEW m, Ask(s, m) PROVE DataApart
  <2>1. fg.at = "idle" /\ fg'.at = "cli.call" BY <1>1, DoAt DEF Ask, Calls, At
  <2> QED BY <1>1, <2>1 DEF DataApart, Ask, KeepGap, DataPlace, Holding
<1>2. CASE Find \/ Read \/ Write \/ Subscribe BY <1>1, <1>2 DEF Find, Read, Write, Subscribe
<1>3. CASE ClientCall
  <2>1. fg.at = "cli.call" /\ fg'.at = "cli.wait" BY <1>0, <1>3, GoAt DEF ClientCall, At
  <2>2. [gen |-> fg.gen, stage |-> cli.proc.stage, id |-> cli.proc.id] \in AskedT
    BY TypesFlat DEF ProcOk, PlacesOk, AskedT
  <2>3. nim'.scan = nim.scan /\ nim'.adv = nim.adv /\ nim'.conn = nim.conn /\ nim'.link = nim.link
    BY <1>0, <1>3, <2>2, NimProc DEF ClientCall, NimNow
  <2> QED BY <1>3, <2>1, <2>3 DEF DataApart, ClientCall, KeepGap, DataPlace, Holding
<1>4. CASE ClientWait
  <2>1. fg.at = "cli.wait" /\ fg'.at \in {"idle", "cli.next", "cli.abandon"}
    BY <1>0, <1>4, GoAt, AnswerAt DEF ClientWait, At
  <2> QED BY <1>4, <2>1 DEF DataApart, ClientWait, lvars, bleVars, DataPlace, Holding
<1>5. CASE ClientAbandon
  <2>1. fg.at = "cli.abandon" /\ fg'.at = "idle" BY <1>5, AnswerAt DEF ClientAbandon, At
  <2> QED BY <1>5, <2>1 DEF DataApart, ClientAbandon, KeepGap, DataPlace, Holding
<1>6. CASE ClientNext
  <2>1. fg.at = "cli.next" /\ fg'.at \in {"cli.wait", "cli.call"} BY <1>0, <1>6, GoAt DEF ClientNext, At
  <2> QED BY <1>6, <2>1 DEF DataApart, ClientNext, KeepGap, DataPlace, Holding
<1>7. CASE ClientAnswered
  <2>1. nim' = [nim EXCEPT !.proc = NoProc] BY <1>7 DEF ClientAnswered
  <2>2. nim'.scan = nim.scan /\ nim'.adv = nim.adv /\ nim'.conn = nim.conn /\ nim'.link = nim.link
    BY <1>0, <2>1, NimProc, NothingAsked DEF NimNow
  <2> QED BY <1>7, <2>2 DEF DataApart, ClientAnswered, Callback
<1>8. CASE Notified BY <1>8 DEF DataApart, Notified, Callback
<1>9. CASE NotificationNext BY <1>9 DEF DataApart, NotificationNext, KeepGap
<1> QED BY <1>2, <1>3, <1>4, <1>5, <1>6, <1>7, <1>8, <1>9 DEF ClientSteps

LEMMA StaysOutIsKept == ASSUME StaysOut PROVE RadioKept
  BY DEF StaysOut, RadioFlags, flags, stack, RadioKept

LEMMA DataStepsAgree ==
  ASSUME Whole, UseInv, SlotInv, ServerSteps \/ ClientSteps
  PROVE  UseInv' /\ SlotInv'
<1>1. Types /\ fg \in CallT BY DEF Whole, Inv, Types
<1>2. RadioKept BY <1>1, ServerStaysOut, ClientStaysOut, StaysOutIsKept
<1>3. DataApart BY <1>1, ServerApart, ClientApart
<1>4. CallElsewhere
  BY <1>3 DEF DataApart, CallElsewhere, DataPlace, Holding, Scanning, Advertising, Forgetting, Cleared
<1>5. CallApart BY <1>3 DEF DataApart, CallApart, DataPlace, Holding, Connecting, Closing, Cleared
<1>6. UseInv' BY <1>2, <1>3, <1>4, UseAside DEF DataApart, ScanKept, AdvKept
<1>7. SlotInv' BY <1>2, <1>3, <1>5, SlotAside DEF DataApart, ConnSame, LinkSame, CbSame
<1> QED BY <1>6, <1>7

-----------------------------------------------------------------------------
(* Who uses the radio: scanning and advertising *)

LEMMA StartingIsCalled == ASSUME Whole, radio = "STARTING" PROVE fg.at \in RadioPhases
<1>1. R!RadioTruth BY DEF Whole, R!IInv
<1> QED BY <1>1 DEF R!RadioTruth, R!Fresh, R!Waiting, RadioCall, Idle

LEMMA ScanAside ==
  ASSUME ScanInv, RadioKept, ScanKept, fg' = fg \/ (fg.at \notin Scanning \cup Forgetting /\ fg'.at \notin Scanning)
  PROVE  ScanInv'
  BY DEF ScanInv, RadioKept, ScanKept, Scanning

LEMMA AdvAside ==
  ASSUME AdvInv, RadioKept, AdvKept, fg' = fg \/ (fg.at \notin Advertising \cup Forgetting /\ fg'.at \notin Advertising)
  PROVE  AdvInv'
  BY DEF AdvInv, RadioKept, AdvKept, Advertising

ScanPlace(p) == p \in Scanning \cup {"idle"}
AdvPlace(p) == p \in Advertising \cup {"idle"}

LEMMA ScanStepsUse ==
  ASSUME Whole, UseInv, ScanSteps
  PROVE  UseInv'
<1>1. Types /\ nim \in NimT /\ fg \in CallT /\ scan \in ScanT BY DEF Whole, Inv, Types
<1>2. ConnOk /\ QueuesOk /\ NimOk /\ PlacesOk /\ UseOk BY <1>1, TypesFlat
<1>3. RadioKept BY <1>1, ScanStaysOut, StaysOutIsKept
<1>4. ScanInv /\ AdvInv /\ ApartInv BY DEF UseInv
<1>5. radio = "STARTING" => fg.at \in RadioPhases BY StartingIsCalled
<1>6. ASSUME AdvKept, fg' = fg \/ (ScanPlace(fg.at) /\ ScanPlace(fg'.at)), ScanInv', ApartInv'
      PROVE  UseInv'
  <2>1. fg' = fg \/ (fg.at \notin Advertising \cup Forgetting /\ fg'.at \notin Advertising)
    BY <1>6 DEF ScanPlace, Scanning, Advertising, Forgetting, Cleared
  <2>2. AdvInv' BY <1>3, <1>4, <1>6, <2>1, AdvAside
  <2> QED BY <1>6, <2>2 DEF UseInv
<1>7. CASE ScanStart
  <2>1. fg.at = "idle" /\ radio = "READY" /\ scan.st = "IDLE" /\ adv.st = "IDLE" BY <1>7 DEF ScanStart, Calls, At, Quiet
  <2>2. scan.gen + 1 \in Nat BY <1>2 DEF UseOk
  <2>3. ScanNow("ACTIVE", scan.gen + 1, <<>>, 0) BY <1>7, <2>2, ScanIs, Constants DEF ScanStart, UseStates
  <2>4. FgNow("scan", "scan.call", scan.gen + 1)
    BY <1>7, <2>2, FgDoes DEF ScanStart, Ops, GattPhases
  <2>5. nim' = nim /\ adv' = adv BY <1>7 DEF ScanStart
  <2>6. scan'.st = "ACTIVE" /\ scan'.gen = scan.gen + 1 /\ fg'.at = "scan.call" /\ fg'.gen = scan.gen + 1
    BY <2>3, <2>4 DEF ScanNow, FgNow
  <2>7. nim.scan = 0 /\ nim.adv = 0 BY <1>4, <2>1 DEF ScanInv, AdvInv, Forgetting, Cleared
  <2>8. ScanInv' BY <1>3, <1>4, <2>1, <2>5, <2>6, <2>7 DEF ScanInv, RadioKept
  <2>9. ApartInv' BY <2>1, <2>5, <2>6, <2>7 DEF ApartInv
  <2>10. AdvKept BY <2>5 DEF AdvKept
  <2> QED BY <1>6, <2>1, <2>6, <2>8, <2>9, <2>10 DEF ScanPlace, Scanning
<1>8. CASE ScanCall
  <2>1. fg.at = "scan.call" /\ adv' = adv BY <1>8 DEF ScanCall, At
  <2>2. radio # "STARTING" BY <1>5, <2>1 DEF RadioPhases
  <2>3. CASE host = "running" /\ nim.scan = 0 /\ nim' = [nim EXCEPT !.scan = fg.gen] /\ Go("scan.check") /\ scan' = scan
    <3>1. NimNow(fg.gen, nim.adv, nim.conn, nim.link, nim.links, nim.mtu, nim.ind, nim.proc)
      BY <1>1, <1>2, <2>3, NimScan DEF PlacesOk
    <3>2. FgNow(fg.op, "scan.check", fg.gen) BY <1>1, <2>3, FgGoes DEF GattPhases
    <3>3. nim'.scan = fg.gen /\ nim'.adv = nim.adv /\ fg'.at = "scan.check" /\ fg'.gen = fg.gen
      BY <3>1, <3>2 DEF NimNow, FgNow
    <3>4. host = "running" /\ scan' = scan BY <2>3
    <3>5. ScanInv' BY <1>3, <1>4, <2>1, <2>2, <3>3, <3>4 DEF ScanInv, RadioKept
    <3>6. ApartInv' BY <1>4, <2>1, <3>3, <3>4 DEF ApartInv
    <3>7. AdvKept BY <2>1, <3>3 DEF AdvKept
    <3> QED BY <1>6, <2>1, <3>3, <3>5, <3>6, <3>7 DEF ScanPlace, Scanning
  <2>4. CASE /\ scan' = IF fg.gen = scan.gen /\ scan.st = "ACTIVE" THEN [scan EXCEPT !.st = "IDLE"] ELSE scan
             /\ Answer /\ nim' = nim
    <3>1. ScanNow((IF fg.gen = scan.gen /\ scan.st = "ACTIVE" THEN "IDLE" ELSE scan.st), scan.gen, scan.q, scan.cur)
      BY <1>1, <2>4, ScanCallEnds
    <3>2. fg'.at = "idle" /\ nim' = nim BY <2>4, AnswerAt
    <3>3. scan'.gen = scan.gen /\ (scan'.st = scan.st \/ scan'.st = "IDLE") BY <3>1 DEF ScanNow
    <3>4. scan'.st # "ACTIVE"
      <4>1. scan.st = "ACTIVE" => fg.gen = scan.gen BY <1>4, <2>1 DEF ScanInv
      <4> QED BY <3>1, <4>1 DEF ScanNow
    <3>5. nim.scan = 0 /\ adv.st = "IDLE" /\ nim.adv = 0 BY <1>4, <2>1 DEF ScanInv, ApartInv
    <3>6. ScanInv' BY <1>3, <1>4, <3>2, <3>3, <3>4, <3>5 DEF ScanInv, RadioKept
    <3>7. ApartInv' BY <2>1, <3>2, <3>5 DEF ApartInv
    <3>8. AdvKept BY <2>1, <3>2 DEF AdvKept
    <3> QED BY <1>6, <2>1, <3>2, <3>6, <3>7, <3>8 DEF ScanPlace, Scanning
  <2> QED BY <1>8, <2>3, <2>4 DEF ScanCall
<1>9. CASE ScanCheck
  <2>1. fg.at = "scan.check" /\ fg'.at = "idle" /\ scan' = scan /\ adv' = adv BY <1>9, AnswerAt DEF ScanCheck, At
  <2>2. /\ nim'.adv = nim.adv
        /\ \/ fg.gen = scan.gen /\ scan.st = "ACTIVE" /\ radio = "READY" /\ nim'.scan = nim.scan
           \/ ~(fg.gen = scan.gen /\ scan.st = "ACTIVE" /\ radio = "READY") /\ nim'.scan = 0
    <3>1. CASE fg.gen = scan.gen /\ scan.st = "ACTIVE" /\ radio = "READY" BY <1>9, <3>1 DEF ScanCheck
    <3>2. CASE ~(fg.gen = scan.gen /\ scan.st = "ACTIVE" /\ radio = "READY")
      <4>1. nim' = [nim EXCEPT !.scan = 0] BY <1>9, <3>2 DEF ScanCheck
      <4> QED BY <1>1, <3>2, <4>1, NimScan DEF NimNow
    <3> QED BY <3>1, <3>2
  <2>3. ScanInv' BY <1>3, <1>4, <2>1, <2>2 DEF ScanInv, RadioKept, Forgetting, Cleared
  <2>4. ApartInv' BY <1>4, <2>1, <2>2 DEF ApartInv
  <2>5. AdvKept BY <2>1, <2>2 DEF AdvKept
  <2> QED BY <1>6, <2>1, <2>3, <2>4, <2>5 DEF ScanPlace, Scanning
<1>10. CASE ScanStop
  <2>1. fg.at = "idle" /\ adv' = adv /\ nim' = nim BY <1>10 DEF ScanStop, Calls, At
  <2>2. AdvKept BY <2>1 DEF AdvKept
  <2>3. CASE scan.st = "IDLE" /\ scan' = [scan EXCEPT !.cur = 0] /\ Answer
    <3>1. scan'.st = scan.st /\ scan'.gen = scan.gen BY <1>1, <2>3, ScanCur DEF ScanNow
    <3>2. fg'.at = "idle" BY <2>3, AnswerAt
    <3>3. ScanInv' BY <1>3, <1>4, <2>1, <3>1, <3>2 DEF ScanInv, RadioKept, Forgetting, Cleared
    <3>4. ApartInv' BY <1>4, <2>1, <3>1, <3>2 DEF ApartInv
    <3> QED BY <1>6, <2>1, <2>2, <3>2, <3>3, <3>4 DEF ScanPlace
  <2>4. CASE scan.st # "IDLE" /\ scan' = [scan EXCEPT !.cur = 0, !.st = "STOPPING"] /\ Do("scan", "scan.cancel", scan.gen)
    <3>1. scan'.st = "STOPPING" /\ scan'.gen = scan.gen BY <1>1, <2>4, ScanStops DEF ScanNow
    <3>2. fg'.at = "scan.cancel" BY <2>4, DoAt
    <3>3. scan.st # "IDLE" BY <2>4
    <3>4. ScanInv' BY <1>3, <1>4, <2>1, <3>1, <3>2, <3>3 DEF ScanInv, RadioKept, Forgetting, Cleared
    <3>5. ApartInv' BY <1>4, <2>1, <3>1, <3>2, <3>3 DEF ApartInv
    <3> QED BY <1>6, <2>1, <2>2, <3>2, <3>4, <3>5 DEF ScanPlace, Scanning
  <2> QED BY <1>10, <2>3, <2>4 DEF ScanStop
<1>11. CASE ScanCancel
  <2>1. fg.at = "scan.cancel" /\ adv' = adv /\ scan' = scan BY <1>11 DEF ScanCancel, At
  <2>2. CASE nim' = [nim EXCEPT !.scan = 0] /\ Go("scan.stopped")
    <3>1. nim'.scan = 0 /\ nim'.adv = nim.adv BY <1>1, <2>2, NimScan DEF NimNow
    <3>2. fg'.at = "scan.stopped" BY <1>1, <2>2, GoAt
    <3>3. ScanInv' BY <1>3, <1>4, <2>1, <3>1, <3>2 DEF ScanInv, RadioKept
    <3>4. ApartInv' BY <1>4, <2>1, <3>1, <3>2 DEF ApartInv
    <3>5. AdvKept BY <2>1, <3>1 DEF AdvKept
    <3> QED BY <1>6, <2>1, <3>2, <3>3, <3>4, <3>5 DEF ScanPlace, Scanning
  <2>3. CASE Answer /\ nim' = nim
    <3>1. fg'.at = "idle" /\ nim' = nim BY <2>3, AnswerAt
    <3>2. ScanInv' BY <1>3, <1>4, <2>1, <3>1 DEF ScanInv, RadioKept, Forgetting, Cleared
    <3>3. ApartInv' BY <1>4, <2>1, <3>1 DEF ApartInv
    <3>4. AdvKept BY <2>1, <3>1 DEF AdvKept
    <3> QED BY <1>6, <2>1, <3>1, <3>2, <3>3, <3>4 DEF ScanPlace, Scanning
  <2> QED BY <1>11, <2>2, <2>3 DEF ScanCancel
<1>12. CASE ScanStopped
  <2>1. fg.at = "scan.stopped" /\ fg'.at = "idle" /\ adv' = adv /\ nim' = nim BY <1>12, AnswerAt DEF ScanStopped, At
  <2>2. scan'.gen = scan.gen /\ (scan'.st = scan.st \/ scan'.st = "IDLE")
    <3>1. CASE fg.gen = scan.gen /\ radio = "READY"
      <4>1. scan' = [scan EXCEPT !.st = "IDLE"] BY <1>12, <3>1 DEF ScanStopped
      <4> QED BY <1>1, <4>1, ScanSt DEF ScanNow, UseStates
    <3>2. CASE ~(fg.gen = scan.gen /\ radio = "READY") BY <1>12, <3>2 DEF ScanStopped
    <3> QED BY <3>1, <3>2
  <2>3. ScanInv' BY <1>3, <1>4, <2>1, <2>2 DEF ScanInv, RadioKept
  <2>4. ApartInv' BY <1>4, <2>1, <2>2 DEF ApartInv
  <2>5. AdvKept BY <2>1 DEF AdvKept
  <2> QED BY <1>6, <2>1, <2>3, <2>4, <2>5 DEF ScanPlace, Scanning
<1>13. CASE ScanNext \/ ReportHeard \/ ReportQueued \/ ReportFiltered
  <2>1. fg' = fg /\ nim' = nim /\ adv' = adv
    BY <1>13 DEF ScanNext, ReportHeard, ReportQueued, ReportFiltered, Callback
  <2>2. scan'.st = scan.st /\ scan'.gen = scan.gen
    BY <1>1, <1>13 DEF ScanT, ScanNext, ReportHeard, ReportQueued, ReportFiltered
  <2> QED BY <1>3, <2>1, <2>2, UseAside DEF ScanKept, AdvKept, CallElsewhere
<1>14. CASE DiscComplete
  <2>1. fg' = fg /\ adv' = adv /\ nim.scan # 0 BY <1>14 DEF DiscComplete, Callback
  <2>2. nim'.scan = 0 /\ nim'.adv = nim.adv BY <1>1, <1>14, NimScan DEF DiscComplete, NimNow
  <2>3. scan'.gen = scan.gen /\ ((scan'.st = scan.st /\ nim.scan # scan.gen) \/ scan'.st = "IDLE")
    <3>1. CASE nim.scan = scan.gen
      <4>1. scan' = [scan EXCEPT !.st = "IDLE"] BY <1>14, <3>1 DEF DiscComplete
      <4> QED BY <1>1, <4>1, ScanSt DEF ScanNow, UseStates
    <3>2. CASE nim.scan # scan.gen BY <1>14, <3>2 DEF DiscComplete
    <3> QED BY <3>1, <3>2
  <2>4. ScanInv' BY <1>3, <1>4, <2>1, <2>2, <2>3 DEF ScanInv, RadioKept
  <2>5. ApartInv' BY <1>4, <2>1, <2>2, <2>3 DEF ApartInv
  <2>6. AdvKept BY <2>1, <2>2 DEF AdvKept
  <2> QED BY <1>6, <2>1, <2>4, <2>5, <2>6
<1> QED BY <1>7, <1>8, <1>9, <1>10, <1>11, <1>12, <1>13, <1>14 DEF ScanSteps

LEMMA AdvStepsUse ==
  ASSUME Whole, UseInv, AdvSteps
  PROVE  UseInv'
<1>1. Types /\ nim \in NimT /\ fg \in CallT /\ adv \in AdvT BY DEF Whole, Inv, Types
<1>2. ConnOk /\ QueuesOk /\ NimOk /\ PlacesOk /\ UseOk BY <1>1, TypesFlat
<1>3. RadioKept BY <1>1, AdvStaysOut, StaysOutIsKept
<1>4. ScanInv /\ AdvInv /\ ApartInv BY DEF UseInv
<1>5. radio = "STARTING" => fg.at \in RadioPhases BY StartingIsCalled
<1>6. ASSUME ScanKept, fg' = fg \/ (AdvPlace(fg.at) /\ AdvPlace(fg'.at)), AdvInv', ApartInv'
      PROVE  UseInv'
  <2>1. fg' = fg \/ (fg.at \notin Scanning \cup Forgetting /\ fg'.at \notin Scanning)
    BY <1>6 DEF AdvPlace, Scanning, Advertising, Forgetting, Cleared
  <2>2. ScanInv' BY <1>3, <1>4, <1>6, <2>1, ScanAside
  <2> QED BY <1>6, <2>2 DEF UseInv
<1>7. CASE AdvertiseStart
  <2>1. fg.at = "idle" /\ radio = "READY" /\ scan.st = "IDLE" /\ adv.st = "IDLE"
    BY <1>7 DEF AdvertiseStart, Calls, At, Quiet
  <2>2. adv.gen + 1 \in Nat BY <1>2 DEF UseOk
  <2>3. AdvNow("ACTIVE", adv.gen + 1) BY <1>7, <2>2, AdvIs DEF AdvertiseStart, UseStates
  <2>4. FgNow("adv", "adv.call", adv.gen + 1)
    BY <1>7, <2>2, FgDoes DEF AdvertiseStart, Ops, GattPhases
  <2>5. nim' = nim /\ scan' = scan BY <1>7 DEF AdvertiseStart
  <2>6. adv'.st = "ACTIVE" /\ adv'.gen = adv.gen + 1 /\ fg'.at = "adv.call" /\ fg'.gen = adv.gen + 1
    BY <2>3, <2>4 DEF AdvNow, FgNow
  <2>7. nim.scan = 0 /\ nim.adv = 0 BY <1>4, <2>1 DEF ScanInv, AdvInv, Forgetting, Cleared
  <2>8. AdvInv' BY <1>3, <1>4, <2>1, <2>5, <2>6, <2>7 DEF AdvInv, RadioKept
  <2>9. ApartInv' BY <2>1, <2>5, <2>6, <2>7 DEF ApartInv
  <2>10. ScanKept BY <2>5 DEF ScanKept
  <2> QED BY <1>6, <2>1, <2>6, <2>8, <2>9, <2>10 DEF AdvPlace, Advertising
<1>8. CASE AdvertiseCall
  <2>1. fg.at = "adv.call" /\ scan' = scan BY <1>8 DEF AdvertiseCall, At
  <2>2. radio # "STARTING" BY <1>5, <2>1 DEF RadioPhases
  <2>3. CASE host = "running" /\ nim.adv = 0 /\ nim' = [nim EXCEPT !.adv = fg.gen] /\ Go("adv.check") /\ adv' = adv
    <3>1. NimNow(nim.scan, fg.gen, nim.conn, nim.link, nim.links, nim.mtu, nim.ind, nim.proc)
      BY <1>1, <1>2, <2>3, NimAdv DEF PlacesOk
    <3>2. FgNow(fg.op, "adv.check", fg.gen) BY <1>1, <2>3, FgGoes DEF GattPhases
    <3>3. nim'.adv = fg.gen /\ nim'.scan = nim.scan /\ fg'.at = "adv.check" /\ fg'.gen = fg.gen
      BY <3>1, <3>2 DEF NimNow, FgNow
    <3>4. host = "running" /\ adv' = adv BY <2>3
    <3>5. AdvInv' BY <1>3, <1>4, <2>1, <2>2, <3>3, <3>4 DEF AdvInv, RadioKept
    <3>6. ApartInv' BY <1>4, <2>1, <3>3, <3>4 DEF ApartInv
    <3>7. ScanKept BY <2>1, <3>3 DEF ScanKept
    <3> QED BY <1>6, <2>1, <3>3, <3>5, <3>6, <3>7 DEF AdvPlace, Advertising
  <2>4. CASE adv' = (IF fg.gen = adv.gen THEN [adv EXCEPT !.st = "IDLE"] ELSE adv) /\ Answer /\ nim' = nim
    <3>1. AdvNow((IF fg.gen = adv.gen THEN "IDLE" ELSE adv.st), adv.gen) BY <1>1, <2>4, AdvCallEnds
    <3>2. fg'.at = "idle" /\ nim' = nim BY <2>4, AnswerAt
    <3>3. adv'.gen = adv.gen /\ (adv'.st = adv.st \/ adv'.st = "IDLE") BY <3>1 DEF AdvNow
    <3>4. adv'.st # "ACTIVE"
      <4>1. adv.st = "ACTIVE" => fg.gen = adv.gen BY <1>4, <2>1 DEF AdvInv
      <4> QED BY <3>1, <4>1 DEF AdvNow
    <3>5. nim.adv = 0 /\ scan.st = "IDLE" /\ nim.scan = 0 BY <1>4, <2>1 DEF AdvInv, ApartInv
    <3>6. AdvInv' BY <1>3, <1>4, <3>2, <3>3, <3>4, <3>5 DEF AdvInv, RadioKept
    <3>7. ApartInv' BY <2>1, <3>2, <3>5 DEF ApartInv
    <3>8. ScanKept BY <2>1, <3>2 DEF ScanKept
    <3> QED BY <1>6, <2>1, <3>2, <3>6, <3>7, <3>8 DEF AdvPlace, Advertising
  <2> QED BY <1>8, <2>3, <2>4 DEF AdvertiseCall
<1>9. CASE AdvertiseCheck
  <2>1. fg.at = "adv.check" /\ fg'.at = "idle" /\ scan' = scan /\ adv' = adv BY <1>9, AnswerAt DEF AdvertiseCheck, At
  <2>2. /\ nim'.scan = nim.scan
        /\ \/ fg.gen = adv.gen /\ adv.st = "ACTIVE" /\ radio = "READY" /\ nim'.adv = nim.adv
           \/ ~(fg.gen = adv.gen /\ adv.st = "ACTIVE" /\ radio = "READY") /\ nim'.adv = 0
    <3>1. CASE fg.gen = adv.gen /\ adv.st = "ACTIVE" /\ radio = "READY" BY <1>9, <3>1 DEF AdvertiseCheck
    <3>2. CASE ~(fg.gen = adv.gen /\ adv.st = "ACTIVE" /\ radio = "READY")
      <4>1. nim' = [nim EXCEPT !.adv = 0] BY <1>9, <3>2 DEF AdvertiseCheck
      <4> QED BY <1>1, <3>2, <4>1, NimAdv DEF NimNow
    <3> QED BY <3>1, <3>2
  <2>3. AdvInv' BY <1>3, <1>4, <2>1, <2>2 DEF AdvInv, RadioKept, Forgetting, Cleared
  <2>4. ApartInv' BY <1>4, <2>1, <2>2 DEF ApartInv
  <2>5. ScanKept BY <2>1, <2>2 DEF ScanKept
  <2> QED BY <1>6, <2>1, <2>3, <2>4, <2>5 DEF AdvPlace, Advertising
<1>10. CASE AdvertiseStop
  <2>1. fg.at = "idle" /\ scan' = scan /\ nim' = nim /\ adv.st # "IDLE" BY <1>10 DEF AdvertiseStop, Calls, At
  <2>2. ScanKept BY <2>1 DEF ScanKept
  <2>3. adv' = [adv EXCEPT !.st = "STOPPING"] BY <1>10 DEF AdvertiseStop
  <2>4. adv'.st = "STOPPING" /\ adv'.gen = adv.gen BY <1>1, <2>3, AdvSt DEF AdvNow, UseStates
  <2>5. fg'.at = "adv.cancel" BY <1>10, DoAt DEF AdvertiseStop
  <2>6. AdvInv' BY <1>3, <1>4, <2>1, <2>4, <2>5 DEF AdvInv, RadioKept, Forgetting, Cleared
  <2>7. ApartInv' BY <1>4, <2>1, <2>4, <2>5 DEF ApartInv
  <2> QED BY <1>6, <2>1, <2>2, <2>5, <2>6, <2>7 DEF AdvPlace, Advertising
<1>11. CASE AdvertiseCancel
  <2>1. fg.at = "adv.cancel" /\ adv' = adv /\ scan' = scan BY <1>11 DEF AdvertiseCancel, At
  <2>2. CASE nim' = [nim EXCEPT !.adv = 0] /\ Go("adv.stopped")
    <3>1. nim'.adv = 0 /\ nim'.scan = nim.scan BY <1>1, <2>2, NimAdv DEF NimNow
    <3>2. fg'.at = "adv.stopped" BY <1>1, <2>2, GoAt
    <3>3. AdvInv' BY <1>3, <1>4, <2>1, <3>1, <3>2 DEF AdvInv, RadioKept
    <3>4. ApartInv' BY <1>4, <2>1, <3>1, <3>2 DEF ApartInv
    <3>5. ScanKept BY <2>1, <3>1 DEF ScanKept
    <3> QED BY <1>6, <2>1, <3>2, <3>3, <3>4, <3>5 DEF AdvPlace, Advertising
  <2>3. CASE Answer /\ nim' = nim
    <3>1. fg'.at = "idle" /\ nim' = nim BY <2>3, AnswerAt
    <3>2. AdvInv' BY <1>3, <1>4, <2>1, <3>1 DEF AdvInv, RadioKept, Forgetting, Cleared
    <3>3. ApartInv' BY <1>4, <2>1, <3>1 DEF ApartInv
    <3>4. ScanKept BY <2>1, <3>1 DEF ScanKept
    <3> QED BY <1>6, <2>1, <3>1, <3>2, <3>3, <3>4 DEF AdvPlace, Advertising
  <2> QED BY <1>11, <2>2, <2>3 DEF AdvertiseCancel
<1>12. CASE AdvertiseStopped
  <2>1. fg.at = "adv.stopped" /\ fg'.at = "idle" /\ scan' = scan /\ nim' = nim
    BY <1>12, AnswerAt DEF AdvertiseStopped, At
  <2>2. adv'.gen = adv.gen /\ (adv'.st = adv.st \/ adv'.st = "IDLE")
    <3>1. CASE fg.gen = adv.gen /\ radio = "READY" /\ adv.st # "ACTIVE"
      <4>1. adv' = [adv EXCEPT !.st = "IDLE"] BY <1>12, <3>1 DEF AdvertiseStopped
      <4> QED BY <1>1, <4>1, AdvSt DEF AdvNow, UseStates
    <3>2. CASE ~(fg.gen = adv.gen /\ radio = "READY" /\ adv.st # "ACTIVE") BY <1>12, <3>2 DEF AdvertiseStopped
    <3> QED BY <3>1, <3>2
  <2>3. AdvInv' BY <1>3, <1>4, <2>1, <2>2 DEF AdvInv, RadioKept
  <2>4. ApartInv' BY <1>4, <2>1, <2>2 DEF ApartInv
  <2>5. ScanKept BY <2>1 DEF ScanKept
  <2> QED BY <1>6, <2>1, <2>3, <2>4, <2>5 DEF AdvPlace, Advertising
<1>13. ASSUME fg' = fg, scan' = scan, nim.adv # 0, nim'.adv = 0, nim'.scan = nim.scan,
              adv' = adv \/ adv' = [adv EXCEPT !.st = "IDLE"],
              adv.st = "ACTIVE" /\ nim.adv = adv.gen => adv' # adv
       PROVE  UseInv'
  <2>1. adv'.gen = adv.gen /\ (adv'.st = adv.st \/ adv'.st = "IDLE")
    BY <1>1, <1>13, AdvSt DEF AdvNow, UseStates
  <2>2. adv.st = "ACTIVE" /\ nim.adv = adv.gen => adv'.st = "IDLE"
    BY <1>1, <1>13, AdvSt DEF AdvNow, UseStates
  <2>3. AdvInv' BY <1>3, <1>4, <1>13, <2>1, <2>2 DEF AdvInv, RadioKept
  <2>4. ApartInv' BY <1>4, <1>13, <2>1 DEF ApartInv
  <2>5. ScanKept BY <1>13 DEF ScanKept
  <2> QED BY <1>6, <1>13, <2>3, <2>4, <2>5
<1>14. CASE AdvertiseOver
  <2>1. fg' = fg /\ scan' = scan /\ nim.adv # 0 BY <1>14 DEF AdvertiseOver, Callback
  <2>2. nim'.adv = 0 /\ nim'.scan = nim.scan BY <1>1, <1>14, NimAdv DEF AdvertiseOver, NimNow
  <2>3. CASE adv.st = "ACTIVE" /\ nim.adv = adv.gen
    <3>1. adv' = [adv EXCEPT !.st = "IDLE"] BY <1>14, <2>3 DEF AdvertiseOver
    <3>2. adv'.st = "IDLE" BY <1>1, <3>1, AdvSt DEF AdvNow, UseStates
    <3>3. adv' # adv BY <2>3, <3>2
    <3> QED BY <1>13, <2>1, <2>2, <3>1, <3>3
  <2>4. CASE ~(adv.st = "ACTIVE" /\ nim.adv = adv.gen)
    <3>1. adv' = adv \/ adv' = [adv EXCEPT !.st = "IDLE"] BY <1>14 DEF AdvertiseOver
    <3> QED BY <1>13, <2>1, <2>2, <2>4, <3>1
  <2> QED BY <2>3, <2>4
<1>15. CASE Incoming
  <2>1. fg' = fg /\ scan' = scan /\ nim.adv # 0 BY <1>15 DEF Incoming, Callback
  <2>2. nim'.adv = 0 /\ nim'.scan = nim.scan BY <1>1, <1>15, NimIncoming DEF Incoming, NimNow
  <2>3. CASE nim.adv # adv.gen \/ adv.st = "IDLE"
    <3>1. adv' = adv BY <1>15, <2>3 DEF Incoming
    <3> QED BY <1>13, <2>1, <2>2, <2>3, <3>1
  <2>4. CASE ~(nim.adv # adv.gen \/ adv.st = "IDLE")
    <3>1. adv' = [adv EXCEPT !.st = "IDLE"] BY <1>15, <2>4 DEF Incoming
    <3>2. adv'.st = "IDLE" BY <1>1, <3>1, AdvSt DEF AdvNow, UseStates
    <3>3. adv' # adv BY <2>4, <3>2
    <3> QED BY <1>13, <2>1, <2>2, <3>1, <3>3
  <2> QED BY <2>3, <2>4
<1>16. CASE IncomingPending \/ RefuseLink
  <2>1. fg' = fg /\ scan' = scan /\ adv' = adv BY <1>16 DEF IncomingPending, RefuseLink, bleVars
  <2>2. nim'.scan = nim.scan /\ nim'.adv = nim.adv
    <3>1. CASE RefuseLink BY <1>1, <3>1, Terminates DEF RefuseLink, NimNow
    <3>2. CASE IncomingPending
      <4>1. nim' = nim \/ nim' = [nim EXCEPT !.link.cb = cb.arg] BY <3>2 DEF IncomingPending, KeepConn
      <4>2. cb.arg \in Nat BY <1>2 DEF PlacesOk
      <4> QED BY <1>1, <4>1, <4>2, NimLinkCb DEF NimNow
    <3> QED BY <1>16, <3>1, <3>2
  <2> QED BY <1>3, <2>1, <2>2, UseAside DEF ScanKept, AdvKept, CallElsewhere
<1> QED BY <1>7, <1>8, <1>9, <1>10, <1>11, <1>12, <1>14, <1>15, <1>16 DEF AdvSteps

ConnPlace(p) == p \in Holding \cup Closing \cup {"idle", "connect.call", "connect.wait", "connect.cancel"}

\* What is done to the connection does not scan or advertise.
LEMMA ConnStepsUse ==
  ASSUME Whole, UseInv, ConnSteps
  PROVE  UseInv'
<1>1. Types /\ nim \in NimT /\ fg \in CallT BY DEF Whole, Inv, Types
<1>2. ConnOk /\ NimOk /\ PlacesOk BY <1>1, TypesFlat
<1>3. RadioKept BY <1>1, ConnStaysOut, StaysOutIsKept
<1>4. scan' = scan /\ adv' = adv
  BY DEF ConnSteps, Connect, ConnectCall, ConnectWait, ConnectAbort, ConnectCancel, ConnectFailed, Connected,
         LinkLost, LinkDown, TerminateFails, Accept, RejectPending, Close, CloseCall, CloseDone, Params,
         ParamsCall, ParamsUpdated, Mtu, MtuCall, MtuWait, MtuComplete, lvars, bleVars, KeepConn
<1>5. ASSUME nim'.scan = nim.scan, nim'.adv = nim.adv, fg' = fg \/ (ConnPlace(fg.at) /\ ConnPlace(fg'.at))
      PROVE  UseInv'
  <2>1. CallElsewhere
    BY <1>5 DEF CallElsewhere, ConnPlace, Holding, Closing, Scanning, Advertising, Forgetting, Cleared
  <2> QED BY <1>3, <1>4, <1>5, <2>1, UseAside DEF ScanKept, AdvKept
<1>6. CASE Connect
  <2>1. fg.at = "idle" /\ fg'.at = "connect.call" /\ nim' = nim BY <1>6, DoAt DEF Connect, Calls, At
  <2> QED BY <1>5, <2>1 DEF ConnPlace
<1>7. CASE ConnectCall
  <2>1. fg.at = "connect.call" /\ fg'.at \in {"idle", "connect.wait"}
    BY <1>1, <1>7, GoAt, AnswerAt DEF ConnectCall, At
  <2>2. nim' = nim \/ nim' = [nim EXCEPT !.conn = fg.gen] BY <1>7 DEF ConnectCall
  <2>3. nim'.scan = nim.scan /\ nim'.adv = nim.adv BY <1>1, <1>2, <2>2, NimConn DEF NimNow, PlacesOk
  <2> QED BY <1>5, <2>1, <2>3 DEF ConnPlace
<1>8. CASE ConnectWait \/ ConnectAbort \/ ConnectCancel
  <2>1. fg.at \in {"connect.wait", "connect.cancel"} /\ nim' = nim
    BY <1>8 DEF ConnectWait, ConnectAbort, ConnectCancel, At, lvars
  <2>2. fg'.at \in {"idle", "connect.cancel"}
    BY <1>1, <1>8, GoAt, AnswerAt DEF ConnectWait, ConnectAbort, ConnectCancel
  <2> QED BY <1>5, <2>1, <2>2 DEF ConnPlace
<1>9. CASE ConnectFailed
  <2>1. nim' = [nim EXCEPT !.conn = 0] /\ fg' = fg BY <1>9 DEF ConnectFailed, Callback
  <2>2. nim'.scan = nim.scan /\ nim'.adv = nim.adv BY <1>1, <2>1, NimConn DEF NimNow
  <2> QED BY <1>5, <2>1, <2>2
<1>10. CASE Connected
  <2>1. fg' = fg BY <1>10 DEF Connected, Callback
  <2>2. nim'.scan = nim.scan /\ nim'.adv = nim.adv BY <1>1, <1>10, NimConnected DEF Connected, NimNow
  <2> QED BY <1>5, <2>1, <2>2
<1>11. CASE LinkLost
  <2>1. fg' = fg BY <1>11 DEF LinkLost, Callback
  <2>2. nim'.scan = nim.scan /\ nim'.adv = nim.adv BY <1>1, <1>11, NimLost DEF LinkLost, NimNow
  <2> QED BY <1>5, <2>1, <2>2
<1>12. CASE LinkDown \/ Accept \/ ParamsUpdated
  <2>1. nim' = nim /\ fg' = fg BY <1>12 DEF LinkDown, Accept, ParamsUpdated, Callback
  <2> QED BY <1>5, <2>1
<1>13. CASE TerminateFails
  <2>1. nim' = [nim EXCEPT !.link.term = "refused"] /\ fg' = fg BY <1>13 DEF TerminateFails, Callback
  <2>2. nim'.scan = nim.scan /\ nim'.adv = nim.adv BY <1>1, <2>1, NimLinkTerm DEF NimNow, TermT
  <2> QED BY <1>5, <2>1, <2>2
<1>14. CASE RejectPending \/ Params \/ Mtu
  <2>1. fg.at = "idle" /\ nim' = nim BY <1>14 DEF RejectPending, Params, Mtu, Calls, At
  <2>2. fg'.at \in {"reject.call", "params.call", "mtu.call"} BY <1>14, DoAt DEF RejectPending, Params, Mtu
  <2> QED BY <1>5, <2>1, <2>2 DEF ConnPlace, Closing, Holding
<1>15. CASE Close
  <2>1. fg.at = "idle" /\ nim' = nim BY <1>15 DEF Close, At
  <2>2. fg' = fg \/ fg'.at = "close.call" BY <1>15, DoAt DEF Close
  <2> QED BY <1>5, <2>1, <2>2 DEF ConnPlace, Closing
<1>16. CASE CloseCall
  <2>1. fg.at \in Closing BY <1>16 DEF CloseCall, At, Closing
  <2>2. fg'.at \in Closing BY <1>1, <1>16, GoAt DEF CloseCall, Closing
  <2>3. nim' = nim \/ nim' \in {Terminated, TerminateRefused} BY <1>16 DEF CloseCall
  <2>4. nim'.scan = nim.scan /\ nim'.adv = nim.adv BY <1>1, <2>3, Terminates DEF NimNow
  <2> QED BY <1>5, <2>1, <2>2, <2>4 DEF ConnPlace
<1>17. CASE CloseDone
  <2>1. fg.at \in Closing /\ fg'.at = "idle" /\ nim' = nim BY <1>17, AnswerAt DEF CloseDone, At, Closing
  <2> QED BY <1>5, <2>1 DEF ConnPlace
<1>18. CASE ParamsCall \/ MtuWait
  <2>1. fg.at \in Holding /\ fg'.at = "idle" /\ nim' = nim
    BY <1>18, AnswerAt DEF ParamsCall, MtuWait, At, Holding, lvars
  <2> QED BY <1>5, <2>1 DEF ConnPlace
<1>19. CASE MtuCall
  <2>1. fg.at = "mtu.call" /\ fg'.at \in {"idle", "mtu.wait"} BY <1>1, <1>19, GoAt, AnswerAt DEF MtuCall, At
  <2>2. nim' = nim \/ nim' = [nim EXCEPT !.mtu = TRUE] BY <1>19 DEF MtuCall
  <2>3. nim'.scan = nim.scan /\ nim'.adv = nim.adv BY <1>1, <2>2, NimMtu DEF NimNow
  <2> QED BY <1>5, <2>1, <2>3 DEF ConnPlace, Holding
<1>20. CASE MtuComplete
  <2>1. nim' = [nim EXCEPT !.mtu = FALSE] /\ fg' = fg BY <1>20 DEF MtuComplete, Callback
  <2>2. nim'.scan = nim.scan /\ nim'.adv = nim.adv BY <1>1, <2>1, NimMtu DEF NimNow
  <2> QED BY <1>5, <2>1, <2>2
<1> QED BY <1>6, <1>7, <1>8, <1>9, <1>10, <1>11, <1>12, <1>13, <1>14, <1>15, <1>16, <1>17, <1>18, <1>19, <1>20
    DEF ConnSteps

-----------------------------------------------------------------------------
(* The connection slot: scanning, advertising and an incoming link *)

LEMMA FoundHas ==
  ASSUME notices \in Seq(Nat), conn.st = "PENDING", Contains(notices, conn.gen)
  PROVE  Found(notices) # <<>> /\ Contains(Found(notices), conn.gen)
<1> DEFINE here == {i \in DOMAIN notices : NoticeIsCurrent(notices[i])}
<1>1. here \subseteq Nat BY DEF here
<1>2. here # {} BY DEF Contains, NoticeIsCurrent
<1>3. Min(here) \in here BY <1>1, <1>2, Least
<1> DEFINE i == Min(here)
           s == SubSeq(notices, i, Len(notices))
<1>4. i \in 1 .. Len(notices) /\ notices[i] = conn.gen BY <1>3 DEF NoticeIsCurrent
<1>5. Found(notices) = s BY <1>2 DEF Found
<1> HIDE DEF i, here
<1>6. Len(s) = Len(notices) - i + 1 /\ s[1] = notices[i] BY <1>4
<1>7. 1 \in 1 .. Len(s) BY <1>4, <1>6
<1>8. Contains(s, conn.gen) BY <1>4, <1>6, <1>7 DEF Contains
<1> HIDE DEF s
<1>9. s # <<>> BY <1>7
<1> QED BY <1>5, <1>8, <1>9

LEMMA AppendHas == ASSUME NEW s \in Seq(Nat), NEW g \in Nat PROVE Contains(Append(s, g), g)
<1> DEFINE r == Append(s, g)
<1>1. Len(r) = Len(s) + 1 /\ r[Len(s) + 1] = g OBVIOUS
<1>2. Len(s) + 1 \in 1 .. Len(r) BY <1>1
<1> HIDE DEF r
<1>3. Contains(r, g) BY <1>1, <1>2 DEF Contains
<1> QED BY <1>3 DEF r

LEMMA ScanStepsSlot ==
  ASSUME Whole, SlotInv, ScanSteps
  PROVE  SlotInv'
<1>1. Types /\ nim \in NimT /\ fg \in CallT BY DEF Whole, Inv, Types
<1>2. RadioKept BY <1>1, ScanStaysOut, StaysOutIsKept
<1>3. conn' = conn /\ notices' = notices
  BY DEF ScanSteps, ScanStart, ScanCall, ScanCheck, ScanStop, ScanCancel, ScanStopped, ScanNext, ReportHeard,
         ReportQueued, ReportFiltered, DiscComplete, KeepConn
<1>4. cb' = cb \/ (cb.kind # "refuse" /\ cb'.kind # "accept")
  BY DEF ScanSteps, ScanStart, ScanCall, ScanCheck, ScanStop, ScanCancel, ScanStopped, ScanNext, ReportHeard,
         ReportQueued, ReportFiltered, DiscComplete, Callback, NoCb
<1>5. nim'.conn = nim.conn /\ nim'.link = nim.link
  <2>1. nim' = nim \/ nim' = [nim EXCEPT !.scan = fg.gen] \/ nim' = [nim EXCEPT !.scan = 0]
    BY DEF ScanSteps, ScanStart, ScanCall, ScanCheck, ScanStop, ScanCancel, ScanStopped, ScanNext, ReportHeard,
           ReportQueued, ReportFiltered, DiscComplete
  <2>2. fg.gen \in Nat BY <1>1, TypesFlat DEF PlacesOk
  <2> QED BY <1>1, <2>1, <2>2, NimScan DEF NimNow
<1>6. fg' = fg \/ (ScanPlace(fg.at) /\ ScanPlace(fg'.at))
  <2>1. CASE ScanStart \/ ScanStop
    <3>1. fg.at = "idle" /\ fg'.at \in {"idle", "scan.call", "scan.cancel"}
      BY <2>1, DoAt, AnswerAt DEF ScanStart, ScanStop, Calls, At
    <3> QED BY <3>1 DEF ScanPlace, Scanning
  <2>2. CASE ScanCall \/ ScanCheck \/ ScanCancel \/ ScanStopped
    <3>1. fg.at \in Scanning BY <2>2 DEF ScanCall, ScanCheck, ScanCancel, ScanStopped, At, Scanning
    <3>2. fg'.at \in {"idle", "scan.check", "scan.stopped"}
      BY <1>1, <2>2, GoAt, AnswerAt DEF ScanCall, ScanCheck, ScanCancel, ScanStopped
    <3> QED BY <3>1, <3>2 DEF ScanPlace, Scanning
  <2>3. CASE ScanNext \/ ReportHeard \/ ReportQueued \/ ReportFiltered \/ DiscComplete
    BY <2>3 DEF ScanNext, ReportHeard, ReportQueued, ReportFiltered, DiscComplete, Callback
  <2> QED BY <2>1, <2>2, <2>3 DEF ScanSteps
<1>7. CallApart BY <1>6 DEF CallApart, ScanPlace, Scanning, Connecting, Closing, Cleared
<1> QED BY <1>2, <1>3, <1>4, <1>5, <1>7, SlotAside DEF ConnSame, LinkSame, CbSame

LEMMA IncomingSlot ==
  ASSUME Whole, UseInv, SlotInv, Incoming
  PROVE  SlotInv'
<1>1. Types /\ nim \in NimT /\ fg \in CallT /\ conn \in ConnT BY DEF Whole, Inv, Types
<1>2. ConnOk /\ QueuesOk /\ NimOk /\ PlacesOk BY <1>1, TypesFlat
<1>3. RadioKept BY <1>1, AdvStaysOut, StaysOutIsKept DEF AdvSteps
<1>4. LinkInv /\ PlaceInv BY DEF Whole, Inv
<1>5. OwnerInv /\ PendingInv /\ HandleInv /\ NoticeInv BY DEF SlotInv
<1>6. fg' = fg /\ cb.kind = "none" /\ nim.adv # 0 /\ ~LinkUp BY DEF Incoming, Callback, NoCb, ConnectionNew
<1>7. nim'.conn = nim.conn /\ nim'.link.term = "no" BY <1>1, NimIncoming DEF Incoming, NimNow
<1>8. radio # "STARTING" BY <1>6 DEF UseInv, AdvInv
<1>9. ~conn.h BY <1>4, <1>6 DEF LinkInv
<1>10. fg.at = "closed.gone" /\ fg.gen = conn.gen => conn.st # "CLOSING" BY <1>4, <1>9 DEF PlaceInv, Closing
<1>11. fg.at = "connect.call" => conn.st = "CONNECTING" BY <1>4 DEF PlaceInv
<1>12. Found(notices) \in Seq(Nat) /\ Len(Found(notices)) <= Len(notices) BY <1>2, FoundIs DEF QueuesOk
<1>13. Len(Found(notices)) <= NoticeQueue
  <2>1. Len(Found(notices)) \in Nat /\ Len(notices) \in Nat BY <1>2, <1>12 DEF QueuesOk
  <2>2. NoticeQueue \in Nat BY LinkAssumption
  <2> QED BY <1>5, <1>12, <2>1, <2>2 DEF NoticeInv
<1>14. conn.st = "PENDING" => Contains(Found(notices), conn.gen) BY <1>2, <1>5, FoundHas DEF QueuesOk, NoticeInv
<1>15. ASSUME conn' = conn, cb'.kind = "refuse", notices' = notices \/ notices' = Found(notices) PROVE SlotInv'
  <2>1. OwnerInv' BY <1>3, <1>6, <1>8, <1>10, <1>15 DEF OwnerInv, RadioKept
  <2>2. PendingInv' BY <1>3, <1>5, <1>6, <1>7, <1>15 DEF PendingInv, RadioKept
  <2>3. HandleInv' BY <1>5, <1>6, <1>15 DEF HandleInv
  <2>4. NoticeInv' BY <1>5, <1>13, <1>14, <1>15 DEF NoticeInv
  <2> QED BY <2>1, <2>2, <2>3, <2>4 DEF SlotInv
<1>16. ASSUME conn.st = "FREE", conn'.st \in {"FREE", "CONNECTING"}, conn'.st = "CONNECTING" => conn'.role = "peripheral",
              cb'.kind = "refuse" \/ (conn'.h /\ Len(notices') < NoticeQueue), notices' = Found(notices)
       PROVE  SlotInv'
  <2>1. OwnerInv' BY <1>3, <1>6, <1>8, <1>16 DEF OwnerInv, RadioKept
  <2>2. PendingInv' BY <1>3, <1>5, <1>6, <1>7, <1>11, <1>16 DEF PendingInv, RadioKept
  <2>3. HandleInv' BY <1>16 DEF HandleInv
  <2>4. NoticeInv' BY <1>13, <1>16 DEF NoticeInv
  <2> QED BY <2>1, <2>2, <2>3, <2>4 DEF SlotInv
<1>17. CASE nim.adv # adv.gen \/ adv.st = "IDLE"
  <2>1. cb' = [kind |-> "refuse", arg |-> 0] /\ KeepConn BY <1>17 DEF Incoming
  <2> QED BY <1>15, <2>1 DEF KeepConn
<1>18. CASE ~(nim.adv # adv.gen \/ adv.st = "IDLE")
  <2>1. notices' = Found(notices) BY <1>18 DEF Incoming
  <2>2. CASE /\ conn.st = "FREE" /\ Len(notices') < NoticeQueue
             /\ conn' = [Reserved("peripheral", FALSE) EXCEPT !.h = TRUE, !.link = nim.links + 1]
             /\ cb' = [kind |-> "accept", arg |-> conn.gen + 1]
    <3>1. nim.links + 1 \in Nat BY <1>2 DEF NimOk
    <3>2. ConnNow("CONNECTING", "peripheral", conn.gen + 1, TRUE, FALSE, FALSE, FALSE, FALSE, nim.links + 1)
      BY <1>1, <2>2, <3>1, ConnIncoming
    <3>3. conn'.st = "CONNECTING" /\ conn'.role = "peripheral" /\ conn'.h BY <3>2 DEF ConnNow
    <3>4. conn.st = "FREE" /\ Len(notices') < NoticeQueue BY <2>2
    <3> QED BY <1>16, <2>1, <3>3, <3>4
  <2>3. CASE /\ conn' = conn \/ (conn.st = "FREE" /\ conn' = FreeConn(conn.gen + 1))
             /\ cb' = [kind |-> "refuse", arg |-> 0]
    <3>1. cb'.kind = "refuse" BY <2>3
    <3>2. CASE conn' = conn BY <1>15, <2>1, <3>1, <3>2
    <3>3. CASE conn.st = "FREE" /\ conn' = FreeConn(conn.gen + 1)
      <4>1. conn.gen + 1 \in Nat BY <1>2 DEF ConnOk
      <4>2. conn'.st = "FREE" BY <3>3, <4>1, ConnFree DEF ConnNow
      <4> QED BY <1>16, <2>1, <3>1, <3>3, <4>2
    <3> QED BY <2>3, <3>2, <3>3
  <2> QED BY <1>18, <2>2, <2>3 DEF Incoming
<1> QED BY <1>17, <1>18

LEMMA IncomingPendingSlot ==
  ASSUME Whole, SlotInv, IncomingPending
  PROVE  SlotInv'
<1>1. Types /\ nim \in NimT /\ fg \in CallT /\ conn \in ConnT BY DEF Whole, Inv, Types
<1>2. ConnOk /\ QueuesOk /\ NimOk /\ PlacesOk BY <1>1, TypesFlat
<1>3. RadioKept BY <1>1, AdvStaysOut, StaysOutIsKept DEF AdvSteps
<1>4. LinkInv /\ PlaceInv BY DEF Whole, Inv
<1>5. OwnerInv /\ PendingInv /\ HandleInv /\ NoticeInv BY DEF SlotInv
<1>6. fg' = fg /\ cb.kind = "accept" BY DEF IncomingPending
<1>7. LinkUp /\ radio # "STARTING" BY <1>4, <1>5, <1>6 DEF LinkInv, OwnerInv
<1>8. ASSUME cb.arg = conn.gen, conn.st = "CONNECTING"
      PROVE  /\ conn.role = "peripheral" /\ conn.h /\ Len(notices) < NoticeQueue
             /\ fg.at # "connect.call" /\ (radio = "READY" /\ nim.conn # 0 => fg.at \in Cleared)
  <2>1. conn.role = "peripheral" /\ conn.h BY <1>4, <1>6, <1>8 DEF LinkInv
  <2>2. Len(notices) < NoticeQueue BY <1>5, <1>6, <1>8 DEF NoticeInv
  <2>3. fg.at # "connect.call" BY <1>4, <2>1 DEF PlaceInv
  <2> QED BY <1>5, <2>1, <2>2, <2>3 DEF PendingInv
<1>9. CASE /\ cb.arg = conn.gen /\ conn.st = "CONNECTING"
           /\ conn' = [conn EXCEPT !.st = "PENDING"] /\ notices' = Append(notices, cb.arg)
           /\ nim' = [nim EXCEPT !.link.cb = cb.arg] /\ cb' = NoCb
  <2>1. conn.gen \in Nat /\ notices \in Seq(Nat) BY <1>2 DEF ConnOk, QueuesOk
  <2>2. ConnNow("PENDING", conn.role, conn.gen, conn.h, conn.ref, conn.done, conn.mtu, conn.par, conn.link)
    BY <1>1, <1>9, ConnSt DEF ConnStates
  <2>3. conn'.st = "PENDING" /\ conn'.gen = conn.gen /\ conn'.h
    BY <1>8, <1>9, <2>2 DEF ConnNow
  <2>4. nim'.conn = nim.conn /\ nim'.link.id = nim.link.id BY <1>1, <1>9, <2>1, NimLinkCb DEF NimNow
  <2>5. Contains(notices', conn.gen) BY <1>9, <2>1, AppendHas
  <2>6. Len(notices') <= NoticeQueue
    <3>1. Len(notices') = Len(notices) + 1 /\ Len(notices) \in Nat BY <1>9, <2>1
    <3>2. NoticeQueue \in Nat BY LinkAssumption
    <3>3. Len(notices) < NoticeQueue BY <1>8, <1>9
    <3> QED BY <3>1, <3>2, <3>3
  <2>7. cb'.kind = "none" BY <1>9 DEF NoCb
  <2>8. fg.at # "connect.call" /\ (radio = "READY" /\ nim.conn # 0 => fg.at \in Cleared) BY <1>8, <1>9
  <2>9. OwnerInv' BY <1>3, <1>7, <2>3 DEF OwnerInv, RadioKept
  <2>10. PendingInv' BY <1>3, <1>6, <2>3, <2>4, <2>8 DEF PendingInv, RadioKept
  <2>11. HandleInv' BY <2>3 DEF HandleInv
  <2>12. NoticeInv' BY <2>3, <2>5, <2>6, <2>7 DEF NoticeInv
  <2> QED BY <2>9, <2>10, <2>11, <2>12 DEF SlotInv
<1>10. CASE /\ cb.arg = conn.gen /\ conn.st = "CONNECTING"
            /\ Free /\ cb' = [kind |-> "refuse", arg |-> 0] /\ notices' = notices /\ nim' = nim
  <2>1. conn.gen \in Nat BY <1>2 DEF ConnOk
  <2>2. conn'.st = "FREE" BY <1>10, <2>1, ConnFree DEF Free, ConnNow
  <2>3. cb'.kind = "refuse" /\ notices' = notices /\ nim' = nim BY <1>10
  <2>4. fg.at # "connect.call" /\ (radio = "READY" /\ nim.conn # 0 => fg.at \in Cleared) BY <1>8, <1>10
  <2>5. OwnerInv' BY <1>3, <1>7, <2>2, <2>3 DEF OwnerInv, RadioKept
  <2>6. PendingInv' BY <1>3, <1>6, <2>2, <2>3, <2>4 DEF PendingInv, RadioKept
  <2>7. HandleInv' BY <2>2 DEF HandleInv
  <2>8. NoticeInv' BY <1>5, <2>2, <2>3 DEF NoticeInv
  <2> QED BY <2>5, <2>6, <2>7, <2>8 DEF SlotInv
<1>11. CASE cb' = [kind |-> "refuse", arg |-> 0] /\ nim' = [nim EXCEPT !.link.cb = cb.arg] /\ KeepConn
  <2>1. cb.arg \in Nat BY <1>2 DEF PlacesOk
  <2>2. nim'.conn = nim.conn /\ nim'.link.id = nim.link.id BY <1>1, <1>11, <2>1, NimLinkCb DEF NimNow
  <2>3. cb'.kind = "refuse" /\ conn' = conn /\ notices' = notices BY <1>11 DEF KeepConn
  <2>4. OwnerInv' BY <1>3, <1>5, <1>6, <1>7, <2>2, <2>3 DEF OwnerInv, RadioKept, LinkUp
  <2>5. PendingInv' BY <1>3, <1>5, <1>6, <2>2, <2>3 DEF PendingInv, RadioKept
  <2>6. HandleInv' BY <1>5, <1>6, <2>3 DEF HandleInv
  <2>7. NoticeInv' BY <1>5, <2>3 DEF NoticeInv
  <2> QED BY <2>4, <2>5, <2>6, <2>7 DEF SlotInv
<1> QED BY <1>9, <1>10, <1>11 DEF IncomingPending

LEMMA RefuseLinkSlot ==
  ASSUME Whole, SlotInv, RefuseLink
  PROVE  SlotInv'
<1>1. Types /\ fg \in CallT BY DEF Whole, Inv, Types
<1>2. RadioKept BY <1>1, AdvStaysOut, StaysOutIsKept DEF AdvSteps
<1>3. OwnerInv /\ PendingInv /\ HandleInv /\ NoticeInv BY DEF SlotInv
<1>4. fg' = fg /\ conn' = conn /\ notices' = notices /\ cb'.kind = "none" BY DEF RefuseLink, bleVars, NoCb
<1>5. nim'.conn = nim.conn /\ nim'.link.id = nim.link.id /\ (LinkUp => nim'.link.term # "no")
  BY <1>1, Terminates DEF RefuseLink, NimNow
<1>6. OwnerInv' BY <1>2, <1>3, <1>4, <1>5 DEF OwnerInv, RadioKept, LinkUp
<1>7. PendingInv' BY <1>2, <1>3, <1>4, <1>5 DEF PendingInv, RadioKept
<1>8. HandleInv' BY <1>3, <1>4 DEF HandleInv
<1>9. NoticeInv' BY <1>3, <1>4 DEF NoticeInv
<1> QED BY <1>6, <1>7, <1>8, <1>9 DEF SlotInv

LEMMA AdvStepsSlot ==
  ASSUME Whole, UseInv, SlotInv, AdvSteps
  PROVE  SlotInv'
<1>1. Types /\ nim \in NimT /\ fg \in CallT BY DEF Whole, Inv, Types
<1>2. RadioKept BY <1>1, AdvStaysOut, StaysOutIsKept
<1>3. CASE Incoming \/ IncomingPending \/ RefuseLink
  BY <1>3, IncomingSlot, IncomingPendingSlot, RefuseLinkSlot
<1>4. CASE AdvertiseStart \/ AdvertiseCall \/ AdvertiseCheck \/ AdvertiseStop \/ AdvertiseCancel
           \/ AdvertiseStopped \/ AdvertiseOver
  <2>1. conn' = conn /\ notices' = notices /\ cb' = cb
    BY <1>4 DEF AdvertiseStart, AdvertiseCall, AdvertiseCheck, AdvertiseStop, AdvertiseCancel, AdvertiseStopped,
                AdvertiseOver, KeepConn
  <2>2. nim'.conn = nim.conn /\ nim'.link = nim.link
    <3>1. nim' = nim \/ nim' = [nim EXCEPT !.adv = fg.gen] \/ nim' = [nim EXCEPT !.adv = 0]
      BY <1>4 DEF AdvertiseStart, AdvertiseCall, AdvertiseCheck, AdvertiseStop, AdvertiseCancel, AdvertiseStopped,
                  AdvertiseOver
    <3>2. fg.gen \in Nat BY <1>1, TypesFlat DEF PlacesOk
    <3> QED BY <1>1, <3>1, <3>2, NimAdv DEF NimNow
  <2>3. fg' = fg \/ (AdvPlace(fg.at) /\ AdvPlace(fg'.at))
    <3>1. CASE AdvertiseStart \/ AdvertiseStop
      <4>1. fg.at = "idle" /\ fg'.at \in {"adv.call", "adv.cancel"}
        BY <3>1, DoAt DEF AdvertiseStart, AdvertiseStop, Calls, At
      <4> QED BY <4>1 DEF AdvPlace, Advertising
    <3>2. CASE AdvertiseCall \/ AdvertiseCheck \/ AdvertiseCancel \/ AdvertiseStopped
      <4>1. fg.at \in Advertising
        BY <3>2 DEF AdvertiseCall, AdvertiseCheck, AdvertiseCancel, AdvertiseStopped, At, Advertising
      <4>2. fg'.at \in {"idle", "adv.check", "adv.stopped"}
        BY <1>1, <3>2, GoAt, AnswerAt DEF AdvertiseCall, AdvertiseCheck, AdvertiseCancel, AdvertiseStopped
      <4> QED BY <4>1, <4>2 DEF AdvPlace, Advertising
    <3>3. CASE AdvertiseOver BY <3>3 DEF AdvertiseOver, Callback
    <3> QED BY <1>4, <3>1, <3>2, <3>3
  <2>4. CallApart BY <2>3 DEF CallApart, AdvPlace, Advertising, Connecting, Closing, Cleared
  <2> QED BY <1>2, <2>1, <2>2, <2>4, SlotAside DEF ConnSame, LinkSame, CbSame
<1> QED BY <1>3, <1>4 DEF AdvSteps

-----------------------------------------------------------------------------
(* The connection slot: connecting *)

\* What a step of the connection may rely on.
SlotBase ==
  /\ Types /\ ConnOk /\ QueuesOk /\ NimOk /\ PlacesOk
  /\ LinkInv /\ PlaceInv
  /\ OwnerInv /\ PendingInv /\ HandleInv /\ NoticeInv
  /\ fg.at \notin RadioPhases => radio # "STARTING"
LEMMA SlotBasis == ASSUME Whole, SlotInv PROVE SlotBase /\ nim \in NimT /\ fg \in CallT /\ conn \in ConnT
<1>1. Types BY DEF Whole, Inv
<1>2. ConnOk /\ QueuesOk /\ NimOk /\ PlacesOk BY <1>1, TypesFlat
<1> QED BY <1>1, <1>2, StartingIsCalled DEF SlotBase, Whole, Inv, SlotInv, Types

\* A link that is not the driver's is not to be owned by it.
LEMMA CentralHasNoHandle ==
  ASSUME ConnOk, LinkInv, PlaceInv
  PROVE  /\ conn.st = "CONNECTING" /\ conn.role = "central" => ~conn.h
         /\ fg.at \in Closing /\ fg.gen = conn.gen /\ conn.st = "CLOSING" => conn.h
         /\ nim.conn # 0 /\ nim.conn = conn.gen /\ conn.st # "FREE" => ~conn.h
  BY DEF ConnOk, LinkInv, PlaceInv

LEMMA ConnectSlot == ASSUME SlotBase, conn \in ConnT, RadioKept, Connect PROVE SlotInv'
<1>1. fg.at = "idle" /\ radio = "READY" /\ conn.st = "FREE" BY DEF Connect, Calls, At, Quiet
<1>2. conn.gen \in Nat /\ conn.gen + 1 \in Nat BY DEF SlotBase, ConnOk
<1>3. ConnNow("CONNECTING", "central", conn.gen + 1, FALSE, TRUE, FALSE, FALSE, FALSE, 0)
  BY ConnReserved DEF Connect, ConnRoles
<1>4. conn'.st = "CONNECTING" /\ conn'.gen = conn.gen + 1 /\ ~conn'.h /\ conn'.ref /\ ~conn'.done BY <1>3 DEF ConnNow
<1>5. fg'.at = "connect.call" /\ fg'.gen = conn.gen + 1
  BY <1>2, FgDoes DEF Connect, Ops, GattPhases, FgNow
<1>6. nim' = nim /\ cb' = cb /\ notices' = notices BY DEF Connect
<1>7. nim.conn = 0 BY <1>1 DEF SlotBase, PendingInv, Cleared
<1>8. ~conn.h BY <1>1 DEF SlotBase, LinkInv
<1>9. OwnerInv' BY <1>1, <1>5, <1>6, <1>8 DEF SlotBase, OwnerInv, RadioKept, LinkUp, Cleared
<1>10. PendingInv' BY <1>4, <1>5, <1>6, <1>7 DEF PendingInv, Connecting
<1>11. HandleInv' BY <1>4 DEF HandleInv
<1>12. cb.kind = "accept" => cb.arg # conn'.gen
  <2>1. cb.arg \in Nat BY DEF SlotBase, PlacesOk
  <2>2. cb.kind = "accept" => cb.arg <= conn.gen BY DEF SlotBase, LinkInv
  <2> QED BY <1>2, <1>4, <2>1, <2>2
<1>13. NoticeInv' BY <1>4, <1>6, <1>12 DEF SlotBase, NoticeInv
<1> QED BY <1>9, <1>10, <1>11, <1>13 DEF SlotInv

LEMMA ConnectCallSlot ==
  ASSUME SlotBase, conn \in ConnT, fg \in CallT, nim \in NimT, RadioKept, ConnectCall PROVE SlotInv'
<1>1. fg.at = "connect.call" BY DEF ConnectCall, At
<1>2. fg.gen = conn.gen /\ conn.st = "CONNECTING" /\ conn.role = "central" BY <1>1 DEF SlotBase, PlaceInv
<1>3. ~conn.h BY <1>2, CentralHasNoHandle DEF SlotBase
<1>4. radio # "STARTING" BY <1>1 DEF SlotBase, RadioPhases
<1>5. conn.gen \in Nat BY DEF SlotBase, ConnOk
<1>6. notices' = notices /\ cb' = cb BY DEF ConnectCall
<1>7. CASE nim.conn = 0 /\ ~LinkUp /\ nim' = [nim EXCEPT !.conn = fg.gen] /\ Go("connect.wait") /\ conn' = conn
  <2>1. nim'.conn = conn.gen /\ nim'.link = nim.link BY <1>2, <1>5, <1>7, NimConn DEF NimNow
  <2>2. fg'.at = "connect.wait" /\ fg'.gen = conn.gen BY <1>2, <1>7, FgGoes DEF FgNow, GattPhases
  <2>3. conn' = conn /\ ~LinkUp BY <1>7
  <2>4. OwnerInv' BY <1>4, <2>1, <2>2, <2>3 DEF OwnerInv, RadioKept, LinkUp
  <2>5. PendingInv' BY <1>1, <1>2, <1>3, <2>1, <2>2, <2>3 DEF SlotBase, PendingInv, RadioKept, Connecting
  <2>6. HandleInv' BY <2>2, <2>3 DEF SlotBase, HandleInv, Closing
  <2>7. NoticeInv' BY <1>6, <2>3 DEF SlotBase, NoticeInv
  <2> QED BY <2>4, <2>5, <2>6, <2>7 DEF SlotInv
<1>8. CASE Free /\ Answer /\ nim' = nim
  <2>1. conn'.st = "FREE" BY <1>5, <1>8, ConnFree DEF Free, ConnNow
  <2>2. fg'.at = "idle" /\ nim' = nim BY <1>8, AnswerAt
  <2>3. OwnerInv' BY <1>1, <1>3, <1>4, <1>6, <2>1, <2>2 DEF SlotBase, OwnerInv, RadioKept, LinkUp, Cleared
  <2>4. nim.conn = 0 BY <1>1 DEF SlotBase, PendingInv
  <2>5. PendingInv' BY <2>1, <2>2, <2>4 DEF PendingInv
  <2>6. HandleInv' BY <2>1 DEF HandleInv
  <2>7. NoticeInv' BY <1>6, <2>1 DEF SlotBase, NoticeInv
  <2> QED BY <2>3, <2>5, <2>6, <2>7 DEF SlotInv
<1> QED BY <1>2, <1>7, <1>8 DEF ConnectCall

LEMMA ConnectWaitSlot ==
  ASSUME SlotBase, conn \in ConnT, RadioKept, ConnectWait PROVE SlotInv'
<1>1. fg.at = "connect.wait" /\ fg'.at = "idle" BY AnswerAt DEF ConnectWait, At
<1>2. notices' = notices /\ cb' = cb /\ nim' = nim BY DEF ConnectWait
<1>3. conn.gen \in Nat BY DEF SlotBase, ConnOk
<1>4. CASE fg.gen = conn.gen /\ conn.done /\ conn.st \notin {"LIVE", "CLOSING"}
  <2>1. Free BY <1>4 DEF ConnectWait
  <2>2. conn'.st = "FREE" BY <1>3, <2>1, ConnFree DEF Free, ConnNow
  <2>3. ~conn.h
    <3>1. conn.st # "FREE" => conn.role = "central" BY <1>1, <1>4 DEF SlotBase, PlaceInv
    <3>2. conn.st \in ConnStates BY DEF SlotBase, ConnOk
    <3> QED BY <1>4, <3>1, <3>2 DEF SlotBase, LinkInv, ConnStates
  <2>4. conn.done BY <1>4
  <2>5. OwnerInv' BY <1>1, <1>2, <2>2, <2>3 DEF SlotBase, OwnerInv, RadioKept, LinkUp, Cleared
  <2>6. PendingInv' BY <1>1, <1>2, <2>2, <2>4 DEF SlotBase, PendingInv, RadioKept, Cleared
  <2>7. HandleInv' BY <2>2 DEF HandleInv
  <2>8. NoticeInv' BY <1>2, <2>2 DEF SlotBase, NoticeInv
  <2> QED BY <2>5, <2>6, <2>7, <2>8 DEF SlotInv
<1>5. CASE ~(fg.gen = conn.gen /\ conn.done /\ conn.st \notin {"LIVE", "CLOSING"})
  <2>1. conn' = conn BY <1>5 DEF ConnectWait
  <2>2. fg.gen = conn.gen => conn.st = "FREE" \/ conn.done BY DEF ConnectWait
  <2>3. ~(conn.st = "CONNECTING" /\ conn.role = "central") BY <1>5, <2>2 DEF SlotBase, PendingInv
  <2>4. OwnerInv' BY <1>1, <1>2, <2>1 DEF SlotBase, OwnerInv, RadioKept, LinkUp, Cleared
  <2>5. PendingInv' BY <1>1, <1>2, <2>1, <2>3 DEF SlotBase, PendingInv, RadioKept, Cleared
  <2>6. HandleInv' BY <1>1, <2>1 DEF SlotBase, HandleInv, Closing
  <2>7. NoticeInv' BY <1>2, <2>1 DEF SlotBase, NoticeInv
  <2> QED BY <2>4, <2>5, <2>6, <2>7 DEF SlotInv
<1> QED BY <1>4, <1>5

LEMMA ConnectAbortSlot ==
  ASSUME SlotBase, conn \in ConnT, fg \in CallT, RadioKept, ConnectAbort PROVE SlotInv'
<1>1. fg.at = "connect.wait" /\ fg'.at = "connect.cancel" BY GoAt DEF ConnectAbort, At
<1>2. fg.gen = conn.gen /\ conn.st = "CONNECTING" /\ ~conn.done BY DEF ConnectAbort
<1>3. ConnNow("CLOSING", conn.role, conn.gen, conn.h, conn.ref, conn.done, conn.mtu, conn.par, conn.link)
  BY ConnSt DEF ConnectAbort, ConnStates
<1>4. conn'.st = "CLOSING" /\ conn'.role = conn.role /\ conn'.gen = conn.gen /\ (conn'.h <=> conn.h) /\ ~conn'.done
  BY <1>2, <1>3 DEF ConnNow
<1>5. nim' = nim /\ cb' = cb /\ notices' = notices BY DEF ConnectAbort
<1>6. conn.role = "central" BY <1>1, <1>2 DEF SlotBase, PlaceInv
<1>7. nim.conn = conn.gen BY <1>1, <1>2, <1>6 DEF SlotBase, PendingInv
<1>8. ~conn.h BY <1>2, <1>6, CentralHasNoHandle DEF SlotBase
<1>9. OwnerInv' BY <1>1, <1>4, <1>5 DEF SlotBase, OwnerInv, RadioKept, LinkUp, Cleared
<1>10. PendingInv' BY <1>1, <1>4, <1>5, <1>6, <1>7, <1>8 DEF PendingInv
<1>11. HandleInv' BY <1>1, <1>4 DEF HandleInv, Closing
<1>12. NoticeInv' BY <1>4, <1>5 DEF SlotBase, NoticeInv
<1> QED BY <1>9, <1>10, <1>11, <1>12 DEF SlotInv

LEMMA ConnectFailedSlot ==
  ASSUME SlotBase, conn \in ConnT, nim \in NimT, RadioKept, ConnectFailed PROVE SlotInv'
<1>1. fg' = fg /\ cb' = cb /\ notices' = notices /\ nim.conn # 0 BY DEF ConnectFailed, Callback
<1>2. nim'.conn = 0 /\ nim'.link = nim.link BY NimConn DEF ConnectFailed, NimNow
<1>3. CASE ~ConnectIsCurrent(nim.conn)
  <2>1. conn' = conn BY <1>3 DEF ConnectFailed
  <2>2. nim.conn = conn.gen /\ conn.role = "central" => conn.st \notin {"CONNECTING", "CLOSING"}
    BY <1>3 DEF ConnectIsCurrent
  <2>3. OwnerInv' BY <1>1, <1>2, <2>1 DEF SlotBase, OwnerInv, RadioKept, LinkUp
  <2>4. PendingInv' BY <1>1, <1>2, <2>1, <2>2 DEF SlotBase, PendingInv, RadioKept
  <2>5. HandleInv' BY <1>1, <2>1 DEF SlotBase, HandleInv
  <2>6. NoticeInv' BY <1>1, <2>1 DEF SlotBase, NoticeInv
  <2> QED BY <2>3, <2>4, <2>5, <2>6 DEF SlotInv
<1>4. CASE ConnectIsCurrent(nim.conn)
  <2>1. nim.conn = conn.gen /\ conn.role = "central" /\ conn.st \in {"CONNECTING", "CLOSING"}
    BY <1>4 DEF ConnectIsCurrent
  <2>2. ~conn.h BY <1>1, <2>1, CentralHasNoHandle DEF SlotBase
  <2>3. fg.at # "connect.call" BY <2>1 DEF SlotBase, PlaceInv
  <2>4. CASE conn.st = "CLOSING"
    <3>1. conn.gen \in Nat BY DEF SlotBase, ConnOk
    <3>2. conn'.st = "FREE" BY <1>4, <2>4, <3>1, ConnFree DEF ConnectFailed, Free, ConnNow
    <3>3. OwnerInv' BY <1>1, <1>2, <2>2, <3>2 DEF SlotBase, OwnerInv, RadioKept, LinkUp
    <3>4. PendingInv' BY <1>1, <1>2, <2>3, <3>2 DEF PendingInv
    <3>5. HandleInv' BY <3>2 DEF HandleInv
    <3>6. NoticeInv' BY <1>1, <3>2 DEF SlotBase, NoticeInv
    <3> QED BY <3>3, <3>4, <3>5, <3>6 DEF SlotInv
  <2>5. CASE conn.st = "CONNECTING"
    <3>1. conn' = [conn EXCEPT !.done = TRUE] BY <1>4, <2>5 DEF ConnectFailed
    <3>2. ConnNow(conn.st, conn.role, conn.gen, conn.h, conn.ref, TRUE, conn.mtu, conn.par, conn.link)
      BY <3>1, ConnDone
    <3>3. /\ conn'.st = "CONNECTING" /\ conn'.role = conn.role /\ conn'.gen = conn.gen /\ conn'.done
          /\ conn'.h <=> conn.h
          /\ conn'.ref <=> conn.ref
      BY <2>5, <3>2 DEF ConnNow
    <3>4. OwnerInv' BY <1>1, <1>2, <3>3 DEF SlotBase, OwnerInv, RadioKept, LinkUp
    <3>5. PendingInv' BY <1>1, <1>2, <2>1, <2>3, <2>5, <3>3 DEF SlotBase, PendingInv
    <3>6. HandleInv' BY <3>3 DEF HandleInv
    <3>7. NoticeInv' BY <1>1, <2>5, <3>3 DEF SlotBase, NoticeInv
    <3> QED BY <3>4, <3>5, <3>6, <3>7 DEF SlotInv
  <2> QED BY <2>1, <2>4, <2>5
<1> QED BY <1>3, <1>4

LEMMA ConnectedSlot ==
  ASSUME SlotBase, conn \in ConnT, nim \in NimT, RadioKept, Connected PROVE SlotInv'
<1>1. fg' = fg /\ cb.kind = "none" /\ notices' = notices /\ nim.conn # 0 /\ ~LinkUp
  BY DEF Connected, Callback, NoCb, ConnectionNew
<1>2. nim'.conn = 0 /\ nim'.link.term = "no" BY NimConnected DEF Connected, NimNow
<1>3. radio # "STARTING" BY <1>1 DEF SlotBase, OwnerInv
<1>4. CASE ~ConnectIsCurrent(nim.conn)
  <2>1. conn' = conn /\ cb' = cb BY <1>4 DEF Connected
  <2>2. nim.conn = conn.gen /\ conn.role = "central" => conn.st \notin {"CONNECTING", "CLOSING"}
    BY <1>4 DEF ConnectIsCurrent
  <2>3. fg.at \in Cleared \/ radio # "READY" BY <1>1, <2>2 DEF SlotBase, PendingInv
  <2>4. ~conn.h BY <1>1 DEF SlotBase, LinkInv
  <2>5. ~(fg.at = "closed.gone" /\ fg.gen = conn.gen /\ conn.st = "CLOSING")
    BY <2>4, CentralHasNoHandle DEF SlotBase, Closing
  <2>6. OwnerInv' BY <1>1, <1>3, <2>1, <2>3, <2>5 DEF OwnerInv, RadioKept
  <2>7. PendingInv' BY <1>1, <1>2, <2>1, <2>2 DEF SlotBase, PendingInv, RadioKept
  <2>8. HandleInv' BY <1>1, <2>1 DEF SlotBase, HandleInv
  <2>9. NoticeInv' BY <1>1, <2>1 DEF SlotBase, NoticeInv
  <2> QED BY <2>6, <2>7, <2>8, <2>9 DEF SlotInv
<1>5. CASE ConnectIsCurrent(nim.conn)
  <2>1. nim.conn = conn.gen /\ conn.role = "central" /\ conn.st \in {"CONNECTING", "CLOSING"}
    BY <1>5 DEF ConnectIsCurrent
  <2>2. ~conn.h BY <1>1, <2>1, CentralHasNoHandle DEF SlotBase
  <2>3. fg.at # "connect.call" BY <2>1 DEF SlotBase, PlaceInv
  <2>4. ~(fg.at \in Closing /\ fg.gen = conn.gen) BY <2>1, <2>2 DEF SlotBase, PlaceInv
  <2>5. ASSUME NEW s \in {"CLOSING", "LIVE"}, s = "LIVE" => conn.st = "CONNECTING", cb'.kind # "accept",
               conn' = [[conn EXCEPT !.h = TRUE, !.done = TRUE, !.link = nim.links + 1] EXCEPT !.st = s]
        PROVE  SlotInv'
    <3>1. nim.links + 1 \in Nat /\ s \in ConnStates BY DEF SlotBase, NimOk, ConnStates
    <3>2. ConnNow(s, conn.role, conn.gen, TRUE, conn.ref, TRUE, conn.mtu, conn.par, nim.links + 1)
      BY <2>5, <3>1, ConnUp
    <3>3. conn'.st = s /\ conn'.gen = conn.gen /\ conn'.h /\ (conn'.ref <=> conn.ref) BY <3>2 DEF ConnNow
    <3>4. s = "LIVE" => conn.ref BY <2>1, <2>5 DEF SlotBase, PendingInv
    <3>5. OwnerInv' BY <1>1, <1>3, <2>4, <3>3 DEF OwnerInv, RadioKept, Closing
    <3>6. PendingInv' BY <1>1, <1>2, <2>3, <3>3 DEF PendingInv
    <3>7. HandleInv' BY <1>1, <2>4, <3>3, <3>4 DEF HandleInv
    <3>8. NoticeInv' BY <1>1, <2>5, <3>3 DEF SlotBase, NoticeInv
    <3> QED BY <3>5, <3>6, <3>7, <3>8 DEF SlotInv
  <2>6. CASE /\ conn' = [[conn EXCEPT !.h = TRUE, !.done = TRUE, !.link = nim.links + 1] EXCEPT !.st = "CLOSING"]
             /\ cb' = [kind |-> "refuse", arg |-> 0]
    BY <2>5, <2>6
  <2>7. CASE /\ conn.st = "CONNECTING" /\ cb' = cb
             /\ conn' = [[conn EXCEPT !.h = TRUE, !.done = TRUE, !.link = nim.links + 1] EXCEPT !.st = "LIVE"]
    BY <1>1, <2>5, <2>7
  <2> QED BY <1>5, <2>6, <2>7 DEF Connected
<1> QED BY <1>4, <1>5

-----------------------------------------------------------------------------
(* The connection slot: a link of either role *)

\* A connection whose link is gone is freed, or the program is left with it.
LEMMA GoneSlot ==
  ASSUME SlotBase, RadioKept, conn.h, ~LinkUp, nim' = nim, notices' = notices, cb'.kind # "accept",
         conn'.st = "FREE" \/ (conn'.st = "DISCONNECTED" /\ conn'.ref),
         fg' = fg \/ (fg.at \notin Cleared /\ fg'.at = "idle")
  PROVE  SlotInv'
<1>1. radio = "READY" /\ nim.conn # 0 => fg.at \in Cleared BY DEF SlotBase, PendingInv
<1>2. fg.at # "connect.call" BY CentralHasNoHandle DEF SlotBase, PlaceInv
<1>3. OwnerInv' BY DEF SlotBase, OwnerInv, RadioKept, LinkUp
<1>4. PendingInv' BY <1>1, <1>2 DEF PendingInv, RadioKept
<1>5. HandleInv' BY DEF HandleInv
<1>6. NoticeInv' BY DEF SlotBase, NoticeInv
<1> QED BY <1>3, <1>4, <1>5, <1>6 DEF SlotInv

\* A connection the driver has a handle for is live, or is being closed.
LEMMA HeldSlot ==
  ASSUME SlotBase, RadioKept, conn.h, nim' = nim, cb' = cb, conn'.h, conn'.st \in {"LIVE", "CLOSING"},
         conn'.st = "LIVE" => conn'.ref, fg.at \in Closing \cup {"idle"},
         fg'.at \in {"idle", "close.call", "reject.call"},
         fg'.at # "idle" /\ fg'.op = "close" => conn'.ref,
         Len(notices') <= NoticeQueue
  PROVE  SlotInv'
<1>1. ~(radio = "READY" /\ nim.conn # 0) BY DEF SlotBase, PendingInv, Cleared, Closing
<1>2. OwnerInv' BY DEF SlotBase, OwnerInv, RadioKept, LinkUp
<1>3. PendingInv' BY <1>1 DEF PendingInv, RadioKept
<1>4. HandleInv' BY DEF HandleInv, Closing
<1>5. NoticeInv' BY DEF NoticeInv
<1> QED BY <1>2, <1>3, <1>4, <1>5 DEF SlotInv

LEMMA LinkLostSlot ==
  ASSUME SlotBase, nim \in NimT, RadioKept, LinkLost PROVE SlotInv'
<1>1. fg' = fg /\ conn' = conn /\ notices' = notices /\ cb'.kind = "down" BY DEF LinkLost, Callback, bleVars
<1>2. nim'.conn = nim.conn /\ nim'.link = NoLink BY NimLost DEF LinkLost, NimNow
<1>3. ~LinkUp' BY <1>2 DEF LinkUp, NoLink
<1>4. OwnerInv' BY <1>1, <1>2, <1>3 DEF SlotBase, OwnerInv, RadioKept
<1>5. PendingInv' BY <1>1, <1>2 DEF SlotBase, PendingInv, RadioKept
<1>6. HandleInv' BY <1>1 DEF SlotBase, HandleInv
<1>7. NoticeInv' BY <1>1 DEF SlotBase, NoticeInv
<1> QED BY <1>4, <1>5, <1>6, <1>7 DEF SlotInv

LEMMA LinkDownSlot ==
  ASSUME SlotBase, SlotInv, conn \in ConnT, RadioKept, LinkDown PROVE SlotInv'
<1>1. fg' = fg /\ nim' = nim /\ notices' = notices /\ cb.kind = "down" /\ cb'.kind = "none"
  BY DEF LinkDown, NoCb, KeepConn
<1>2. ~LinkUp BY <1>1 DEF SlotBase, LinkInv
<1>3. CASE conn' = conn BY <1>1, <1>3, SlotAside DEF ConnSame, LinkSame, CbSame, CallApart
<1>4. CASE Current(cb.arg) /\ conn.st = "LIVE" /\ MarkDisconnected
  <2>1. conn.h BY <1>4 DEF Current
  <2>2. conn.ref BY <1>4 DEF SlotBase, HandleInv
  <2>3. conn'.st = "DISCONNECTED" /\ (conn'.ref <=> conn.ref) BY <1>4, ConnDown DEF MarkDisconnected, ConnNow
  <2> QED BY <1>1, <1>2, <2>1, <2>2, <2>3, GoneSlot
<1>5. CASE Current(cb.arg) /\ Free
  <2>1. conn.h /\ conn.gen \in Nat BY <1>5 DEF Current, SlotBase, ConnOk
  <2>2. conn'.st = "FREE" BY <1>5, <2>1, ConnFree DEF Free, ConnNow
  <2> QED BY <1>1, <1>2, <2>1, <2>2, GoneSlot
<1> QED BY <1>3, <1>4, <1>5 DEF LinkDown, KeepConn

LEMMA TerminateFailsSlot ==
  ASSUME SlotBase, nim \in NimT, RadioKept, TerminateFails PROVE SlotInv'
<1>1. fg' = fg /\ conn' = conn /\ notices' = notices /\ cb' = cb BY DEF TerminateFails, Callback, bleVars
<1>2. nim'.conn = nim.conn /\ nim'.link.id = nim.link.id /\ nim'.link.term = "refused"
  BY NimLinkTerm DEF TerminateFails, NimNow, TermT
<1>3. OwnerInv' BY <1>1, <1>2 DEF SlotBase, OwnerInv, RadioKept, LinkUp
<1>4. PendingInv' BY <1>1, <1>2 DEF SlotBase, PendingInv, RadioKept
<1>5. HandleInv' BY <1>1 DEF SlotBase, HandleInv
<1>6. NoticeInv' BY <1>1 DEF SlotBase, NoticeInv
<1> QED BY <1>3, <1>4, <1>5, <1>6 DEF SlotInv

\* The program is given the first connection that still waits.
LEMMA TakenNotice ==
  ASSUME SlotBase, Found(notices) # <<>>
  PROVE  conn.st = "PENDING" /\ conn.h /\ Len(Tail(Found(notices))) <= NoticeQueue
<1>1. notices \in Seq(Nat) /\ NoticeQueue \in Nat BY LinkAssumption DEF SlotBase, QueuesOk
<1>2. Found(notices) \in Seq(Nat) /\ conn.st = "PENDING" /\ Len(Found(notices)) <= Len(notices) BY <1>1, FoundIs
<1>3. conn.h BY <1>2 DEF SlotBase, LinkInv
<1>4. Len(notices) <= NoticeQueue BY DEF SlotBase, NoticeInv
<1>5. Len(Tail(Found(notices))) = Len(Found(notices)) - 1 BY <1>2
<1>6. Len(Found(notices)) \in Nat /\ Len(notices) \in Nat BY <1>1, <1>2
<1>7. Len(Tail(Found(notices))) <= NoticeQueue BY <1>1, <1>2, <1>4, <1>5, <1>6
<1> QED BY <1>2, <1>3, <1>7

LEMMA AcceptSlot ==
  ASSUME SlotBase, conn \in ConnT, RadioKept, Accept PROVE SlotInv'
<1>1. fg' = fg /\ nim' = nim /\ cb' = cb /\ fg.at = "idle" BY DEF Accept, Calls, At
<1>2. CASE Found(notices) = <<>>
  <2>1. conn' = conn /\ notices' = <<>> BY <1>2 DEF Accept
  <2>2. conn.st # "PENDING" BY <1>2, FoundHas DEF SlotBase, QueuesOk, NoticeInv
  <2>3. Len(notices') = 0 /\ 0 < NoticeQueue BY <2>1, LinkAssumption
  <2>4. OwnerInv' BY <1>1, <2>1 DEF SlotBase, OwnerInv, RadioKept, LinkUp
  <2>5. PendingInv' BY <1>1, <2>1 DEF SlotBase, PendingInv, RadioKept
  <2>6. HandleInv' BY <1>1, <2>1 DEF SlotBase, HandleInv
  <2>7. Len(notices') <= NoticeQueue BY <2>3, LinkAssumption
  <2>8. NoticeInv' BY <2>1, <2>2, <2>3, <2>7 DEF NoticeInv
  <2> QED BY <2>4, <2>5, <2>6, <2>8 DEF SlotInv
<1>3. CASE Found(notices) # <<>>
  <2>1. notices' = Tail(Found(notices)) /\ conn' = [conn EXCEPT !.st = "LIVE", !.ref = TRUE] BY <1>3 DEF Accept
  <2>2. conn.h /\ Len(notices') <= NoticeQueue BY <1>3, <2>1, TakenNotice
  <2>3. ConnNow("LIVE", conn.role, conn.gen, conn.h, TRUE, conn.done, conn.mtu, conn.par, conn.link)
    BY <2>1, ConnAccepted
  <2>4. conn'.st = "LIVE" /\ conn'.h /\ conn'.ref BY <2>2, <2>3 DEF ConnNow
  <2> QED BY <1>1, <2>2, <2>4, HeldSlot
<1> QED BY <1>2, <1>3

LEMMA RejectPendingSlot ==
  ASSUME SlotBase, conn \in ConnT, RadioKept, RejectPending PROVE SlotInv'
<1>1. nim' = nim /\ cb' = cb /\ fg.at = "idle" BY DEF RejectPending, Calls, At
<1>2. notices' = Tail(Found(notices)) /\ Found(notices) # <<>> BY DEF RejectPending
<1>3. conn.h /\ Len(notices') <= NoticeQueue BY <1>2, TakenNotice
<1>4. ConnNow("CLOSING", conn.role, conn.gen, conn.h, conn.ref, conn.done, conn.mtu, conn.par, conn.link)
  BY ConnSt DEF RejectPending, ConnStates
<1>5. conn'.st = "CLOSING" /\ conn'.h BY <1>3, <1>4 DEF ConnNow
<1>6. conn.gen \in Nat BY DEF SlotBase, ConnOk
<1>7. fg'.at = "reject.call" /\ fg'.op = "reject"
  BY <1>6, FgDoes DEF RejectPending, Ops, GattPhases, Closing, FgNow
<1> QED BY <1>1, <1>3, <1>5, <1>7, HeldSlot

LEMMA CloseSlot ==
  ASSUME SlotBase, conn \in ConnT, RadioKept, Close PROVE SlotInv'
<1>1. nim' = nim /\ cb' = cb /\ fg.at = "idle" /\ conn.ref /\ notices' = notices BY DEF Close, At
<1>2. CASE conn.st = "DISCONNECTED"
  <2>1. conn.gen \in Nat BY DEF SlotBase, ConnOk
  <2>2. conn'.st = "FREE" /\ fg' = fg BY <1>2, <2>1, ConnFree DEF Close, Free, ConnNow
  <2>3. ~conn.h BY <1>2 DEF SlotBase, LinkInv
  <2>4. OwnerInv' BY <1>1, <2>2, <2>3 DEF SlotBase, OwnerInv, RadioKept, LinkUp, Cleared
  <2>5. ~(radio = "READY" /\ nim.conn # 0) BY <1>1, <1>2 DEF SlotBase, PendingInv, Cleared
  <2>6. PendingInv' BY <1>1, <2>2, <2>5 DEF PendingInv, RadioKept
  <2>7. HandleInv' BY <2>2 DEF HandleInv
  <2>8. NoticeInv' BY <1>1, <2>2 DEF SlotBase, NoticeInv
  <2> QED BY <2>4, <2>6, <2>7, <2>8 DEF SlotInv
<1>3. CASE conn.st = "LIVE"
  <2>1. conn.h BY <1>3 DEF SlotBase, LinkInv
  <2>2. conn' = [conn EXCEPT !.st = "CLOSING"] /\ Do("close", "close.call", conn.gen) BY <1>3 DEF Close
  <2>3. ConnNow("CLOSING", conn.role, conn.gen, conn.h, conn.ref, conn.done, conn.mtu, conn.par, conn.link)
    BY <2>2, ConnSt DEF ConnStates
  <2>4. conn'.st = "CLOSING" /\ conn'.h /\ conn'.ref BY <1>1, <2>1, <2>3 DEF ConnNow
  <2>5. fg'.at = "close.call" BY <2>2, DoAt
  <2>6. Len(notices') <= NoticeQueue BY <1>1 DEF SlotBase, NoticeInv
  <2> QED BY <1>1, <2>1, <2>4, <2>5, <2>6, HeldSlot
<1> QED BY <1>2, <1>3 DEF Close

LEMMA CloseCallSlot ==
  ASSUME SlotBase, fg \in CallT, RadioKept, CloseCall PROVE SlotInv'
<1>1. conn' = conn /\ notices' = notices /\ cb' = cb BY DEF CloseCall, bleVars
<1>2. fg.at \in {"close.call", "reject.call"} BY DEF CloseCall, At
<1>3. fg.at \in Closing BY <1>2 DEF Closing
<1>4. fg'.at \in {"closed.ok", "closed.refused", "closed.gone"} /\ fg'.op = fg.op /\ fg'.gen = fg.gen
  BY FgGoes DEF CloseCall, FgNow, GattPhases, Closing
<1>5. \/ nim' = nim /\ ~LinkUp
      \/ nim' \in {Terminated, TerminateRefused} /\ LinkUp /\ fg'.at # "closed.gone"
  BY GoAt DEF CloseCall
<1>6. /\ nim'.conn = nim.conn /\ nim'.link.id = nim.link.id
      /\ LinkUp => nim'.link.term # "no" /\ fg'.at # "closed.gone"
  BY <1>5, Terminates DEF SlotBase, NimNow
<1>7. OwnerInv' BY <1>1, <1>2, <1>6 DEF SlotBase, OwnerInv, RadioKept, LinkUp
<1>8. PendingInv' BY <1>1, <1>2, <1>4, <1>6 DEF SlotBase, PendingInv, RadioKept, Connecting, Cleared
<1>9. HandleInv' BY <1>1, <1>3, <1>4 DEF SlotBase, HandleInv
<1>10. NoticeInv' BY <1>1 DEF SlotBase, NoticeInv
<1> QED BY <1>7, <1>8, <1>9, <1>10 DEF SlotInv

LEMMA CloseDoneSlot ==
  ASSUME SlotBase, SlotInv, conn \in ConnT, RadioKept, CloseDone PROVE SlotInv'
<1>1. nim' = nim /\ cb' = cb /\ notices' = notices /\ fg'.at = "idle" BY AnswerAt DEF CloseDone
<1>2. fg.at \in Closing /\ fg.at \notin Connecting \cup Cleared
  BY DEF CloseDone, At, Closing, Connecting, Cleared
<1>3. Len(notices') <= NoticeQueue BY <1>1 DEF SlotBase, NoticeInv
<1>4. CASE conn' = conn
  <2>1. fg'.at \notin Connecting \cup Closing BY <1>1 DEF Connecting, Closing
  <2> QED BY <1>1, <1>2, <1>4, <2>1, SlotAside DEF ConnSame, LinkSame, CbSame, CallApart
<1>5. ASSUME fg.gen = conn.gen, conn.st = "CLOSING" PROVE conn.h
  BY <1>2, <1>5, CentralHasNoHandle DEF SlotBase
<1>6. CASE fg.gen = conn.gen /\ conn.st = "CLOSING" /\ At("closed.gone") /\ Free
  <2>1. conn.h BY <1>5, <1>6
  <2>2. ~LinkUp BY <1>6 DEF SlotBase, OwnerInv, At
  <2>3. conn.gen \in Nat BY DEF SlotBase, ConnOk
  <2>4. conn'.st = "FREE" BY <1>6, <2>3, ConnFree DEF Free, ConnNow
  <2>5. cb'.kind # "accept" BY <1>1, <2>2 DEF SlotBase, LinkInv
  <2> QED BY <1>1, <1>2, <2>1, <2>2, <2>4, <2>5, GoneSlot
<1>7. CASE fg.gen = conn.gen /\ conn.st = "CLOSING" /\ fg.op = "close" /\ conn' = [conn EXCEPT !.st = "LIVE"]
  <2>1. conn.h BY <1>5, <1>7
  <2>2. conn.ref BY <1>2, <1>7 DEF SlotBase, HandleInv
  <2>3. ConnNow("LIVE", conn.role, conn.gen, conn.h, conn.ref, conn.done, conn.mtu, conn.par, conn.link)
    BY <1>7, ConnSt DEF ConnStates
  <2>4. conn'.st = "LIVE" /\ conn'.h /\ conn'.ref BY <2>1, <2>2, <2>3 DEF ConnNow
  <2> QED BY <1>1, <1>2, <1>3, <2>1, <2>4, HeldSlot
<1>8. CASE fg.gen = conn.gen /\ conn.st = "CLOSING" /\ conn' = [conn EXCEPT !.ref = FALSE]
  <2>1. conn.h BY <1>5, <1>8
  <2>2. ConnNow(conn.st, conn.role, conn.gen, conn.h, FALSE, conn.done, conn.mtu, conn.par, conn.link)
    BY <1>8, ConnUnref
  <2>3. conn'.st = "CLOSING" /\ conn'.h BY <1>8, <2>1, <2>2 DEF ConnNow
  <2> QED BY <1>1, <1>2, <1>3, <2>1, <2>3, HeldSlot
<1> QED BY <1>4, <1>6, <1>7, <1>8 DEF CloseDone

LEMMA HeldCallsSlot ==
  ASSUME SlotBase, SlotInv, conn \in ConnT, fg \in CallT, nim \in NimT, RadioKept,
         ConnectCancel \/ Params \/ ParamsCall \/ ParamsUpdated \/ Mtu \/ MtuCall \/ MtuWait \/ MtuComplete
  PROVE  SlotInv'
<1>1. notices' = notices /\ cb' = cb
  BY DEF ConnectCancel, Params, ParamsCall, ParamsUpdated, Mtu, MtuCall, MtuWait, MtuComplete, lvars, bleVars
<1>2. nim'.conn = nim.conn /\ nim'.link = nim.link
  <2>1. nim' = nim \/ nim' = [nim EXCEPT !.mtu = TRUE] \/ nim' = [nim EXCEPT !.mtu = FALSE]
    BY DEF ConnectCancel, Params, ParamsCall, ParamsUpdated, Mtu, MtuCall, MtuWait, MtuComplete, lvars
  <2> QED BY <2>1, NimMtu DEF NimNow
<1>3. fg' = fg \/ (fg.at \in Holding \cup {"idle", "connect.cancel"} /\ fg'.at \in Holding \cup {"idle"})
  <2>1. CASE ConnectCancel \/ ParamsCall \/ MtuWait
    BY <2>1, AnswerAt DEF ConnectCancel, ParamsCall, MtuWait, At, Holding
  <2>2. CASE Params \/ Mtu BY <2>2, DoAt DEF Params, Mtu, At, Holding
  <2>3. CASE MtuCall BY <2>3, GoAt, AnswerAt DEF MtuCall, At, Holding
  <2>4. CASE ParamsUpdated \/ MtuComplete BY <2>4 DEF ParamsUpdated, MtuComplete, Callback
  <2> QED BY <2>1, <2>2, <2>3, <2>4
<1>4. CallApart BY <1>3 DEF CallApart, Holding, Connecting, Closing, Cleared
<1>5. CASE ParamsCall /\ ~LinkUp /\ conn.st = "LIVE" /\ conn.h /\ MarkDisconnected
  <2>1. conn.ref BY <1>5 DEF SlotBase, HandleInv
  <2>2. conn'.st = "DISCONNECTED" /\ (conn'.ref <=> conn.ref) BY <1>5, ConnDown DEF MarkDisconnected, ConnNow
  <2>3. nim' = nim /\ fg.at \notin Cleared /\ fg'.at = "idle" BY <1>5, AnswerAt DEF ParamsCall, At, Cleared
  <2>4. cb'.kind # "accept" BY <1>1, <1>5 DEF SlotBase, LinkInv
  <2> QED BY <1>1, <1>5, <2>1, <2>2, <2>3, <2>4, GoneSlot
<1>6. CASE ~(ParamsCall /\ ~LinkUp /\ conn.st = "LIVE" /\ conn.h /\ MarkDisconnected)
  <2>1. \/ conn' = conn
        \/ conn' = [conn EXCEPT !.par = TRUE] \/ conn' = [conn EXCEPT !.par = FALSE]
        \/ conn' = [conn EXCEPT !.mtu = TRUE] \/ conn' = [conn EXCEPT !.mtu = FALSE]
    BY <1>6 DEF ConnectCancel, Params, ParamsCall, ParamsUpdated, Mtu, MtuCall, MtuWait, MtuComplete, lvars, bleVars
  <2>2. ConnSame
    <3>1. CASE conn' = conn BY <3>1 DEF ConnSame
    <3>2. CASE conn' = [conn EXCEPT !.par = TRUE] \/ conn' = [conn EXCEPT !.par = FALSE]
      BY <3>2, ConnPar DEF ConnNow, ConnSame, ConnT
    <3>3. CASE conn' = [conn EXCEPT !.mtu = TRUE] \/ conn' = [conn EXCEPT !.mtu = FALSE]
      BY <3>3, ConnMtu DEF ConnNow, ConnSame, ConnT
    <3> QED BY <2>1, <3>1, <3>2, <3>3
  <2> QED BY <1>1, <1>2, <1>4, <2>2, SlotAside DEF LinkSame, CbSame
<1> QED BY <1>5, <1>6

LEMMA ConnStepsSlot == ASSUME Whole, SlotInv, ConnSteps PROVE SlotInv'
<1>1. SlotBase /\ nim \in NimT /\ fg \in CallT /\ conn \in ConnT BY SlotBasis
<1>2. RadioKept BY <1>1, ConnStaysOut, StaysOutIsKept
<1>3. CASE Connect \/ ConnectCall \/ ConnectWait \/ ConnectAbort \/ ConnectFailed \/ Connected
  BY <1>1, <1>2, <1>3, ConnectSlot, ConnectCallSlot, ConnectWaitSlot, ConnectAbortSlot, ConnectFailedSlot,
     ConnectedSlot
<1>4. CASE LinkLost \/ LinkDown \/ TerminateFails \/ Accept \/ RejectPending \/ Close \/ CloseCall \/ CloseDone
  BY <1>1, <1>2, <1>4, LinkLostSlot, LinkDownSlot, TerminateFailsSlot, AcceptSlot, RejectPendingSlot, CloseSlot,
     CloseCallSlot, CloseDoneSlot
<1>5. CASE ConnectCancel \/ Params \/ ParamsCall \/ ParamsUpdated \/ Mtu \/ MtuCall \/ MtuWait \/ MtuComplete
  BY <1>1, <1>2, <1>5, HeldCallsSlot
<1> QED BY <1>3, <1>4, <1>5 DEF ConnSteps

-----------------------------------------------------------------------------
(* Clearing the project *)

LEMMA ClearUse ==
  ASSUME UseInv, RadioKept, nim' = nim, fg.at \in Forgetting \cup {"idle"}, fg'.at \in Forgetting,
         scan' = scan \/ scan'.st = "IDLE", adv' = adv \/ adv'.st = "IDLE"
  PROVE  UseInv'
<1>1. fg'.at \notin Scanning \cup Advertising BY DEF Forgetting, Cleared, Scanning, Advertising
<1>2. fg.at # "scan.call" /\ fg.at # "adv.call" BY DEF Forgetting, Cleared
<1>3. ScanInv' BY <1>1, <1>2 DEF UseInv, ScanInv, RadioKept, Scanning
<1>4. AdvInv' BY <1>1, <1>2 DEF UseInv, AdvInv, RadioKept, Advertising
<1>5. ApartInv' BY <1>1, <1>2 DEF UseInv, ApartInv, Scanning, Advertising
<1> QED BY <1>3, <1>4, <1>5 DEF UseInv

LEMMA ClearSlot ==
  ASSUME SlotInv, RadioKept, nim' = nim, cb' = cb, fg'.at \in Cleared, conn'.st = "FREE", notices' = <<>>
  PROVE  SlotInv'
<1>1. Len(notices') <= NoticeQueue BY LinkAssumption
<1>2. fg'.at \notin Connecting \cup Closing BY DEF Cleared, Connecting, Closing
<1>3. OwnerInv' BY DEF SlotInv, OwnerInv, RadioKept, LinkUp
<1>4. PendingInv' BY <1>2 DEF PendingInv, RadioKept, Connecting
<1>5. HandleInv' BY <1>2 DEF HandleInv
<1>6. NoticeInv' BY <1>1 DEF NoticeInv
<1> QED BY <1>3, <1>4, <1>5, <1>6 DEF SlotInv

LEMMA ClearStepsAgree ==
  ASSUME Whole, UseInv, SlotInv, ClearSteps
  PROVE  UseInv' /\ SlotInv'
<1>1. Types /\ fg \in CallT BY DEF Whole, Inv, Types
<1>2. RadioKept
  <2>1. CASE ProjectClear \/ ClearAdvertising \/ ClearLink \/ ClearServer
    BY <1>1, <2>1, ClearStaysOut, StaysOutIsKept
  <2>2. CASE OffAll BY <2>2 DEF OffAll, Off, RadioKept, flags, stack
  <2>3. CASE ClearClient BY <2>3 DEF ClearClient, LeaveRadio, RadioKept, flags, stack
  <2> QED BY <2>1, <2>2, <2>3 DEF ClearSteps
<1>3. nim' = nim /\ cb' = cb
  BY DEF ClearSteps, OffAll, ProjectClear, ClearAdvertising, ClearLink, ClearServer, ClearClient, KeepGap
<1>4. fg.at \in Forgetting \cup {"idle"} /\ fg'.at \in Forgetting
  <2>1. fg.at \in {"idle", "clear.adv", "clear.conn", "clear.server", "clear.client"}
    BY DEF ClearSteps, OffAll, Off, ProjectClear, ClearAdvertising, ClearLink, ClearServer, ClearClient, At
  <2>2. fg'.at \in {"clean", "clear.adv", "clear.conn", "clear.server", "clear.client"}
    <3>1. CASE OffAll BY <3>1 DEF OffAll, Off, Begin
    <3>2. CASE ProjectClear BY <3>2, DoAt DEF ProjectClear
    <3>3. CASE ClearAdvertising \/ ClearLink \/ ClearServer \/ ClearClient
      BY <1>1, <3>3, GoAt DEF ClearAdvertising, ClearLink, ClearServer, ClearClient
    <3> QED BY <3>1, <3>2, <3>3 DEF ClearSteps
  <2> QED BY <2>1, <2>2 DEF Forgetting, Cleared
<1>5. scan' = scan \/ scan'.st = "IDLE"
  BY <1>1, AbandonedScan
  DEF ClearSteps, OffAll, ProjectClear, ClearAdvertising, ClearLink, ClearServer, ClearClient, KeepGap, ScanNow
<1>6. adv' = adv \/ adv'.st = "IDLE"
  BY <1>1, AbandonedAdv
  DEF ClearSteps, OffAll, ProjectClear, ClearAdvertising, ClearLink, ClearServer, ClearClient, KeepGap, AdvNow
<1>7. UseInv' BY <1>2, <1>3, <1>4, <1>5, <1>6, ClearUse
<1>8. CASE OffAll \/ ClearLink
  <2>1. conn'.st = "FREE" /\ notices' = <<>>
    BY <1>1, <1>8, ClearedConn DEF OffAll, ClearLink, ClearConnections, ConnNow
  <2>2. fg'.at \in {"clean", "clear.server"} BY <1>1, <1>8, GoAt DEF OffAll, Off, Begin, ClearLink
  <2>3. fg'.at \in Cleared BY <2>2 DEF Cleared
  <2> QED BY <1>2, <1>3, <1>7, <2>1, <2>3, ClearSlot
<1>9. CASE ProjectClear \/ ClearAdvertising \/ ClearServer \/ ClearClient
  <2>1. conn' = conn /\ notices' = notices
    BY <1>9 DEF ProjectClear, ClearAdvertising, ClearServer, ClearClient, KeepConn, KeepGap
  <2>2. \/ fg.at \in {"idle", "clear.adv"} /\ fg'.at \in {"clear.adv", "clear.conn"}
        \/ fg.at \in Cleared /\ fg'.at \in Cleared
    <3>1. CASE ProjectClear BY <3>1, DoAt DEF ProjectClear, At
    <3>2. CASE ClearAdvertising BY <1>1, <3>2, GoAt DEF ClearAdvertising, At
    <3>3. CASE ClearServer BY <1>1, <3>3, GoAt DEF ClearServer, At, Cleared
    <3>4. CASE ClearClient BY <1>1, <3>4, GoAt DEF ClearClient, At, Cleared
    <3> QED BY <1>9, <3>1, <3>2, <3>3, <3>4
  <2>3. CallApart BY <2>2 DEF CallApart, Cleared, Connecting, Closing
  <2> QED BY <1>2, <1>3, <1>7, <2>1, <2>3, SlotAside DEF ConnSame, LinkSame, CbSame
<1> QED BY <1>8, <1>9 DEF ClearSteps

-----------------------------------------------------------------------------
(* The radio's own steps *)

\* A ready radio stays ready, and becomes ready, or starts, with nothing of
\* NimBLE's left to forget.
RadioTurns ==
  /\ radio = "READY" => radio' = "READY"
  /\ radio # "READY" /\ radio' \in {"READY", "STARTING"} =>
       nim.scan = 0 /\ nim.adv = 0 /\ nim.conn = 0 /\ ~LinkUp /\ fg.at \in RadioPhases
HostStays == host \in {"running", "leaving"} => host' \in {"running", "leaving"}
\* A call does not leave what it clears while the radio is ready.
RadioGoes ==
  \/ fg' = fg
  \/ RadioPlace(fg.at) /\ RadioPlace(fg'.at) /\ (radio = "READY" => fg.at \notin Forgetting)

LEMMA TurnUse ==
  ASSUME UseInv, RadioTurns, HostStays, RadioGoes, UNCHANGED <<scan, adv, nim>>
  PROVE  UseInv'
<1>1. fg' = fg \/ (fg'.at \notin Scanning \cup Advertising /\ (radio = "READY" => fg.at \notin Forgetting))
  BY DEF RadioGoes, RadioPlace, RadioPhases, Scanning, Advertising
<1>2. fg' = fg \/ (fg.at # "scan.call" /\ fg.at # "adv.call") BY DEF RadioGoes, RadioPlace, RadioPhases
<1>3. radio' = "READY" /\ radio # "READY" => nim.scan = 0 /\ nim.adv = 0 /\ fg.at \in RadioPhases
  BY DEF RadioTurns
<1>4. fg.at \in RadioPhases => fg.at # "scan.call" /\ fg.at # "adv.call" BY DEF RadioPhases
<1>5. ScanInv' BY <1>1, <1>2, <1>3, <1>4 DEF UseInv, ScanInv, RadioTurns, HostStays, Scanning
<1>6. AdvInv' BY <1>1, <1>2, <1>3, <1>4 DEF UseInv, AdvInv, RadioTurns, HostStays, Advertising
<1>7. ApartInv' BY <1>1 DEF UseInv, ApartInv, Scanning, Advertising
<1> QED BY <1>5, <1>6, <1>7 DEF UseInv

LEMMA TurnSlot ==
  ASSUME SlotInv, RadioTurns, RadioGoes, UNCHANGED <<conn, notices, nim, cb>>
  PROVE  SlotInv'
<1>1. /\ fg' = fg \/ fg'.at \notin Connecting \cup Closing
      /\ fg' = fg \/ fg.at \notin Connecting
      /\ fg' = fg \/ (radio = "READY" => fg.at \notin Cleared)
  BY DEF RadioGoes, RadioPlace, RadioPhases, Connecting, Closing, Forgetting
<1>2. fg.at \in RadioPhases => fg.at # "connect.call" BY DEF RadioPhases
<1>3. LinkUp' <=> LinkUp BY DEF LinkUp
<1>4. OwnerInv' BY <1>1, <1>3 DEF SlotInv, OwnerInv, RadioTurns, Closing
<1>5. PendingInv' BY <1>1, <1>2 DEF SlotInv, PendingInv, RadioTurns, Connecting
<1>6. HandleInv' BY <1>1 DEF SlotInv, HandleInv
<1>7. NoticeInv' BY DEF SlotInv, NoticeInv
<1> QED BY <1>4, <1>5, <1>6, <1>7 DEF SlotInv

\* What the radio's own invariant says of the driver's state.
LEMMA RadioFacts ==
  ASSUME Whole
  PROVE  /\ shut <=> radio = "STOPPING"
         /\ radio = "READY" => host = "running" /\ portFlag
         /\ worker.at # "none" => shut
         /\ fg.at = "on.start" => host = "none" /\ radio # "READY"
         /\ fg.at \in {"on.undo", "on.register"} => host = "none" /\ radio # "READY"
<1>1. R!Types /\ R!HostTruth /\ R!RadioTruth /\ R!ShutTruth /\ R!StartTruth BY DEF Whole, R!IInv
<1>2. fg.at \in RadioPhases => RadioCall.at = fg.at BY DEF RadioCall, Seen
<1>3. {"on.start", "on.undo", "on.register"} \subseteq RadioPhases BY DEF RadioPhases
<1>4. fg.at \in {"on.start", "on.undo", "on.register"} => host = "none" /\ radio # "READY"
  BY <1>1, <1>2, <1>3 DEF R!StartTruth, R!RadioTruth, R!Fresh
<1>5. radio = "READY" => host = "running" /\ portFlag
  <2>1. radio = "READY" => host = "running" /\ RadioCall.at \notin R!Fresh BY <1>1 DEF R!RadioTruth
  <2>2. host = "running" => portFlag \/ RadioCall.at = "on.register" BY <1>1 DEF R!HostTruth
  <2> QED BY <2>1, <2>2 DEF R!Fresh
<1>6. shut <=> radio = "STOPPING" BY <1>1 DEF R!RadioTruth, R!Types
<1>7. worker.at # "none" => shut BY <1>1 DEF R!ShutTruth
<1> QED BY <1>4, <1>5, <1>6, <1>7

\* NimBLE does nothing for anybody while its host does not run.
LEMMA NothingRuns ==
  ASSUME Whole, UseInv, host = "none"
  PROVE  nim.scan = 0 /\ nim.adv = 0 /\ nim.conn = 0 /\ ~LinkUp
  BY DEF Whole, Inv, LinkInv, UseInv, ScanInv, AdvInv

LEMMA RadioStepsTurn ==
  ASSUME Whole, UseInv, SlotInv, RadioSteps \/ MayBeOff
  PROVE  RadioTurns /\ HostStays /\ RadioGoes
<1>1. Types /\ fg \in CallT /\ life \in Nat BY DEF Whole, Inv, Types, R!IInv, R!Types
<1>2. /\ shut <=> radio = "STOPPING"
      /\ radio = "READY" => host = "running" /\ portFlag
      /\ worker.at # "none" => shut
      /\ fg.at = "on.start" => host = "none" /\ radio # "READY"
      /\ fg.at \in {"on.undo", "on.register"} => host = "none" /\ radio # "READY"
  BY RadioFacts
<1>3. radio = "STARTING" => nim.scan = 0 /\ nim.adv = 0 /\ nim.conn = 0 /\ ~LinkUp /\ fg.at \in RadioPhases
  BY StartingIsCalled DEF UseInv, ScanInv, AdvInv, SlotInv, OwnerInv
<1>4. radio' = radio \/ (radio # "READY" /\ radio' \notin {"READY", "STARTING"}) => RadioTurns
  BY <1>3 DEF RadioTurns
<1>5. RadioTurns
  <2>1. CASE OnCheck \/ OnPortInit \/ OnRegister \/ OnCreateHost \/ OnHostCreated \/ OnWait \/ OnGiveUp \/ OnAbort
             \/ QueueBarrier \/ WaitCleanup \/ WorkerBegin \/ WorkerDrain \/ WorkerDeinit
             \/ HostEnter \/ HostEnabled \/ StopHost
    BY <1>4, <2>1
    DEF OnCheck, OnPortInit, OnRegister, OnCreateHost, OnHostCreated, OnWait, OnGiveUp, OnAbort, QueueBarrier,
        WaitCleanup, WorkerBegin, WorkerDrain, WorkerDeinit, HostEnter, HostEnabled, StopHost, WorkerStop, flags
  <2>2. CASE OnStart
    <3>1. radio # "READY" /\ host = "none" /\ fg.at = "on.start" BY <1>2, <2>2 DEF OnStart, At
    <3>2. nim.scan = 0 /\ nim.adv = 0 /\ nim.conn = 0 /\ ~LinkUp BY <3>1, NothingRuns
    <3> QED BY <3>1, <3>2 DEF RadioTurns, RadioPhases
  <2>3. CASE OnSync
    <3>1. radio = "STARTING" /\ radio' \in {"READY", "FAILED"} BY <2>3 DEF OnSync, FailOwing
    <3> QED BY <1>3, <3>1 DEF RadioTurns
  <2>4. CASE OnPortInitFails \/ OnCreateHostFails
    BY <1>4, <2>4 DEF OnPortInitFails, OnCreateHostFails, FailOwing
  <2>5. CASE StartWorker \/ RunBarrier
    BY <1>2, <1>4, <2>5 DEF StartWorker, RunBarrier, SpawnWorker, SpawnFails, FailOwing, flags
  <2>6. CASE OnRegisterFails \/ OnUndoPort
    BY <1>2, <1>4, <2>6 DEF OnRegisterFails, OnUndoPort, At, MarkOff, FailOwing
  <2>7. CASE BeginCleanup
    BY <1>2, <1>4, <2>7 DEF BeginCleanup, MarkOff, flags
  <2>8. CASE WorkerFinish
    BY <1>2, <1>4, <2>8 DEF WorkerFinish, MarkOff, FailOwing, flags
  <2> QED BY <2>1, <2>2, <2>3, <2>4, <2>5, <2>6, <2>7, <2>8 DEF RadioSteps, MayBeOff
<1>6. HostStays
  <2>1. CASE OnCreateHost
    <3>1. RadioCall.at = "on.create" BY <2>1 DEF OnCreateHost, At, RadioCall, Seen, RadioPhases
    <3>2. host = "none" BY <3>1 DEF Whole, R!IInv, R!StartTruth, R!Fresh
    <3> QED BY <3>2 DEF HostStays
  <2>2. CASE StopHost BY <2>2 DEF StopHost, WorkerStop, HostStays
  <2>3. CASE HostEnter BY <2>3 DEF HostEnter, HostStays
  <2>4. CASE OnCheck \/ OnStart \/ OnPortInit \/ OnPortInitFails \/ OnRegister
             \/ OnHostCreated \/ OnCreateHostFails \/ OnWait \/ OnGiveUp \/ OnAbort
    BY <2>4 DEF HostStays, OnCheck, OnStart, OnPortInit, OnPortInitFails, OnRegister, OnHostCreated,
         OnCreateHostFails, OnWait, OnGiveUp, OnAbort, stack
  <2>5. CASE QueueBarrier \/ StartWorker \/ WaitCleanup \/ WorkerBegin \/ WorkerDrain \/ WorkerDeinit
    BY <2>5 DEF HostStays, QueueBarrier, StartWorker, WaitCleanup, WorkerBegin, WorkerDrain, WorkerDeinit, stack
  <2>6. CASE HostEnabled \/ OnSync \/ RunBarrier
    BY <2>6 DEF HostStays, HostEnabled, OnSync, RunBarrier, stack
  <2>7. CASE OnRegisterFails \/ OnUndoPort \/ BeginCleanup \/ WorkerFinish
    BY <2>7 DEF HostStays, OnRegisterFails, OnUndoPort, BeginCleanup, WorkerFinish, stack
  <2> QED BY <2>1, <2>2, <2>3, <2>4, <2>5, <2>6, <2>7 DEF RadioSteps, MayBeOff
<1>7. RadioGoes
  <2>1. RadioMoves BY RadioStepsMove, MayBeOffMoves DEF Whole
  <2>2. CASE fg' = fg BY <2>2 DEF RadioGoes
  <2>3. CASE RadioPlace(fg.at) /\ RadioPlace(fg'.at) /\ fg' # fg
    <3>1. SUFFICES ASSUME radio = "READY", fg.at \in Forgetting PROVE FALSE BY <2>3 DEF RadioGoes
    <3>2. fg.at = "clean" BY <2>3, <3>1 DEF RadioPlace, RadioPhases, Forgetting, Cleared
    <3>3. BeginCleanup
      BY <2>3, <3>2, TasksMove
      DEF RadioSteps, MayBeOff, At, OnCheck, OnStart, OnPortInit, OnPortInitFails, OnRegister, OnCreateHost,
          OnHostCreated, OnCreateHostFails, OnWait, OnGiveUp, OnAbort, QueueBarrier, StartWorker, WaitCleanup,
          OnRegisterFails, OnUndoPort, Worker, StopHost
    <3> QED BY <1>2, <3>1, <3>3 DEF BeginCleanup
  <2> QED BY <2>1, <2>2, <2>3 DEF RadioMoves
<1> QED BY <1>5, <1>6, <1>7

LEMMA RadioStepsAgree ==
  ASSUME Whole, UseInv, SlotInv, RadioSteps \/ MayBeOff
  PROVE  UseInv' /\ SlotInv'
<1>1. RadioTurns /\ HostStays /\ RadioGoes BY RadioStepsTurn
<1>2. UNCHANGED <<scan, adv, conn, notices, nim, cb>> BY DEF RadioSteps, MayBeOff, lvars, bleVars
<1> QED BY <1>1, <1>2, TurnUse, TurnSlot

LEMMA ShutdownAgrees ==
  ASSUME Whole, UseInv, SlotInv, Shutdown
  PROVE  UseInv' /\ SlotInv'
<1>1. Types /\ fg \in CallT BY DEF Whole, Inv, Types
<1>2. radio' = "STOPPING" /\ host' = host /\ fg.at = "clean" BY DEF Shutdown, TakeShutdown, At, stack
<1>3. fg'.at \in {"queue", "spawn"} BY <1>1 DEF Shutdown, TakeShutdown, CallT
<1>4. scan'.st = "IDLE" /\ adv'.st = "IDLE" BY <1>1, AbandonedScan, AbandonedAdv DEF Shutdown, ScanNow, AdvNow
<1>5. UNCHANGED <<conn, notices, nim, cb>> BY DEF Shutdown, KeepConn
<1>6. ScanInv' BY <1>2, <1>3, <1>4, <1>5 DEF UseInv, ScanInv
<1>7. AdvInv' BY <1>2, <1>3, <1>4, <1>5 DEF UseInv, AdvInv
<1>8. ApartInv' BY <1>3, <1>4, <1>5 DEF UseInv, ApartInv
<1>9. OwnerInv' BY <1>2, <1>3, <1>5 DEF OwnerInv
<1>10. PendingInv' BY <1>2, <1>3, <1>5 DEF SlotInv, PendingInv, Connecting
<1>11. HandleInv' BY <1>3, <1>5 DEF SlotInv, HandleInv, Closing
<1>12. NoticeInv' BY <1>5 DEF SlotInv, NoticeInv
<1> QED BY <1>6, <1>7, <1>8, <1>9, <1>10, <1>11, <1>12 DEF UseInv, SlotInv

\* A reset keeps the program's handle, and the connect that waits is told.
LEMMA ResetSlot ==
  ASSUME Inv, Reset
  PROVE  /\ conn'.gen = conn.gen /\ conn'.st \in {"FREE", "DISCONNECTED", "CONNECTING"}
         /\ conn'.st = "DISCONNECTED" => conn.st \in {"LIVE", "DISCONNECTED"} /\ (conn'.ref <=> conn.ref)
         /\ conn'.st = "CONNECTING" => /\ conn.st = "CONNECTING" /\ conn.role = "central"
                                       /\ conn'.done
                                       /\ conn'.ref <=> conn.ref
<1>0. ConnOk /\ conn \in ConnT BY TypesFlat DEF Inv, Types
<1>1. CASE conn.st = "LIVE" /\ conn' = [conn EXCEPT !.st = "DISCONNECTED", !.h = FALSE, !.par = FALSE, !.mtu = FALSE]
  <2>1. ConnNow("DISCONNECTED", conn.role, conn.gen, FALSE, conn.ref, conn.done, FALSE, FALSE, conn.link)
    BY <1>0, <1>1, ConnDown
  <2> QED BY <1>1, <2>1 DEF ConnNow
<1>2. CASE conn' = FreeConn(conn.gen)
  <2>1. ConnNow("FREE", "none", conn.gen, FALSE, FALSE, FALSE, FALSE, FALSE, 0) BY <1>0, <1>2, ConnFree DEF ConnOk
  <2> QED BY <2>1 DEF ConnNow
<1>3. CASE conn.st = "CONNECTING" /\ conn.role = "central" /\ conn' = [conn EXCEPT !.done = TRUE]
  <2>1. ConnNow(conn.st, conn.role, conn.gen, conn.h, conn.ref, TRUE, conn.mtu, conn.par, conn.link)
    BY <1>0, <1>3, ConnDone
  <2> QED BY <1>3, <2>1 DEF ConnNow
<1>4. CASE conn.st \in {"DISCONNECTED", "FREE"} /\ conn' = conn
  BY <1>4
<1> QED BY <1>1, <1>2, <1>3, <1>4 DEF Reset

LEMMA ResetAgrees ==
  ASSUME Whole, UseInv, SlotInv, Reset
  PROVE  UseInv' /\ SlotInv'
<1>1. Types /\ nim \in NimT /\ Inv BY DEF Whole, Inv, Types
<1>2. radio' \notin {"READY", "STARTING"} /\ fg' = fg
  <2>1. CASE shut
    <3>1. radio = "STOPPING" BY <2>1, RadioFacts
    <3> QED BY <2>1, <3>1 DEF Reset, rvars, flags
  <2>2. CASE ~shut BY <2>2 DEF Reset, OnReset
  <2> QED BY <2>1, <2>2
<1>3. host' = host BY DEF Reset, OnReset, rvars, stack
<1>4. scan'.st = "IDLE" /\ adv'.st = "IDLE" BY <1>1, AbandonedScan, AbandonedAdv DEF Reset, ScanNow, AdvNow
<1>5. nim'.scan = 0 /\ nim'.adv = 0 /\ nim'.conn = 0 /\ nim'.link.id = 0
  BY <1>1, NimForgets, NothingAsked DEF Reset, NimNow
<1>6. notices' = notices /\ cb'.kind = "none" BY DEF Reset, NoCb
<1>7. /\ conn'.gen = conn.gen /\ conn'.st \in {"FREE", "DISCONNECTED", "CONNECTING"}
      /\ conn'.st = "DISCONNECTED" => conn.st \in {"LIVE", "DISCONNECTED"} /\ (conn'.ref <=> conn.ref)
      /\ conn'.st = "CONNECTING" => /\ conn.st = "CONNECTING" /\ conn.role = "central"
                                    /\ conn'.done
                                    /\ conn'.ref <=> conn.ref
  BY <1>1, ResetSlot
<1>8. ScanInv' BY <1>2, <1>4, <1>5 DEF ScanInv
<1>9. AdvInv' BY <1>2, <1>4, <1>5 DEF AdvInv
<1>10. ApartInv' BY <1>4, <1>5 DEF ApartInv
<1>11. OwnerInv' BY <1>2, <1>5, <1>7 DEF OwnerInv, LinkUp
<1>12. PendingInv' BY <1>2, <1>5, <1>7 DEF SlotInv, PendingInv
<1>13. HandleInv' BY <1>7 DEF SlotInv, HandleInv
<1>14. NoticeInv' BY <1>6, <1>7 DEF SlotInv, NoticeInv
<1> QED BY <1>8, <1>9, <1>10, <1>11, <1>12, <1>13, <1>14 DEF UseInv, SlotInv

LEMMA HostGoneAgrees ==
  ASSUME Whole, UseInv, SlotInv, HostGone
  PROVE  UseInv' /\ SlotInv'
<1>1. Types /\ nim \in NimT BY DEF Whole, Inv, Types
<1>2. host = "leaving" /\ radio' = radio /\ fg' = fg BY DEF HostGone, HostLeave
<1>3. radio # "READY" BY <1>2, RadioFacts
<1>4. UNCHANGED <<scan, adv, conn, notices, cb>> BY DEF HostGone, bleVars
<1>5. nim'.scan = 0 /\ nim'.adv = 0 /\ nim'.conn = 0 /\ nim'.link.id = 0
  BY <1>1, NimForgets, NothingAsked DEF HostGone, NimNow
<1>6. nim.conn = 0 /\ ~LinkUp BY <1>2 DEF Whole, Inv, LinkInv
<1>7. ScanInv' BY <1>2, <1>3, <1>4, <1>5 DEF UseInv, ScanInv
<1>8. AdvInv' BY <1>2, <1>3, <1>4, <1>5 DEF UseInv, AdvInv
<1>9. ApartInv' BY <1>2, <1>4, <1>5 DEF UseInv, ApartInv
<1>10. OwnerInv' BY <1>2, <1>3, <1>4, <1>5 DEF OwnerInv, LinkUp
<1>11. PendingInv' BY <1>2, <1>3, <1>4, <1>5, <1>6 DEF SlotInv, PendingInv
<1>12. HandleInv' BY <1>2, <1>4 DEF SlotInv, HandleInv
<1>13. NoticeInv' BY <1>4 DEF SlotInv, NoticeInv
<1> QED BY <1>7, <1>8, <1>9, <1>10, <1>11, <1>12, <1>13 DEF UseInv, SlotInv

-----------------------------------------------------------------------------
(* No queue outgrows its bound *)

LEMMA QuietSize == ASSUME SizeInv, QueuesQuiet PROVE SizeInv'
<1>1. ScanQueue \in Nat /\ DataQueue \in Nat BY LinkAssumption, GattAssumption
<1>2. Len(<<>>) = 0 OBVIOUS
<1>3. Len(scan'.q) <= ScanQueue BY <1>1, <1>2 DEF SizeInv, QueuesQuiet
<1>4. Len(srv'.q) <= DataQueue BY <1>1, <1>2 DEF SizeInv, QueuesQuiet, GattQuiet
<1>5. Len(cli'.q) <= DataQueue BY <1>1, <1>2 DEF SizeInv, QueuesQuiet, GattQuiet
<1> QED BY <1>3, <1>4, <1>5 DEF SizeInv

\* A full queue of reports has room for one more after its oldest is dropped.
LEMMA PushedFits ==
  ASSUME NEW q \in Seq(Nat), heard \in Nat, Len(q) <= ScanQueue
  PROVE  Len(Pushed(q)) <= ScanQueue
<1>1. ScanQueue \in Nat \ {0} BY LinkAssumption
<1>2. CASE Len(q) # ScanQueue
  <2>1. Pushed(q) = Append(q, heard) BY <1>2 DEF Pushed
  <2>2. Len(Pushed(q)) = Len(q) + 1 BY <2>1
  <2>3. Len(q) \in Nat OBVIOUS
  <2> QED BY <1>1, <1>2, <2>2, <2>3
<1>3. CASE Len(q) = ScanQueue
  <2>1. q # <<>> BY <1>1, <1>3
  <2>2. Tail(q) \in Seq(Nat) /\ Len(Tail(q)) = Len(q) - 1 BY <2>1
  <2>3. Pushed(q) = Append(Tail(q), heard) BY <1>3 DEF Pushed
  <2>4. Len(Pushed(q)) = Len(Tail(q)) + 1 BY <2>2, <2>3
  <2> QED BY <1>1, <1>3, <2>2, <2>4
<1> QED BY <1>2, <1>3

\* What is left of a queue after its first valid entry is no longer.
LEMMA NextFits ==
  ASSUME NEW q \in Seq(EntryT)
  PROVE  Len(NextOf(q).q) <= Len(q)
<1>0. Len(q) \in Nat OBVIOUS
<1>1. CASE NextOf(q) = [cur |-> NoWrite, q |-> <<>>]
  <2>1. NextOf(q).q = <<>> BY <1>1
  <2>2. Len(NextOf(q).q) = 0 BY <2>1
  <2> QED BY <1>0, <2>2
<1>2. ASSUME NEW i \in 1 .. Len(q),
             NextOf(q) = [cur |-> [q[i] EXCEPT !.to = conn.link], q |-> SubSeq(q, i + 1, Len(q))]
      PROVE  Len(NextOf(q).q) <= Len(q)
  <2>1. NextOf(q).q = SubSeq(q, i + 1, Len(q)) BY <1>2
  <2>2. Len(SubSeq(q, i + 1, Len(q))) = Len(q) - i BY RestIs
  <2>3. Len(NextOf(q).q) = Len(q) - i BY <2>1, <2>2
  <2>4. i \in Nat OBVIOUS
  <2> HIDE DEF NextOf
  <2> QED BY <1>0, <2>3, <2>4
<1> QED BY <1>1, <1>2, NextIs

LEMMA ScanNextSize == ASSUME Types, SizeInv, ScanNext PROVE SizeInv'
<1>0. UNCHANGED <<srv, cli>> BY DEF ScanNext, KeepConn
<1>1. scan \in ScanT /\ ScanQueue \in Nat /\ Len(scan.q) <= ScanQueue BY LinkAssumption DEF Types, SizeInv
<1>2. CASE scan.q = <<>>
  <2>1. ScanNow(scan.st, scan.gen, scan.q, 0) BY <1>1, <1>2, ScanCur DEF ScanNext
  <2>2. scan'.q = scan.q BY <2>1 DEF ScanNow
  <2> QED BY <1>0, <2>2 DEF SizeInv
<1>3. CASE scan.q # <<>>
  <2>1. Head(scan.q) \in Nat /\ Tail(scan.q) \in Seq(Nat) /\ scan.q \in Seq(Nat) BY <1>3, TakenAre
  <2>2. ScanNow(scan.st, scan.gen, Tail(scan.q), Head(scan.q)) BY <1>1, <1>3, <2>1, ScanTaken DEF ScanNext
  <2>3. scan'.q = Tail(scan.q) BY <2>2 DEF ScanNow
  <2>4. Len(scan.q) \in Nat /\ Len(Tail(scan.q)) = Len(scan.q) - 1 BY <1>3, <2>1
  <2>5. Len(scan'.q) <= ScanQueue BY <1>1, <2>3, <2>4
  <2> QED BY <1>0, <2>5 DEF SizeInv
<1> QED BY <1>2, <1>3

LEMMA ReportQueuedSize == ASSUME Types, SizeInv, ReportQueued PROVE SizeInv'
<1>0. UNCHANGED <<srv, cli>> BY DEF ReportQueued, KeepConn
<1>1. scan \in ScanT /\ Len(scan.q) <= ScanQueue BY DEF Types, SizeInv
<1>2. CASE scan' = scan
  BY <1>0, <1>2 DEF SizeInv
<1>3. CASE scan' # scan
  <2>1. scan' = [scan EXCEPT !.q = Pushed(scan.q)] BY <1>3 DEF ReportQueued, Pushed
  <2>2. Pushed(scan.q) \in Seq(Nat) BY PushedIs, TakenAre
  <2>3. ScanNow(scan.st, scan.gen, Pushed(scan.q), scan.cur) BY <1>1, <2>1, <2>2, ScanQueued
  <2>4. scan'.q = Pushed(scan.q) BY <2>3 DEF ScanNow
  <2>5. Len(Pushed(scan.q)) <= ScanQueue BY <1>1, TakenAre, PushedFits
  <2> QED BY <1>0, <2>4, <2>5 DEF SizeInv
<1> QED BY <1>2, <1>3

LEMMA RemoteWriteSize == ASSUME Types, SizeInv, RemoteWrite PROVE SizeInv'
<1> DEFINE e == [gen |-> conn.gen, link |-> nim.link.id, id |-> heard + 1, to |-> 0]
<1>1. UNCHANGED <<scan, cli>> /\ srv' = [srv EXCEPT !.q = Append(srv.q, e)] /\ Len(srv.q) < DataQueue
  BY DEF RemoteWrite
<1>2. heard + 1 \in Nat BY TakenAre
<1>3. e \in EntryT BY <1>2, TakenAre DEF EntryT
<1> HIDE DEF e
<1>4. srv.q \in Seq(EntryT) /\ Append(srv.q, e) \in Seq(EntryT) BY <1>3, TakenAre
<1>5. SrvNow(srv.sub, Append(srv.q, e), srv.cur, srv.ind) BY <1>1, <1>4, SrvWritten DEF Types
<1>6. srv'.q = Append(srv.q, e) BY <1>5 DEF SrvNow
<1>7. Len(Append(srv.q, e)) = Len(srv.q) + 1 /\ Len(srv.q) \in Nat BY <1>4
<1>8. DataQueue \in Nat BY GattAssumption
<1>9. Len(srv'.q) <= DataQueue BY <1>1, <1>6, <1>7, <1>8
<1> QED BY <1>1, <1>9 DEF SizeInv

LEMMA NotifiedSize == ASSUME Types, SizeInv, Notified PROVE SizeInv'
<1> DEFINE e == [gen |-> conn.gen, link |-> nim.link.id, id |-> heard + 1, to |-> 0]
<1>1. UNCHANGED <<scan, srv>> /\ cli' = [cli EXCEPT !.q = Append(cli.q, e)] /\ Len(cli.q) < DataQueue
  BY DEF Notified
<1>2. heard + 1 \in Nat BY TakenAre
<1>3. e \in EntryT BY <1>2, TakenAre DEF EntryT
<1> HIDE DEF e
<1>4. cli.q \in Seq(EntryT) /\ Append(cli.q, e) \in Seq(EntryT) BY <1>3, TakenAre
<1>5. CliNow(cli.entry, Append(cli.q, e), cli.cur, cli.proc) BY <1>1, <1>4, CliNotified DEF Types
<1>6. cli'.q = Append(cli.q, e) BY <1>5 DEF CliNow
<1>7. Len(Append(cli.q, e)) = Len(cli.q) + 1 /\ Len(cli.q) \in Nat BY <1>4
<1>8. DataQueue \in Nat BY GattAssumption
<1>9. Len(cli'.q) <= DataQueue BY <1>1, <1>6, <1>7, <1>8
<1> QED BY <1>1, <1>9 DEF SizeInv

LEMMA WriteNextSize == ASSUME Types, SizeInv, WriteNext PROVE SizeInv'
<1> DEFINE n == NextOf(srv.q)
<1>1. UNCHANGED <<scan, cli>> /\ srv' = [srv EXCEPT !.q = n.q, !.cur = n.cur] BY DEF WriteNext, KeepGap
<1>2. srv.q \in Seq(EntryT) /\ n.q \in Seq(EntryT) /\ n.cur \in EntryT BY NextTypes, TakenAre
<1>3. Len(n.q) <= Len(srv.q) BY <1>2, NextFits
<1> HIDE DEF n
<1>4. SrvNow(srv.sub, n.q, n.cur, srv.ind) BY <1>1, <1>2, SrvTaken DEF Types
<1>5. srv'.q = n.q BY <1>4 DEF SrvNow
<1>6. Len(n.q) \in Nat /\ Len(srv.q) \in Nat /\ DataQueue \in Nat /\ Len(srv.q) <= DataQueue
  BY <1>2, GattAssumption DEF SizeInv
<1>7. Len(srv'.q) <= DataQueue BY <1>3, <1>5, <1>6
<1> QED BY <1>1, <1>7 DEF SizeInv

LEMMA NotificationNextSize == ASSUME Types, SizeInv, NotificationNext PROVE SizeInv'
<1> DEFINE n == NextOf(cli.q)
<1>1. UNCHANGED <<scan, srv>> /\ cli' = [cli EXCEPT !.q = n.q, !.cur = n.cur] BY DEF NotificationNext, KeepGap
<1>2. cli.q \in Seq(EntryT) /\ n.q \in Seq(EntryT) /\ n.cur \in EntryT BY NextTypes, TakenAre
<1>3. Len(n.q) <= Len(cli.q) BY <1>2, NextFits
<1> HIDE DEF n
<1>4. CliNow(cli.entry, n.q, n.cur, cli.proc) BY <1>1, <1>2, CliTaken DEF Types
<1>5. cli'.q = n.q BY <1>4 DEF CliNow
<1>6. Len(n.q) \in Nat /\ Len(cli.q) \in Nat /\ DataQueue \in Nat /\ Len(cli.q) <= DataQueue
  BY <1>2, GattAssumption DEF SizeInv
<1>7. Len(cli'.q) <= DataQueue BY <1>3, <1>5, <1>6
<1> QED BY <1>1, <1>7 DEF SizeInv

LEMMA SizesHold == ASSUME Whole, SizeInv, GattNext PROVE SizeInv'
<1>1. Inv /\ Asked /\ R!IInv /\ Types BY DEF Whole, Inv
<1>2. CASE RadioSteps \/ Reset \/ Shutdown \/ HostGone \/ MayBeOff
  <2>1. QueuesQuiet BY <1>1, <1>2, RadioStepsKeep, ResetKeeps, ShutdownKeeps, HostGoneKeeps, MayBeOffKeeps
  <2> QED BY <2>1, QuietSize
<1>3. CASE ClearSteps
  <2>1. QueuesQuiet
    BY <1>1, <1>3, OffAllKeeps, ProjectClearKeeps, ClearAdvertisingKeeps, ClearLinkKeeps, ClearServerKeeps,
       ClearClientKeeps
    DEF ClearSteps
  <2> QED BY <2>1, QuietSize
<1>4. CASE ScanSteps
  <2>1. CASE ScanStart \/ ScanCall \/ ScanCheck \/ ScanStop \/ ScanCancel \/ ScanStopped \/ ReportHeard \/
        ReportFiltered \/ DiscComplete
    <3>1. QueuesQuiet BY <1>1, <2>1, ScanStartKeeps, ScanCallKeeps, ScanCheckKeeps, ScanStopKeeps,
        ScanCancelKeeps, ScanStoppedKeeps, ReportHeardKeeps, ReportFilteredKeeps, DiscCompleteKeeps
    <3> QED BY <3>1, QuietSize
  <2>2. CASE ScanNext \/ ReportQueued BY <1>1, <2>2, ScanNextSize, ReportQueuedSize
  <2> QED BY <1>4, <2>1, <2>2 DEF ScanSteps
<1>5. CASE AdvSteps
  <2>1. QueuesQuiet BY <1>1, <1>5, AdvertiseStartKeeps, AdvertiseCallKeeps, AdvertiseCheckKeeps,
      AdvertiseStopKeeps, AdvertiseCancelKeeps, AdvertiseStoppedKeeps, AdvertiseOverKeeps, IncomingKeeps,
      IncomingPendingKeeps, RefuseLinkKeeps DEF AdvSteps
  <2> QED BY <2>1, QuietSize
<1>6. CASE ConnSteps
  <2>1. CASE Connect \/ ConnectCall \/ ConnectWait \/ ConnectAbort \/ ConnectCancel \/ ConnectFailed \/ Connected \/
        LinkLost \/ LinkDown \/ TerminateFails \/ Accept
    <3>1. QueuesQuiet BY <1>1, <2>1, ConnectKeeps, ConnectCallKeeps, ConnectWaitKeeps, ConnectAbortKeeps,
        ConnectCancelKeeps, ConnectFailedKeeps, ConnectedKeeps, LinkLostKeeps, LinkDownKeeps, TerminateFailsKeeps,
        AcceptKeeps
    <3> QED BY <3>1, QuietSize
  <2>2. CASE RejectPending \/ Close \/ CloseCall \/ CloseDone \/ Params \/ ParamsCall \/ ParamsUpdated \/ Mtu \/
        MtuCall \/ MtuWait \/ MtuComplete
    <3>1. QueuesQuiet BY <1>1, <2>2, RejectPendingKeeps, CloseKeeps, CloseCallKeeps, CloseDoneKeeps,
        ParamsKeeps, ParamsCallKeeps, ParamsUpdatedKeeps, MtuKeeps, MtuCallKeeps, MtuWaitKeeps, MtuCompleteKeeps
    <3> QED BY <3>1, QuietSize
  <2> QED BY <1>6, <2>1, <2>2 DEF ConnSteps
<1>7. CASE ServerSteps
  <2>1. CASE RemoteSubscribe \/ Indicate \/ IndicateArm \/ IndicateCall \/ IndicateWait \/ Acknowledged
    <3>1. QueuesQuiet BY <1>1, <2>1, RemoteSubscribeKeeps, IndicateKeeps, IndicateArmKeeps, IndicateCallKeeps,
        IndicateWaitKeeps, AcknowledgedKeeps
    <3> QED BY <3>1, QuietSize
  <2>2. CASE RemoteWrite \/ WriteNext BY <1>1, <2>2, RemoteWriteSize, WriteNextSize
  <2> QED BY <1>7, <2>1, <2>2 DEF ServerSteps
<1>8. CASE ClientSteps
  <2>1. CASE Find \/ Read \/ Write \/ Subscribe \/ ClientCall \/ ClientWait \/ ClientAbandon \/ ClientNext \/
        ClientAnswered
    <3>1. QueuesQuiet BY <1>1, <2>1, FindKeeps, ReadKeeps, WriteKeeps, SubscribeKeeps, ClientCallKeeps,
        ClientWaitKeeps, ClientAbandonKeeps, ClientNextKeeps, ClientAnsweredKeeps
    <3> QED BY <3>1, QuietSize
  <2>2. CASE Notified \/ NotificationNext BY <1>1, <2>2, NotifiedSize, NotificationNextSize
  <2> QED BY <1>8, <2>1, <2>2 DEF ClientSteps
<1> QED BY <1>2, <1>3, <1>4, <1>5, <1>6, <1>7, <1>8 DEF GattNext

-----------------------------------------------------------------------------
(* The driver and the controller agree *)

LEMMA AgreedInitially == ASSUME GattInit PROVE Agreed
<1>1. Whole BY GattInitHolds
<1>2. fg.at = "idle" /\ radio = "OFF" BY DEF GattInit, Init, Idle
<1>3. /\ conn = FreeConn(0) /\ notices = <<>> /\ srv = ServerOff /\ cli = ClientClear /\ cb = NoCb
      /\ scan = [st |-> "IDLE", gen |-> 0, q |-> <<>>, cur |-> 0] /\ adv = [st |-> "IDLE", gen |-> 0]
      /\ nim = [scan |-> 0, adv |-> 0, conn |-> 0, link |-> NoLink, links |-> 0,
                mtu |-> FALSE, ind |-> 0, proc |-> NoProc]
  BY DEF GattInit, LinkInit
<1>4. scan.st = "IDLE" /\ scan.q = <<>> /\ adv.st = "IDLE" /\ srv.q = <<>> /\ cli.q = <<>>
  BY <1>3 DEF ServerOff, ClientClear
<1>5. nim.scan = 0 /\ nim.adv = 0 /\ nim.conn = 0 /\ nim.link = NoLink BY <1>3
<1>6. ~LinkUp BY <1>5, NothingAsked DEF LinkUp
<1>7. conn.st = "FREE" /\ cb.kind = "none" BY <1>3 DEF FreeConn, NoCb
<1>8. ScanQueue \in Nat /\ DataQueue \in Nat /\ NoticeQueue \in Nat /\ Len(<<>>) = 0
  BY LinkAssumption, GattAssumption
<1>9. UseInv BY <1>2, <1>4, <1>5 DEF UseInv, ScanInv, AdvInv, ApartInv
<1>10. OwnerInv BY <1>2, <1>6 DEF OwnerInv
<1>11. PendingInv BY <1>2, <1>7 DEF PendingInv
<1>12. HandleInv BY <1>7 DEF HandleInv
<1>13. NoticeInv BY <1>3, <1>7, <1>8 DEF NoticeInv
<1>14. SizeInv BY <1>4, <1>8 DEF SizeInv
<1> QED BY <1>1, <1>9, <1>10, <1>11, <1>12, <1>13, <1>14 DEF Agreed, SlotInv

LEMMA AgreedStutters == ASSUME Agreed, UNCHANGED gvars PROVE UseInv' /\ SlotInv' /\ SizeInv'
<1>1. UNCHANGED <<rvars, lvars>> BY DEF gvars
<1>2. UNCHANGED <<radio, host, fg>> BY <1>1 DEF rvars, stack, flags
<1>3. UNCHANGED <<scan, adv, conn, notices, srv, cli, nim, cb>> BY <1>1 DEF lvars, bleVars
<1>4. UseInv' BY <1>2, <1>3, UseAside
  DEF Agreed, RadioKept, ScanKept, AdvKept, CallElsewhere
<1>5. SlotInv' BY <1>2, <1>3, SlotAside
  DEF Agreed, RadioKept, ConnSame, LinkSame, CbSame, CallApart
<1>6. SizeInv' BY <1>3 DEF Agreed, SizeInv
<1> QED BY <1>4, <1>5, <1>6

LEMMA AgreedStep == ASSUME Agreed, GattNext PROVE UseInv' /\ SlotInv'
<1>1. Whole /\ UseInv /\ SlotInv BY DEF Agreed
<1>2. CASE RadioSteps \/ MayBeOff BY <1>1, <1>2, RadioStepsAgree
<1>3. CASE Reset \/ Shutdown \/ HostGone BY <1>1, <1>3, ResetAgrees, ShutdownAgrees, HostGoneAgrees
<1>4. CASE ClearSteps BY <1>1, <1>4, ClearStepsAgree
<1>5. CASE ScanSteps BY <1>1, <1>5, ScanStepsUse, ScanStepsSlot
<1>6. CASE AdvSteps BY <1>1, <1>6, AdvStepsUse, AdvStepsSlot
<1>7. CASE ConnSteps BY <1>1, <1>7, ConnStepsUse, ConnStepsSlot
<1>8. CASE ServerSteps \/ ClientSteps BY <1>1, <1>8, DataStepsAgree
<1> QED BY <1>2, <1>3, <1>4, <1>5, <1>6, <1>7, <1>8 DEF GattNext

LEMMA AgreedKeeps == ASSUME Agreed, [GattNext]_gvars PROVE Agreed'
<1>1. Whole' BY GattNextKeeps DEF Agreed
<1>2. CASE GattNext
  <2>1. UseInv' /\ SlotInv' BY <1>2, AgreedStep
  <2>2. SizeInv' BY <1>2, SizesHold DEF Agreed
  <2> QED BY <1>1, <2>1, <2>2 DEF Agreed
<1>3. CASE UNCHANGED gvars BY <1>1, <1>3, AgreedStutters DEF Agreed
<1> QED BY <1>2, <1>3

\* Between two operations, the driver and the controller agree on who scans,
\* advertises and is linked: a use of the radio is known to both or to neither
\* and never two of them, no link is left without an owner, a connection the
\* program may use has its link, and whatever fills the slot has somebody who
\* can free it; no queue outgrows its bound (ble.c, fr_esp_ble_*).
THEOREM LinkIsAgreed == GattSpec => []LinkAgreed
<1>1. GattInit => Agreed BY AgreedInitially
<1>2. Agreed /\ [GattNext]_gvars => Agreed' BY AgreedKeeps
<1>3. Agreed => LinkAgreed BY AgreedIsTyped, AgreedUsesRadio, AgreedOwns DEF LinkAgreed
<1> QED BY <1>1, <1>2, <1>3, PTL DEF GattSpec
=============================================================================
