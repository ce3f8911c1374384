------------------------ MODULE FrothyBleRadioProof ------------------------
(***************************************************************************)
(* What TLAPS proves of FrothyBleRadio for any number of starts: the       *)
(* driver's view of the host is true, no start runs over what an earlier   *)
(* one left, NimBLE is never torn down under a running host, and the radio *)
(* keeps the promise of BlePower.                                          *)
(***************************************************************************)
EXTENDS FrothyBleRadio, TLAPS

\* Where the evaluator can stand inside `ble.on` once it has begun.
Fresh == {"on.start", "on.init", "on.register", "on.create", "on.undo"}
Waiting == {"on.created", "on.wait", "on.abort"}

\* What the evaluator's call and the worker task know.
Phases == Fresh \cup Waiting \cup {"idle", "on.check", "clean", "queue", "spawn", "wait"}
CallRecords == [op : {"none", "on", "off"}, at : Phases, gen : Nat, stay : BOOLEAN]
Steps == {"none", "begin", "stop", "drain", "deinit", "finish", "finish.owing"}
WorkerRecords == [at : Steps, gen : Nat, ok : BOOLEAN]

Types ==
  /\ radio \in {"OFF", "STARTING", "READY", "FAILED", "STOPPING"}
  /\ life \in 0 .. MaxLife /\ done \in 0 .. life
  /\ portFlag \in BOOLEAN /\ created \in BOOLEAN /\ running \in BOOLEAN
  /\ shut \in BOOLEAN /\ need \in BOOLEAN
  /\ port \in BOOLEAN /\ enabled \in BOOLEAN /\ barrier \in BOOLEAN
  /\ host \in {"none", "created", "running", "leaving"}
  /\ worker \in WorkerRecords
  /\ fg \in CallRecords

\* The flags the driver keeps of the host task and of the port.
HostTruth ==
  /\ running <=> host \in {"running", "leaving"}
  /\ enabled => host \in {"running", "leaving"}
  /\ created => host # "none"
  /\ host # "none" => created \/ fg.at = "on.created"
  /\ host = "leaving" <=> worker.at = "drain" /\ host # "none"
  /\ host # "none" => port
  /\ port => portFlag \/ fg.at = "on.register"
  /\ portFlag => port \/ (worker.at = "finish" /\ worker.ok)
  /\ need => portFlag

\* What each state of the radio tells of the rest.
RadioTruth ==
  /\ radio = "OFF" => ~port /\ ~portFlag /\ ~need /\ ~shut
  /\ radio = "STARTING" => fg.at \in (Fresh \ {"on.start", "on.undo"}) \cup Waiting \cup {"clean"}
  /\ radio = "STARTING" /\ fg.at = "clean" => created
  /\ radio = "READY" => host = "running" /\ enabled /\ done = life /\ fg.at \notin Fresh
  /\ radio = "FAILED" => (need <=> port)
  /\ radio = "STOPPING" <=> shut

\* One shutdown at a time, and somebody is at work on it.
ShutTruth ==
  /\ shut => /\ need /\ fg.at \notin Fresh \cup Waiting
             /\ barrier \/ worker.at # "none" \/ fg.at \in {"queue", "spawn"}
  /\ barrier => shut /\ worker.at = "none" /\ created /\ fg.at \notin {"queue", "spawn"}
  /\ fg.at \in {"queue", "spawn"} => shut /\ worker.at = "none" /\ fg.gen = life
  /\ fg.at = "queue" => created
  /\ fg.at = "spawn" => ~created
  /\ worker.at # "none" => shut /\ ~barrier /\ worker.gen = life

\* How far the worker has come.
WorkerTruth ==
  /\ worker.at \in {"begin", "stop", "drain", "deinit"} => worker.ok /\ port
  /\ worker.at = "begin" /\ created => host = "running" /\ enabled
  /\ worker.at = "stop" => host = "running" /\ enabled /\ created
  /\ worker.at = "drain" => host \in {"leaving", "none"}
  /\ worker.at = "deinit" => host = "none"
  /\ worker.at = "finish" /\ worker.ok => host = "none" /\ ~port
  /\ worker.at = "finish" /\ ~worker.ok => host = "running" /\ port
  /\ worker.at = "finish.owing" => ~worker.ok /\ host = "none" /\ port

\* How far a start has come.
StartTruth ==
  /\ fg.at \in Fresh => host = "none" /\ worker.at = "none" /\ ~shut
  /\ fg.at = "on.start" => radio \in {"OFF", "FAILED"} /\ ~need /\ life < MaxLife
  /\ fg.at \in {"on.init", "on.register", "on.create"} => radio = "STARTING" /\ ~need
  /\ fg.at \in {"on.start", "on.init"} => ~port /\ ~portFlag
  /\ fg.at = "on.register" => port /\ ~portFlag
  /\ fg.at \in {"on.create", "on.undo"} => port /\ portFlag
  /\ fg.at = "on.undo" => radio = "FAILED" /\ need
  /\ fg.at \in Waiting => host \in {"created", "running"} /\ worker.at = "none"
                          /\ radio \in {"STARTING", "READY", "FAILED"}
  /\ fg.at \in {"on.wait", "on.abort"} => created
  /\ fg.at = "on.created" => ~created
  /\ fg.at \in (Fresh \ {"on.start"}) \cup Waiting => fg.gen = life
  /\ fg.at = "wait" => fg.stay
  /\ fg.at = "on.check" => life < MaxLife
  /\ fg.at \in {"clean", "queue", "spawn", "wait"} /\ fg.op = "on" /\ fg.stay
       => life < MaxLife

IInv == Types /\ HostTruth /\ RadioTruth /\ ShutTruth /\ WorkerTruth /\ StartTruth

-----------------------------------------------------------------------------
(* The two records, one step of each *)

\* The call goes on at `p`, with generation `g`; it waits if `w`.
Moved(p, g, w) ==
  fg' \in CallRecords /\ fg'.at = p /\ fg'.op = fg.op /\ fg'.gen = g /\ fg'.stay = w
\* The call is a new one of operation `op`, at `p`.
Begun(op, p) ==
  fg' \in CallRecords /\ fg'.at = p /\ fg'.op = op /\ fg'.gen = 0 /\ fg'.stay = TRUE
\* The worker goes on at `p`.
Worked(p, g, k) ==
  worker' \in WorkerRecords /\ worker'.at = p /\ worker'.gen = g /\ worker'.ok = k

LEMMA TypesGive ==
  ASSUME IInv
  PROVE  /\ life \in Nat /\ life + 1 \in Nat /\ 0 \in 0 .. life /\ life \in 0 .. life
         /\ fg \in CallRecords /\ worker \in WorkerRecords /\ fg.stay \in BOOLEAN /\ worker.ok \in BOOLEAN
         /\ created \in BOOLEAN /\ worker.at \in Steps
  BY RadioAssumption DEF IInv, Types, CallRecords, WorkerRecords

LEMMA GoMoves == ASSUME NEW p \in Phases, fg \in CallRecords, Go(p) PROVE Moved(p, fg.gen, fg.stay)
  BY DEF Go, CallRecords, Moved

LEMMA LeaveMoves == ASSUME fg \in CallRecords, CleanAndLeave PROVE Moved("clean", fg.gen, FALSE)
  BY DEF CleanAndLeave, CallRecords, Moved, Phases

LEMMA NumberMoves ==
  ASSUME NEW p \in Phases, NEW g \in Nat, fg \in CallRecords,
         fg' = [fg EXCEPT !.at = p, !.gen = g]
  PROVE  Moved(p, g, fg.stay)
  BY DEF CallRecords, Moved

LEMMA BeginBegins ==
  ASSUME NEW op \in {"none", "on", "off"}, NEW p \in Phases, Begin(op, p) PROVE Begun(op, p)
  BY DEF Begin, CallRecords, Begun

LEMMA AnswerEnds == ASSUME Answer PROVE Begun("none", "idle")
  BY DEF Answer, Idle, CallRecords, Begun, Phases

LEMMA CleaningGoes ==
  ASSUME fg \in CallRecords, Cleaning
  PROVE  \/ fg.stay = TRUE /\ Moved("wait", fg.gen, fg.stay)
         \/ fg.stay = FALSE /\ Begun("none", "idle")
<1>1. fg.stay \in BOOLEAN BY DEF CallRecords
<1>2. CASE fg.stay = TRUE
  <2>1. Go("wait") BY <1>2 DEF Cleaning
  <2>2. "wait" \in Phases BY DEF Phases
  <2> QED BY <1>2, <2>1, <2>2, GoMoves
<1>3. CASE fg.stay = FALSE
  BY <1>3, AnswerEnds DEF Cleaning
<1> QED BY <1>1, <1>2, <1>3

LEMMA WorkerMoves ==
  ASSUME NEW p \in Steps, NEW k \in BOOLEAN, worker \in WorkerRecords,
         worker' = [worker EXCEPT !.at = p, !.ok = k]
  PROVE  Worked(p, worker.gen, k)
  BY DEF WorkerRecords, Worked

LEMMA WorkerGoes ==
  ASSUME NEW p \in Steps, worker \in WorkerRecords, worker' = [worker EXCEPT !.at = p]
  PROVE  Worked(p, worker.gen, worker.ok)
  BY DEF WorkerRecords, Worked

LEMMA WorkerIsNew ==
  ASSUME NEW g \in Nat, worker' = [at |-> "begin", gen |-> g, ok |-> TRUE]
  PROVE  Worked("begin", g, TRUE)
  BY DEF WorkerRecords, Worked, Steps

LEMMA WorkerEnds == ASSUME worker' = NoWorker PROVE Worked("none", 0, TRUE)
  BY DEF WorkerRecords, Worked, Steps, NoWorker

-----------------------------------------------------------------------------
(* Every step keeps the invariant *)

LEMMA OnCheckKeeps == IInv /\ OnCheck => IInv'
<1> SUFFICES ASSUME IInv, OnCheck PROVE IInv'
  OBVIOUS
<1> USE TypesGive, RadioAssumption DEF IInv, Types, HostTruth, RadioTruth, ShutTruth, WorkerTruth, StartTruth,
        Fresh, Waiting, At, flags, stack, FailOwing, MarkOff
<1>1. CASE radio \in {"READY", "STARTING", "STOPPING"} /\ Answer
  <2>1. Begun("none", "idle")
      BY <1>1, AnswerEnds DEF OnCheck
  <2>2. Types'
      BY <1>1, <2>1 DEF OnCheck, Begun
  <2>3. HostTruth'
      BY <1>1, <2>1 DEF OnCheck, Begun
  <2>4. RadioTruth'
      BY <1>1, <2>1 DEF OnCheck, Begun
  <2>5. ShutTruth'
      BY <1>1, <2>1 DEF OnCheck, Begun
  <2>6. WorkerTruth'
      BY <1>1, <2>1 DEF OnCheck, Begun
  <2>7. StartTruth'
      BY <1>1, <2>1 DEF OnCheck, Begun
  <2> QED BY <2>2, <2>3, <2>4, <2>5, <2>6, <2>7
<1>2. CASE radio = "FAILED" /\ need /\ Begin("on", "clean")
  <2>1. Begun("on", "clean")
      BY <1>2, BeginBegins DEF OnCheck, Phases
  <2>2. Types'
      BY <1>2, <2>1 DEF OnCheck, Begun
  <2>3. HostTruth'
      BY <1>2, <2>1 DEF OnCheck, Begun
  <2>4. RadioTruth'
      BY <1>2, <2>1 DEF OnCheck, Begun
  <2>5. ShutTruth'
      BY <1>2, <2>1 DEF OnCheck, Begun
  <2>6. WorkerTruth'
      BY <1>2, <2>1 DEF OnCheck, Begun
  <2>7. StartTruth'
      BY <1>2, <2>1 DEF OnCheck, Begun
  <2> QED BY <2>2, <2>3, <2>4, <2>5, <2>6, <2>7
<1>3. CASE (radio = "OFF" \/ (radio = "FAILED" /\ ~need)) /\ Begin("on", "on.start")
  <2>1. Begun("on", "on.start")
      BY <1>3, BeginBegins DEF OnCheck, Phases
  <2>2. Types'
      BY <1>3, <2>1 DEF OnCheck, Begun
  <2>3. HostTruth'
      BY <1>3, <2>1 DEF OnCheck, Begun
  <2>4. RadioTruth'
      BY <1>3, <2>1 DEF OnCheck, Begun
  <2>5. ShutTruth'
      BY <1>3, <2>1 DEF OnCheck, Begun
  <2>6. WorkerTruth'
      BY <1>3, <2>1 DEF OnCheck, Begun
  <2>7. StartTruth'
      BY <1>3, <2>1 DEF OnCheck, Begun
  <2> QED BY <2>2, <2>3, <2>4, <2>5, <2>6, <2>7
<1> QED BY <1>1, <1>2, <1>3 DEF OnCheck

LEMMA OffKeeps == IInv /\ Off => IInv'
<1> SUFFICES ASSUME IInv, Off PROVE IInv'
  OBVIOUS
<1> USE TypesGive, RadioAssumption DEF IInv, Types, HostTruth, RadioTruth, ShutTruth, WorkerTruth, StartTruth,
        Fresh, Waiting, At, flags, stack, FailOwing, MarkOff
<1>1. Begun("off", "clean")
  BY BeginBegins DEF Off, Phases
<1>2. Types'
  BY <1>1 DEF Off, Begun
<1>3. HostTruth'
  BY <1>1 DEF Off, Begun
<1>4. RadioTruth'
  BY <1>1 DEF Off, Begun
<1>5. ShutTruth'
  BY <1>1 DEF Off, Begun
<1>6. WorkerTruth'
  BY <1>1 DEF Off, Begun
<1>7. StartTruth'
  BY <1>1 DEF Off, Begun
<1> QED BY <1>2, <1>3, <1>4, <1>5, <1>6, <1>7

LEMMA OnStartKeeps == IInv /\ OnStart => IInv'
<1> SUFFICES ASSUME IInv, OnStart PROVE IInv'
  OBVIOUS
<1> USE TypesGive, RadioAssumption DEF IInv, Types, HostTruth, RadioTruth, ShutTruth, WorkerTruth, StartTruth,
        Fresh, Waiting, At, flags, stack, FailOwing, MarkOff
<1>1. Moved("on.init", life + 1, fg.stay)
  BY NumberMoves DEF OnStart, Phases
<1>a. life + 1 \in 0 .. MaxLife /\ 0 \in 0 .. life + 1
  BY DEF OnStart
<1>b. life' = life + 1 /\ done' = 0
  BY DEF OnStart
<1>c. life' \in 0 .. MaxLife /\ done' \in 0 .. life'
  BY <1>a, <1>b
<1>2. Types'
  BY <1>1, <1>c DEF OnStart, Moved
<1>3. HostTruth'
  BY <1>1 DEF OnStart, Moved
<1>4. RadioTruth'
  BY <1>1 DEF OnStart, Moved
<1>5. ShutTruth'
  BY <1>1 DEF OnStart, Moved
<1>6. WorkerTruth'
  BY <1>1 DEF OnStart, Moved
<1>7. StartTruth'
  BY <1>1 DEF OnStart, Moved
<1> QED BY <1>2, <1>3, <1>4, <1>5, <1>6, <1>7

LEMMA OnPortInitKeeps == IInv /\ OnPortInit => IInv'
<1> SUFFICES ASSUME IInv, OnPortInit PROVE IInv'
  OBVIOUS
<1> USE TypesGive, RadioAssumption DEF IInv, Types, HostTruth, RadioTruth, ShutTruth, WorkerTruth, StartTruth,
        Fresh, Waiting, At, flags, stack, FailOwing, MarkOff
<1>1. Moved("on.register", fg.gen, fg.stay)
  BY GoMoves DEF OnPortInit, Phases
<1>2. Types'
  BY <1>1 DEF OnPortInit, Moved
<1>3. HostTruth'
  BY <1>1 DEF OnPortInit, Moved
<1>4. RadioTruth'
  BY <1>1 DEF OnPortInit, Moved
<1>5. ShutTruth'
  BY <1>1 DEF OnPortInit, Moved
<1>6. WorkerTruth'
  BY <1>1 DEF OnPortInit, Moved
<1>7. StartTruth'
  BY <1>1 DEF OnPortInit, Moved
<1> QED BY <1>2, <1>3, <1>4, <1>5, <1>6, <1>7

LEMMA OnPortInitFailsKeeps == IInv /\ OnPortInitFails => IInv'
<1> SUFFICES ASSUME IInv, OnPortInitFails PROVE IInv'
  OBVIOUS
<1> USE TypesGive, RadioAssumption DEF IInv, Types, HostTruth, RadioTruth, ShutTruth, WorkerTruth, StartTruth,
        Fresh, Waiting, At, flags, stack, FailOwing, MarkOff
<1>1. Begun("none", "idle")
  BY AnswerEnds DEF OnPortInitFails
<1>2. Types'
  BY <1>1 DEF OnPortInitFails, Begun
<1>3. HostTruth'
  BY <1>1 DEF OnPortInitFails, Begun
<1>4. RadioTruth'
  BY <1>1 DEF OnPortInitFails, Begun
<1>5. ShutTruth'
  BY <1>1 DEF OnPortInitFails, Begun
<1>6. WorkerTruth'
  BY <1>1 DEF OnPortInitFails, Begun
<1>7. StartTruth'
  BY <1>1 DEF OnPortInitFails, Begun
<1> QED BY <1>2, <1>3, <1>4, <1>5, <1>6, <1>7

LEMMA OnRegisterKeeps == IInv /\ OnRegister => IInv'
<1> SUFFICES ASSUME IInv, OnRegister PROVE IInv'
  OBVIOUS
<1> USE TypesGive, RadioAssumption DEF IInv, Types, HostTruth, RadioTruth, ShutTruth, WorkerTruth, StartTruth,
        Fresh, Waiting, At, flags, stack, FailOwing, MarkOff
<1>1. Moved("on.create", fg.gen, fg.stay)
  BY GoMoves DEF OnRegister, Phases
<1>2. Types'
  BY <1>1 DEF OnRegister, Moved
<1>3. HostTruth'
  BY <1>1 DEF OnRegister, Moved
<1>4. RadioTruth'
  BY <1>1 DEF OnRegister, Moved
<1>5. ShutTruth'
  BY <1>1 DEF OnRegister, Moved
<1>6. WorkerTruth'
  BY <1>1 DEF OnRegister, Moved
<1>7. StartTruth'
  BY <1>1 DEF OnRegister, Moved
<1> QED BY <1>2, <1>3, <1>4, <1>5, <1>6, <1>7

LEMMA OnRegisterFailsKeeps == IInv /\ OnRegisterFails => IInv'
<1> SUFFICES ASSUME IInv, OnRegisterFails PROVE IInv'
  OBVIOUS
<1> USE TypesGive, RadioAssumption DEF IInv, Types, HostTruth, RadioTruth, ShutTruth, WorkerTruth, StartTruth,
        Fresh, Waiting, At, flags, stack, FailOwing, MarkOff
<1>1. CASE port' = FALSE /\ MarkOff
  <2>1. Begun("none", "idle")
      BY <1>1, AnswerEnds DEF OnRegisterFails
  <2>2. Types'
      BY <1>1, <2>1 DEF OnRegisterFails, Begun
  <2>3. HostTruth'
      BY <1>1, <2>1 DEF OnRegisterFails, Begun
  <2>4. RadioTruth'
      BY <1>1, <2>1 DEF OnRegisterFails, Begun
  <2>5. ShutTruth'
      BY <1>1, <2>1 DEF OnRegisterFails, Begun
  <2>6. WorkerTruth'
      BY <1>1, <2>1 DEF OnRegisterFails, Begun
  <2>7. StartTruth'
      BY <1>1, <2>1 DEF OnRegisterFails, Begun
  <2> QED BY <2>2, <2>3, <2>4, <2>5, <2>6, <2>7
<1>2. CASE FailOwing /\ portFlag' = TRUE /\ UNCHANGED <<port, life, done, created, running, shut>>
  <2>1. Begun("none", "idle")
      BY <1>2, AnswerEnds DEF OnRegisterFails
  <2>2. Types'
      BY <1>2, <2>1 DEF OnRegisterFails, Begun
  <2>3. HostTruth'
      BY <1>2, <2>1 DEF OnRegisterFails, Begun
  <2>4. RadioTruth'
      BY <1>2, <2>1 DEF OnRegisterFails, Begun
  <2>5. ShutTruth'
      BY <1>2, <2>1 DEF OnRegisterFails, Begun
  <2>6. WorkerTruth'
      BY <1>2, <2>1 DEF OnRegisterFails, Begun
  <2>7. StartTruth'
      BY <1>2, <2>1 DEF OnRegisterFails, Begun
  <2> QED BY <2>2, <2>3, <2>4, <2>5, <2>6, <2>7
<1> QED BY <1>1, <1>2 DEF OnRegisterFails

LEMMA OnCreateHostKeeps == IInv /\ OnCreateHost => IInv'
<1> SUFFICES ASSUME IInv, OnCreateHost PROVE IInv'
  OBVIOUS
<1> USE TypesGive, RadioAssumption DEF IInv, Types, HostTruth, RadioTruth, ShutTruth, WorkerTruth, StartTruth,
        Fresh, Waiting, At, flags, stack, FailOwing, MarkOff
<1>1. Moved("on.created", fg.gen, fg.stay)
  BY GoMoves DEF OnCreateHost, Phases
<1>2. Types'
  BY <1>1 DEF OnCreateHost, Moved
<1>3. HostTruth'
  BY <1>1 DEF OnCreateHost, Moved
<1>4. RadioTruth'
  BY <1>1 DEF OnCreateHost, Moved
<1>5. ShutTruth'
  BY <1>1 DEF OnCreateHost, Moved
<1>6. WorkerTruth'
  BY <1>1 DEF OnCreateHost, Moved
<1>7. StartTruth'
  BY <1>1 DEF OnCreateHost, Moved
<1> QED BY <1>2, <1>3, <1>4, <1>5, <1>6, <1>7

LEMMA OnHostCreatedKeeps == IInv /\ OnHostCreated => IInv'
<1> SUFFICES ASSUME IInv, OnHostCreated PROVE IInv'
  OBVIOUS
<1> USE TypesGive, RadioAssumption DEF IInv, Types, HostTruth, RadioTruth, ShutTruth, WorkerTruth, StartTruth,
        Fresh, Waiting, At, flags, stack, FailOwing, MarkOff
<1>1. Moved("on.wait", fg.gen, fg.stay)
  BY GoMoves DEF OnHostCreated, Phases
<1>2. Types'
  BY <1>1 DEF OnHostCreated, Moved
<1>3. HostTruth'
  BY <1>1 DEF OnHostCreated, Moved
<1>4. RadioTruth'
  BY <1>1 DEF OnHostCreated, Moved
<1>5. ShutTruth'
  BY <1>1 DEF OnHostCreated, Moved
<1>6. WorkerTruth'
  BY <1>1 DEF OnHostCreated, Moved
<1>7. StartTruth'
  BY <1>1 DEF OnHostCreated, Moved
<1> QED BY <1>2, <1>3, <1>4, <1>5, <1>6, <1>7

LEMMA OnCreateHostFailsKeeps == IInv /\ OnCreateHostFails => IInv'
<1> SUFFICES ASSUME IInv, OnCreateHostFails PROVE IInv'
  OBVIOUS
<1> USE TypesGive, RadioAssumption DEF IInv, Types, HostTruth, RadioTruth, ShutTruth, WorkerTruth, StartTruth,
        Fresh, Waiting, At, flags, stack, FailOwing, MarkOff
<1>1. Moved("on.undo", fg.gen, fg.stay)
  BY GoMoves DEF OnCreateHostFails, Phases
<1>2. Types'
  BY <1>1 DEF OnCreateHostFails, Moved
<1>3. HostTruth'
  BY <1>1 DEF OnCreateHostFails, Moved
<1>4. RadioTruth'
  BY <1>1 DEF OnCreateHostFails, Moved
<1>5. ShutTruth'
  BY <1>1 DEF OnCreateHostFails, Moved
<1>6. WorkerTruth'
  BY <1>1 DEF OnCreateHostFails, Moved
<1>7. StartTruth'
  BY <1>1 DEF OnCreateHostFails, Moved
<1> QED BY <1>2, <1>3, <1>4, <1>5, <1>6, <1>7

LEMMA OnUndoPortKeeps == IInv /\ OnUndoPort => IInv'
<1> SUFFICES ASSUME IInv, OnUndoPort PROVE IInv'
  OBVIOUS
<1> USE TypesGive, RadioAssumption DEF IInv, Types, HostTruth, RadioTruth, ShutTruth, WorkerTruth, StartTruth,
        Fresh, Waiting, At, flags, stack, FailOwing, MarkOff
<1>1. CASE port' = FALSE /\ MarkOff
  <2>1. Begun("none", "idle")
      BY <1>1, AnswerEnds DEF OnUndoPort
  <2>2. Types'
      BY <1>1, <2>1 DEF OnUndoPort, Begun
  <2>3. HostTruth'
      BY <1>1, <2>1 DEF OnUndoPort, Begun
  <2>4. RadioTruth'
      BY <1>1, <2>1 DEF OnUndoPort, Begun
  <2>5. ShutTruth'
      BY <1>1, <2>1 DEF OnUndoPort, Begun
  <2>6. WorkerTruth'
      BY <1>1, <2>1 DEF OnUndoPort, Begun
  <2>7. StartTruth'
      BY <1>1, <2>1 DEF OnUndoPort, Begun
  <2> QED BY <2>2, <2>3, <2>4, <2>5, <2>6, <2>7
<1>2. CASE FailOwing /\ UNCHANGED <<port, life, done, portFlag, created, running, shut>>
  <2>1. Begun("none", "idle")
      BY <1>2, AnswerEnds DEF OnUndoPort
  <2>2. Types'
      BY <1>2, <2>1 DEF OnUndoPort, Begun
  <2>3. HostTruth'
      BY <1>2, <2>1 DEF OnUndoPort, Begun
  <2>4. RadioTruth'
      BY <1>2, <2>1 DEF OnUndoPort, Begun
  <2>5. ShutTruth'
      BY <1>2, <2>1 DEF OnUndoPort, Begun
  <2>6. WorkerTruth'
      BY <1>2, <2>1 DEF OnUndoPort, Begun
  <2>7. StartTruth'
      BY <1>2, <2>1 DEF OnUndoPort, Begun
  <2> QED BY <2>2, <2>3, <2>4, <2>5, <2>6, <2>7
<1> QED BY <1>1, <1>2 DEF OnUndoPort

LEMMA OnWaitKeeps == IInv /\ OnWait => IInv'
<1> SUFFICES ASSUME IInv, OnWait PROVE IInv'
  OBVIOUS
<1> USE TypesGive, RadioAssumption DEF IInv, Types, HostTruth, RadioTruth, ShutTruth, WorkerTruth, StartTruth,
        Fresh, Waiting, At, flags, stack, FailOwing, MarkOff
<1>1. CASE radio = "READY" /\ Answer
  <2>1. Begun("none", "idle")
      BY <1>1, AnswerEnds DEF OnWait
  <2>2. Types'
      BY <1>1, <2>1 DEF OnWait, Begun
  <2>3. HostTruth'
      BY <1>1, <2>1 DEF OnWait, Begun
  <2>4. RadioTruth'
      BY <1>1, <2>1 DEF OnWait, Begun
  <2>5. ShutTruth'
      BY <1>1, <2>1 DEF OnWait, Begun
  <2>6. WorkerTruth'
      BY <1>1, <2>1 DEF OnWait, Begun
  <2>7. StartTruth'
      BY <1>1, <2>1 DEF OnWait, Begun
  <2> QED BY <2>2, <2>3, <2>4, <2>5, <2>6, <2>7
<1>2. CASE radio = "FAILED" /\ CleanAndLeave
  <2>1. Moved("clean", fg.gen, FALSE)
      BY <1>2, LeaveMoves DEF OnWait
  <2>2. Types'
      BY <1>2, <2>1 DEF OnWait, Moved
  <2>3. HostTruth'
      BY <1>2, <2>1 DEF OnWait, Moved
  <2>4. RadioTruth'
      BY <1>2, <2>1 DEF OnWait, Moved
  <2>5. ShutTruth'
      BY <1>2, <2>1 DEF OnWait, Moved
  <2>6. WorkerTruth'
      BY <1>2, <2>1 DEF OnWait, Moved
  <2>7. StartTruth'
      BY <1>2, <2>1 DEF OnWait, Moved
  <2> QED BY <2>2, <2>3, <2>4, <2>5, <2>6, <2>7
<1>3. CASE radio = "READY" /\ done # fg.gen /\ CleanAndLeave
  <2>1. Moved("clean", fg.gen, FALSE)
      BY <1>3, LeaveMoves DEF OnWait
  <2>2. Types'
      BY <1>3, <2>1 DEF OnWait, Moved
  <2>3. HostTruth'
      BY <1>3, <2>1 DEF OnWait, Moved
  <2>4. RadioTruth'
      BY <1>3, <2>1 DEF OnWait, Moved
  <2>5. ShutTruth'
      BY <1>3, <2>1 DEF OnWait, Moved
  <2>6. WorkerTruth'
      BY <1>3, <2>1 DEF OnWait, Moved
  <2>7. StartTruth'
      BY <1>3, <2>1 DEF OnWait, Moved
  <2> QED BY <2>2, <2>3, <2>4, <2>5, <2>6, <2>7
<1>4. CASE radio \in {"OFF", "STOPPING"} /\ Answer
  <2>1. Begun("none", "idle")
      BY <1>4, AnswerEnds DEF OnWait
  <2>2. Types'
      BY <1>4, <2>1 DEF OnWait, Begun
  <2>3. HostTruth'
      BY <1>4, <2>1 DEF OnWait, Begun
  <2>4. RadioTruth'
      BY <1>4, <2>1 DEF OnWait, Begun
  <2>5. ShutTruth'
      BY <1>4, <2>1 DEF OnWait, Begun
  <2>6. WorkerTruth'
      BY <1>4, <2>1 DEF OnWait, Begun
  <2>7. StartTruth'
      BY <1>4, <2>1 DEF OnWait, Begun
  <2> QED BY <2>2, <2>3, <2>4, <2>5, <2>6, <2>7
<1> QED BY <1>1, <1>2, <1>3, <1>4 DEF OnWait

LEMMA OnGiveUpKeeps == IInv /\ OnGiveUp => IInv'
<1> SUFFICES ASSUME IInv, OnGiveUp PROVE IInv'
  OBVIOUS
<1> USE TypesGive, RadioAssumption DEF IInv, Types, HostTruth, RadioTruth, ShutTruth, WorkerTruth, StartTruth,
        Fresh, Waiting, At, flags, stack, FailOwing, MarkOff
<1>1. Moved("on.abort", fg.gen, fg.stay)
  BY GoMoves DEF OnGiveUp, Phases
<1>2. Types'
  BY <1>1 DEF OnGiveUp, Moved
<1>3. HostTruth'
  BY <1>1 DEF OnGiveUp, Moved
<1>4. RadioTruth'
  BY <1>1 DEF OnGiveUp, Moved
<1>5. ShutTruth'
  BY <1>1 DEF OnGiveUp, Moved
<1>6. WorkerTruth'
  BY <1>1 DEF OnGiveUp, Moved
<1>7. StartTruth'
  BY <1>1 DEF OnGiveUp, Moved
<1> QED BY <1>2, <1>3, <1>4, <1>5, <1>6, <1>7

LEMMA OnAbortKeeps == IInv /\ OnAbort => IInv'
<1> SUFFICES ASSUME IInv, OnAbort PROVE IInv'
  OBVIOUS
<1> USE TypesGive, RadioAssumption DEF IInv, Types, HostTruth, RadioTruth, ShutTruth, WorkerTruth, StartTruth,
        Fresh, Waiting, At, flags, stack, FailOwing, MarkOff
<1>1. CASE fg.gen = life /\ radio = "STARTING" /\ CleanAndLeave
  <2>1. Moved("clean", fg.gen, FALSE)
      BY <1>1, LeaveMoves DEF OnAbort
  <2>2. Types'
      BY <1>1, <2>1 DEF OnAbort, Moved
  <2>3. HostTruth'
      BY <1>1, <2>1 DEF OnAbort, Moved
  <2>4. RadioTruth'
      BY <1>1, <2>1 DEF OnAbort, Moved
  <2>5. ShutTruth'
      BY <1>1, <2>1 DEF OnAbort, Moved
  <2>6. WorkerTruth'
      BY <1>1, <2>1 DEF OnAbort, Moved
  <2>7. StartTruth'
      BY <1>1, <2>1 DEF OnAbort, Moved
  <2> QED BY <2>2, <2>3, <2>4, <2>5, <2>6, <2>7
<1>2. CASE ~(fg.gen = life /\ radio = "STARTING") /\ Go("on.wait")
  <2>1. Moved("on.wait", fg.gen, fg.stay)
      BY <1>2, GoMoves DEF OnAbort, Phases
  <2>2. Types'
      BY <1>2, <2>1 DEF OnAbort, Moved
  <2>3. HostTruth'
      BY <1>2, <2>1 DEF OnAbort, Moved
  <2>4. RadioTruth'
      BY <1>2, <2>1 DEF OnAbort, Moved
  <2>5. ShutTruth'
      BY <1>2, <2>1 DEF OnAbort, Moved
  <2>6. WorkerTruth'
      BY <1>2, <2>1 DEF OnAbort, Moved
  <2>7. StartTruth'
      BY <1>2, <2>1 DEF OnAbort, Moved
  <2> QED BY <2>2, <2>3, <2>4, <2>5, <2>6, <2>7
<1> QED BY <1>1, <1>2 DEF OnAbort

LEMMA BeginCleanupKeeps == IInv /\ BeginCleanup => IInv'
<1> SUFFICES ASSUME IInv, BeginCleanup PROVE IInv'
  OBVIOUS
<1> USE TypesGive, RadioAssumption DEF IInv, Types, HostTruth, RadioTruth, ShutTruth, WorkerTruth, StartTruth,
        Fresh, Waiting, At, flags, stack, FailOwing, MarkOff
<1>1. CASE (radio = "OFF" \/ (~shut /\ ~portFlag /\ ~need)) /\ MarkOff
  <2>1. (fg.stay = TRUE /\ Moved("wait", fg.gen, fg.stay)) \/ (fg.stay = FALSE /\ Begun("none", "idle"))
      BY <1>1, CleaningGoes DEF BeginCleanup
  <2>2. Types'
      BY <1>1, <2>1 DEF BeginCleanup, Moved, Begun
  <2>3. HostTruth'
      BY <1>1, <2>1 DEF BeginCleanup, Moved, Begun
  <2>4. RadioTruth'
      BY <1>1, <2>1 DEF BeginCleanup, Moved, Begun
  <2>5. ShutTruth'
      BY <1>1, <2>1 DEF BeginCleanup, Moved, Begun
  <2>6. WorkerTruth'
      BY <1>1, <2>1 DEF BeginCleanup, Moved, Begun
  <2>7. StartTruth'
      BY <1>1, <2>1 DEF BeginCleanup, Moved, Begun
  <2> QED BY <2>2, <2>3, <2>4, <2>5, <2>6, <2>7
<1>2. CASE radio # "OFF" /\ shut /\ UNCHANGED flags
  <2>1. (fg.stay = TRUE /\ Moved("wait", fg.gen, fg.stay)) \/ (fg.stay = FALSE /\ Begun("none", "idle"))
      BY <1>2, CleaningGoes DEF BeginCleanup
  <2>2. Types'
      BY <1>2, <2>1 DEF BeginCleanup, Moved, Begun
  <2>3. HostTruth'
      BY <1>2, <2>1 DEF BeginCleanup, Moved, Begun
  <2>4. RadioTruth'
      BY <1>2, <2>1 DEF BeginCleanup, Moved, Begun
  <2>5. ShutTruth'
      BY <1>2, <2>1 DEF BeginCleanup, Moved, Begun
  <2>6. WorkerTruth'
      BY <1>2, <2>1 DEF BeginCleanup, Moved, Begun
  <2>7. StartTruth'
      BY <1>2, <2>1 DEF BeginCleanup, Moved, Begun
  <2> QED BY <2>2, <2>3, <2>4, <2>5, <2>6, <2>7
<1> QED BY <1>1, <1>2 DEF BeginCleanup

LEMMA TakeShutdownKeeps == IInv /\ TakeShutdown => IInv'
<1> SUFFICES ASSUME IInv, TakeShutdown PROVE IInv'
  OBVIOUS
<1> USE TypesGive, RadioAssumption DEF IInv, Types, HostTruth, RadioTruth, ShutTruth, WorkerTruth, StartTruth,
        Fresh, Waiting, At, flags, stack, FailOwing, MarkOff
<1>1. CASE created = TRUE
  <2>1. Moved("queue", life, fg.stay)
      BY <1>1, NumberMoves DEF TakeShutdown, Phases
  <2>2. Types'
      BY <1>1, <2>1 DEF TakeShutdown, Moved
  <2>3. HostTruth'
      BY <1>1, <2>1 DEF TakeShutdown, Moved
  <2>4. RadioTruth'
      BY <1>1, <2>1 DEF TakeShutdown, Moved
  <2>5. ShutTruth'
      BY <1>1, <2>1 DEF TakeShutdown, Moved
  <2>6. WorkerTruth'
      BY <1>1, <2>1 DEF TakeShutdown, Moved
  <2>7. StartTruth'
      BY <1>1, <2>1 DEF TakeShutdown, Moved
  <2> QED BY <2>2, <2>3, <2>4, <2>5, <2>6, <2>7
<1>2. CASE created = FALSE
  <2>1. Moved("spawn", life, fg.stay)
      BY <1>2, NumberMoves DEF TakeShutdown, Phases
  <2>2. Types'
      BY <1>2, <2>1 DEF TakeShutdown, Moved
  <2>3. HostTruth'
      BY <1>2, <2>1 DEF TakeShutdown, Moved
  <2>4. RadioTruth'
      BY <1>2, <2>1 DEF TakeShutdown, Moved
  <2>5. ShutTruth'
      BY <1>2, <2>1 DEF TakeShutdown, Moved
  <2>6. WorkerTruth'
      BY <1>2, <2>1 DEF TakeShutdown, Moved
  <2>7. StartTruth'
      BY <1>2, <2>1 DEF TakeShutdown, Moved
  <2> QED BY <2>2, <2>3, <2>4, <2>5, <2>6, <2>7
<1> QED BY <1>1, <1>2 DEF TakeShutdown

LEMMA QueueBarrierKeeps == IInv /\ QueueBarrier => IInv'
<1> SUFFICES ASSUME IInv, QueueBarrier PROVE IInv'
  OBVIOUS
<1> USE TypesGive, RadioAssumption DEF IInv, Types, HostTruth, RadioTruth, ShutTruth, WorkerTruth, StartTruth,
        Fresh, Waiting, At, flags, stack, FailOwing, MarkOff
<1>1. (fg.stay = TRUE /\ Moved("wait", fg.gen, fg.stay)) \/ (fg.stay = FALSE /\ Begun("none", "idle"))
  BY CleaningGoes DEF QueueBarrier
<1>2. Types'
  BY <1>1 DEF QueueBarrier, Moved, Begun
<1>3. HostTruth'
  BY <1>1 DEF QueueBarrier, Moved, Begun
<1>4. RadioTruth'
  BY <1>1 DEF QueueBarrier, Moved, Begun
<1>5. ShutTruth'
  BY <1>1 DEF QueueBarrier, Moved, Begun
<1>6. WorkerTruth'
  BY <1>1 DEF QueueBarrier, Moved, Begun
<1>7. StartTruth'
  BY <1>1 DEF QueueBarrier, Moved, Begun
<1> QED BY <1>2, <1>3, <1>4, <1>5, <1>6, <1>7

LEMMA StartWorkerKeeps == IInv /\ StartWorker => IInv'
<1> SUFFICES ASSUME IInv, StartWorker PROVE IInv'
  OBVIOUS
<1> USE TypesGive, RadioAssumption DEF IInv, Types, HostTruth, RadioTruth, ShutTruth, WorkerTruth, StartTruth,
        Fresh, Waiting, At, flags, stack, FailOwing, MarkOff
<1>1. CASE SpawnWorker(fg.gen) /\ Cleaning
  <2>1. (fg.stay = TRUE /\ Moved("wait", fg.gen, fg.stay)) \/ (fg.stay = FALSE /\ Begun("none", "idle"))
      BY <1>1, CleaningGoes DEF StartWorker
  <2>2. Worked("begin", life, TRUE)
      BY <1>1, WorkerIsNew DEF StartWorker, SpawnWorker
  <2>3. Types'
      BY <1>1, <2>1, <2>2 DEF StartWorker, Moved, Begun, Worked, SpawnWorker, SpawnFails
  <2>4. HostTruth'
      BY <1>1, <2>1, <2>2 DEF StartWorker, Moved, Begun, Worked, SpawnWorker, SpawnFails
  <2>5. RadioTruth'
      BY <1>1, <2>1, <2>2 DEF StartWorker, Moved, Begun, Worked, SpawnWorker, SpawnFails
  <2>6. ShutTruth'
      BY <1>1, <2>1, <2>2 DEF StartWorker, Moved, Begun, Worked, SpawnWorker, SpawnFails
  <2>7. WorkerTruth'
      BY <1>1, <2>1, <2>2 DEF StartWorker, Moved, Begun, Worked, SpawnWorker, SpawnFails
  <2>8. StartTruth'
      BY <1>1, <2>1, <2>2 DEF StartWorker, Moved, Begun, Worked, SpawnWorker, SpawnFails
  <2> QED BY <2>3, <2>4, <2>5, <2>6, <2>7, <2>8
<1>2. CASE SpawnFails(fg.gen) /\ Answer
  <2>1. Begun("none", "idle")
      BY <1>2, AnswerEnds DEF StartWorker
  <2>2. Types'
      BY <1>2, <2>1 DEF StartWorker, Begun, SpawnWorker, SpawnFails
  <2>3. HostTruth'
      BY <1>2, <2>1 DEF StartWorker, Begun, SpawnWorker, SpawnFails
  <2>4. RadioTruth'
      BY <1>2, <2>1 DEF StartWorker, Begun, SpawnWorker, SpawnFails
  <2>5. ShutTruth'
      BY <1>2, <2>1 DEF StartWorker, Begun, SpawnWorker, SpawnFails
  <2>6. WorkerTruth'
      BY <1>2, <2>1 DEF StartWorker, Begun, SpawnWorker, SpawnFails
  <2>7. StartTruth'
      BY <1>2, <2>1 DEF StartWorker, Begun, SpawnWorker, SpawnFails
  <2> QED BY <2>2, <2>3, <2>4, <2>5, <2>6, <2>7
<1> QED BY <1>1, <1>2 DEF StartWorker

LEMMA WaitCleanupKeeps == IInv /\ WaitCleanup => IInv'
<1> SUFFICES ASSUME IInv, WaitCleanup PROVE IInv'
  OBVIOUS
<1> USE TypesGive, RadioAssumption DEF IInv, Types, HostTruth, RadioTruth, ShutTruth, WorkerTruth, StartTruth,
        Fresh, Waiting, At, flags, stack, FailOwing, MarkOff
<1>1. CASE (radio = "OFF" \/ (~shut /\ ~need)) /\ fg.op = "on" /\ Go("on.check")
  <2>1. Moved("on.check", fg.gen, fg.stay)
      BY <1>1, GoMoves DEF WaitCleanup, Phases
  <2>2. Types'
      BY <1>1, <2>1 DEF WaitCleanup, Moved
  <2>3. HostTruth'
      BY <1>1, <2>1 DEF WaitCleanup, Moved
  <2>4. RadioTruth'
      BY <1>1, <2>1 DEF WaitCleanup, Moved
  <2>5. ShutTruth'
      BY <1>1, <2>1 DEF WaitCleanup, Moved
  <2>6. WorkerTruth'
      BY <1>1, <2>1 DEF WaitCleanup, Moved
  <2>7. StartTruth'
      BY <1>1, <2>1 DEF WaitCleanup, Moved
  <2> QED BY <2>2, <2>3, <2>4, <2>5, <2>6, <2>7
<1>2. CASE Answer
  <2>1. Begun("none", "idle")
      BY <1>2, AnswerEnds DEF WaitCleanup
  <2>2. Types'
      BY <1>2, <2>1 DEF WaitCleanup, Begun
  <2>3. HostTruth'
      BY <1>2, <2>1 DEF WaitCleanup, Begun
  <2>4. RadioTruth'
      BY <1>2, <2>1 DEF WaitCleanup, Begun
  <2>5. ShutTruth'
      BY <1>2, <2>1 DEF WaitCleanup, Begun
  <2>6. WorkerTruth'
      BY <1>2, <2>1 DEF WaitCleanup, Begun
  <2>7. StartTruth'
      BY <1>2, <2>1 DEF WaitCleanup, Begun
  <2> QED BY <2>2, <2>3, <2>4, <2>5, <2>6, <2>7
<1> QED BY <1>1, <1>2 DEF WaitCleanup

LEMMA HostEnterKeeps == IInv /\ HostEnter => IInv'
<1> SUFFICES ASSUME IInv, HostEnter PROVE IInv'
  OBVIOUS
<1> USE TypesGive, RadioAssumption DEF IInv, Types, HostTruth, RadioTruth, ShutTruth, WorkerTruth, StartTruth,
        Fresh, Waiting, At, flags, stack, FailOwing, MarkOff
<1>1. Types'
  BY DEF HostEnter
<1>2. HostTruth'
  BY DEF HostEnter
<1>3. RadioTruth'
  BY DEF HostEnter
<1>4. ShutTruth'
  BY DEF HostEnter
<1>5. WorkerTruth'
  BY DEF HostEnter
<1>6. StartTruth'
  BY DEF HostEnter
<1> QED BY <1>1, <1>2, <1>3, <1>4, <1>5, <1>6

LEMMA HostEnabledKeeps == IInv /\ HostEnabled => IInv'
<1> SUFFICES ASSUME IInv, HostEnabled PROVE IInv'
  OBVIOUS
<1> USE TypesGive, RadioAssumption DEF IInv, Types, HostTruth, RadioTruth, ShutTruth, WorkerTruth, StartTruth,
        Fresh, Waiting, At, flags, stack, FailOwing, MarkOff
<1>1. Types'
  BY DEF HostEnabled
<1>2. HostTruth'
  BY DEF HostEnabled
<1>3. RadioTruth'
  BY DEF HostEnabled
<1>4. ShutTruth'
  BY DEF HostEnabled
<1>5. WorkerTruth'
  BY DEF HostEnabled
<1>6. StartTruth'
  BY DEF HostEnabled
<1> QED BY <1>1, <1>2, <1>3, <1>4, <1>5, <1>6

LEMMA OnSyncKeeps == IInv /\ OnSync => IInv'
<1> SUFFICES ASSUME IInv, OnSync PROVE IInv'
  OBVIOUS
<1> USE TypesGive, RadioAssumption DEF IInv, Types, HostTruth, RadioTruth, ShutTruth, WorkerTruth, StartTruth,
        Fresh, Waiting, At, flags, stack, FailOwing, MarkOff
<1>1. CASE radio' = "READY" /\ done' = life /\ UNCHANGED need
  <2>1. Types'
      BY <1>1 DEF OnSync
  <2>2. HostTruth'
      BY <1>1 DEF OnSync
  <2>3. RadioTruth'
      BY <1>1 DEF OnSync
  <2>4. ShutTruth'
      BY <1>1 DEF OnSync
  <2>5. WorkerTruth'
      BY <1>1 DEF OnSync
  <2>6. StartTruth'
      BY <1>1 DEF OnSync
  <2> QED BY <2>1, <2>2, <2>3, <2>4, <2>5, <2>6
<1>2. CASE FailOwing /\ UNCHANGED done
  <2>1. Types'
      BY <1>2 DEF OnSync
  <2>2. HostTruth'
      BY <1>2 DEF OnSync
  <2>3. RadioTruth'
      BY <1>2 DEF OnSync
  <2>4. ShutTruth'
      BY <1>2 DEF OnSync
  <2>5. WorkerTruth'
      BY <1>2 DEF OnSync
  <2>6. StartTruth'
      BY <1>2 DEF OnSync
  <2> QED BY <2>1, <2>2, <2>3, <2>4, <2>5, <2>6
<1> QED BY <1>1, <1>2 DEF OnSync

LEMMA OnResetKeeps == IInv /\ OnReset => IInv'
<1> SUFFICES ASSUME IInv, OnReset PROVE IInv'
  OBVIOUS
<1> USE TypesGive, RadioAssumption DEF IInv, Types, HostTruth, RadioTruth, ShutTruth, WorkerTruth, StartTruth,
        Fresh, Waiting, At, flags, stack, FailOwing, MarkOff
<1>1. Types'
  BY DEF OnReset
<1>2. HostTruth'
  BY DEF OnReset
<1>3. RadioTruth'
  BY DEF OnReset
<1>4. ShutTruth'
  BY DEF OnReset
<1>5. WorkerTruth'
  BY DEF OnReset
<1>6. StartTruth'
  BY DEF OnReset
<1> QED BY <1>1, <1>2, <1>3, <1>4, <1>5, <1>6

LEMMA RunBarrierKeeps == IInv /\ RunBarrier => IInv'
<1> SUFFICES ASSUME IInv, RunBarrier PROVE IInv'
  OBVIOUS
<1> USE TypesGive, RadioAssumption DEF IInv, Types, HostTruth, RadioTruth, ShutTruth, WorkerTruth, StartTruth,
        Fresh, Waiting, At, flags, stack, FailOwing, MarkOff
<1>1. CASE shut /\ SpawnWorker(life)
  <2>1. Worked("begin", life, TRUE)
      BY <1>1, WorkerIsNew DEF RunBarrier, SpawnWorker
  <2>2. Types'
      BY <1>1, <2>1 DEF RunBarrier, Worked, SpawnWorker, SpawnFails
  <2>3. HostTruth'
      BY <1>1, <2>1 DEF RunBarrier, Worked, SpawnWorker, SpawnFails
  <2>4. RadioTruth'
      BY <1>1, <2>1 DEF RunBarrier, Worked, SpawnWorker, SpawnFails
  <2>5. ShutTruth'
      BY <1>1, <2>1 DEF RunBarrier, Worked, SpawnWorker, SpawnFails
  <2>6. WorkerTruth'
      BY <1>1, <2>1 DEF RunBarrier, Worked, SpawnWorker, SpawnFails
  <2>7. StartTruth'
      BY <1>1, <2>1 DEF RunBarrier, Worked, SpawnWorker, SpawnFails
  <2> QED BY <2>2, <2>3, <2>4, <2>5, <2>6, <2>7
<1>2. CASE shut /\ SpawnFails(life)
  <2>1. Types'
      BY <1>2 DEF RunBarrier, SpawnWorker, SpawnFails
  <2>2. HostTruth'
      BY <1>2 DEF RunBarrier, SpawnWorker, SpawnFails
  <2>3. RadioTruth'
      BY <1>2 DEF RunBarrier, SpawnWorker, SpawnFails
  <2>4. ShutTruth'
      BY <1>2 DEF RunBarrier, SpawnWorker, SpawnFails
  <2>5. WorkerTruth'
      BY <1>2 DEF RunBarrier, SpawnWorker, SpawnFails
  <2>6. StartTruth'
      BY <1>2 DEF RunBarrier, SpawnWorker, SpawnFails
  <2> QED BY <2>1, <2>2, <2>3, <2>4, <2>5, <2>6
<1>3. CASE ~shut /\ UNCHANGED <<flags, worker>>
  <2>1. Types'
      BY <1>3 DEF RunBarrier, SpawnWorker, SpawnFails
  <2>2. HostTruth'
      BY <1>3 DEF RunBarrier, SpawnWorker, SpawnFails
  <2>3. RadioTruth'
      BY <1>3 DEF RunBarrier, SpawnWorker, SpawnFails
  <2>4. ShutTruth'
      BY <1>3 DEF RunBarrier, SpawnWorker, SpawnFails
  <2>5. WorkerTruth'
      BY <1>3 DEF RunBarrier, SpawnWorker, SpawnFails
  <2>6. StartTruth'
      BY <1>3 DEF RunBarrier, SpawnWorker, SpawnFails
  <2> QED BY <2>1, <2>2, <2>3, <2>4, <2>5, <2>6
<1> QED BY <1>1, <1>2, <1>3 DEF RunBarrier

LEMMA HostLeaveKeeps == IInv /\ HostLeave => IInv'
<1> SUFFICES ASSUME IInv, HostLeave PROVE IInv'
  OBVIOUS
<1> USE TypesGive, RadioAssumption DEF IInv, Types, HostTruth, RadioTruth, ShutTruth, WorkerTruth, StartTruth,
        Fresh, Waiting, At, flags, stack, FailOwing, MarkOff
<1>1. Types'
  BY DEF HostLeave
<1>2. HostTruth'
  BY DEF HostLeave
<1>3. RadioTruth'
  BY DEF HostLeave
<1>4. ShutTruth'
  BY DEF HostLeave
<1>5. WorkerTruth'
  BY DEF HostLeave
<1>6. StartTruth'
  BY DEF HostLeave
<1> QED BY <1>1, <1>2, <1>3, <1>4, <1>5, <1>6

LEMMA WorkerBeginKeeps == IInv /\ WorkerBegin => IInv'
<1> SUFFICES ASSUME IInv, WorkerBegin PROVE IInv'
  OBVIOUS
<1> USE TypesGive, RadioAssumption DEF IInv, Types, HostTruth, RadioTruth, ShutTruth, WorkerTruth, StartTruth,
        Fresh, Waiting, At, flags, stack, FailOwing, MarkOff
<1>1. CASE created = TRUE
  <2>1. Worked("stop", worker.gen, worker.ok)
      BY <1>1, WorkerGoes DEF WorkerBegin, Steps
  <2>2. Types'
      BY <1>1, <2>1 DEF WorkerBegin, Worked
  <2>3. HostTruth'
      BY <1>1, <2>1 DEF WorkerBegin, Worked
  <2>4. RadioTruth'
      BY <1>1, <2>1 DEF WorkerBegin, Worked
  <2>5. ShutTruth'
      BY <1>1, <2>1 DEF WorkerBegin, Worked
  <2>6. WorkerTruth'
      BY <1>1, <2>1 DEF WorkerBegin, Worked
  <2>7. StartTruth'
      BY <1>1, <2>1 DEF WorkerBegin, Worked
  <2> QED BY <2>2, <2>3, <2>4, <2>5, <2>6, <2>7
<1>2. CASE created = FALSE
  <2>1. Worked("deinit", worker.gen, worker.ok)
      BY <1>2, WorkerGoes DEF WorkerBegin, Steps
  <2>2. Types'
      BY <1>2, <2>1 DEF WorkerBegin, Worked
  <2>3. HostTruth'
      BY <1>2, <2>1 DEF WorkerBegin, Worked
  <2>4. RadioTruth'
      BY <1>2, <2>1 DEF WorkerBegin, Worked
  <2>5. ShutTruth'
      BY <1>2, <2>1 DEF WorkerBegin, Worked
  <2>6. WorkerTruth'
      BY <1>2, <2>1 DEF WorkerBegin, Worked
  <2>7. StartTruth'
      BY <1>2, <2>1 DEF WorkerBegin, Worked
  <2> QED BY <2>2, <2>3, <2>4, <2>5, <2>6, <2>7
<1> QED BY <1>1, <1>2 DEF WorkerBegin

LEMMA WorkerStopKeeps == IInv /\ WorkerStop => IInv'
<1> SUFFICES ASSUME IInv, WorkerStop PROVE IInv'
  OBVIOUS
<1> USE TypesGive, RadioAssumption DEF IInv, Types, HostTruth, RadioTruth, ShutTruth, WorkerTruth, StartTruth,
        Fresh, Waiting, At, flags, stack, FailOwing, MarkOff
<1>1. CASE host' = "leaving" /\ worker' = [worker EXCEPT !.at = "drain"]
  <2>1. Worked("drain", worker.gen, worker.ok)
      BY <1>1, WorkerGoes DEF WorkerStop, Steps
  <2>2. Types'
      BY <1>1, <2>1 DEF WorkerStop, Worked
  <2>3. HostTruth'
      BY <1>1, <2>1 DEF WorkerStop, Worked
  <2>4. RadioTruth'
      BY <1>1, <2>1 DEF WorkerStop, Worked
  <2>5. ShutTruth'
      BY <1>1, <2>1 DEF WorkerStop, Worked
  <2>6. WorkerTruth'
      BY <1>1, <2>1 DEF WorkerStop, Worked
  <2>7. StartTruth'
      BY <1>1, <2>1 DEF WorkerStop, Worked
  <2> QED BY <2>2, <2>3, <2>4, <2>5, <2>6, <2>7
<1>2. CASE UNCHANGED host /\ worker' = [worker EXCEPT !.at = "finish", !.ok = FALSE]
  <2>1. Worked("finish", worker.gen, FALSE)
      BY <1>2, WorkerMoves DEF WorkerStop, Steps
  <2>2. Types'
      BY <1>2, <2>1 DEF WorkerStop, Worked
  <2>3. HostTruth'
      BY <1>2, <2>1 DEF WorkerStop, Worked
  <2>4. RadioTruth'
      BY <1>2, <2>1 DEF WorkerStop, Worked
  <2>5. ShutTruth'
      BY <1>2, <2>1 DEF WorkerStop, Worked
  <2>6. WorkerTruth'
      BY <1>2, <2>1 DEF WorkerStop, Worked
  <2>7. StartTruth'
      BY <1>2, <2>1 DEF WorkerStop, Worked
  <2> QED BY <2>2, <2>3, <2>4, <2>5, <2>6, <2>7
<1> QED BY <1>1, <1>2 DEF WorkerStop

LEMMA WorkerDrainKeeps == IInv /\ WorkerDrain => IInv'
<1> SUFFICES ASSUME IInv, WorkerDrain PROVE IInv'
  OBVIOUS
<1> USE TypesGive, RadioAssumption DEF IInv, Types, HostTruth, RadioTruth, ShutTruth, WorkerTruth, StartTruth,
        Fresh, Waiting, At, flags, stack, FailOwing, MarkOff
<1>1. Worked("deinit", worker.gen, worker.ok)
  BY WorkerGoes DEF WorkerDrain, Steps
<1>2. Types'
  BY <1>1 DEF WorkerDrain, Worked
<1>3. HostTruth'
  BY <1>1 DEF WorkerDrain, Worked
<1>4. RadioTruth'
  BY <1>1 DEF WorkerDrain, Worked
<1>5. ShutTruth'
  BY <1>1 DEF WorkerDrain, Worked
<1>6. WorkerTruth'
  BY <1>1 DEF WorkerDrain, Worked
<1>7. StartTruth'
  BY <1>1 DEF WorkerDrain, Worked
<1> QED BY <1>2, <1>3, <1>4, <1>5, <1>6, <1>7

LEMMA WorkerDeinitKeeps == IInv /\ WorkerDeinit => IInv'
<1> SUFFICES ASSUME IInv, WorkerDeinit PROVE IInv'
  OBVIOUS
<1> USE TypesGive, RadioAssumption DEF IInv, Types, HostTruth, RadioTruth, ShutTruth, WorkerTruth, StartTruth,
        Fresh, Waiting, At, flags, stack, FailOwing, MarkOff
<1>1. CASE port' = FALSE /\ worker' = [worker EXCEPT !.at = "finish"]
  <2>1. Worked("finish", worker.gen, worker.ok)
      BY <1>1, WorkerGoes DEF WorkerDeinit, Steps
  <2>2. Types'
      BY <1>1, <2>1 DEF WorkerDeinit, Worked
  <2>3. HostTruth'
      BY <1>1, <2>1 DEF WorkerDeinit, Worked
  <2>4. RadioTruth'
      BY <1>1, <2>1 DEF WorkerDeinit, Worked
  <2>5. ShutTruth'
      BY <1>1, <2>1 DEF WorkerDeinit, Worked
  <2>6. WorkerTruth'
      BY <1>1, <2>1 DEF WorkerDeinit, Worked
  <2>7. StartTruth'
      BY <1>1, <2>1 DEF WorkerDeinit, Worked
  <2> QED BY <2>2, <2>3, <2>4, <2>5, <2>6, <2>7
<1>2. CASE UNCHANGED port /\ worker' = [worker EXCEPT !.at = "finish.owing", !.ok = FALSE]
  <2>1. Worked("finish.owing", worker.gen, FALSE)
      BY <1>2, WorkerMoves DEF WorkerDeinit, Steps
  <2>2. Types'
      BY <1>2, <2>1 DEF WorkerDeinit, Worked
  <2>3. HostTruth'
      BY <1>2, <2>1 DEF WorkerDeinit, Worked
  <2>4. RadioTruth'
      BY <1>2, <2>1 DEF WorkerDeinit, Worked
  <2>5. ShutTruth'
      BY <1>2, <2>1 DEF WorkerDeinit, Worked
  <2>6. WorkerTruth'
      BY <1>2, <2>1 DEF WorkerDeinit, Worked
  <2>7. StartTruth'
      BY <1>2, <2>1 DEF WorkerDeinit, Worked
  <2> QED BY <2>2, <2>3, <2>4, <2>5, <2>6, <2>7
<1> QED BY <1>1, <1>2 DEF WorkerDeinit

LEMMA WorkerFinishKeeps == IInv /\ WorkerFinish => IInv'
<1> SUFFICES ASSUME IInv, WorkerFinish PROVE IInv'
  OBVIOUS
<1> USE TypesGive, RadioAssumption DEF IInv, Types, HostTruth, RadioTruth, ShutTruth, WorkerTruth, StartTruth,
        Fresh, Waiting, At, flags, stack, FailOwing, MarkOff
<1>1. CASE worker.ok = TRUE /\ MarkOff
  <2>1. Worked("none", 0, TRUE)
      BY <1>1, WorkerEnds DEF WorkerFinish
  <2>2. Types'
      BY <1>1, <2>1 DEF WorkerFinish, Worked
  <2>3. HostTruth'
      BY <1>1, <2>1 DEF WorkerFinish, Worked
  <2>4. RadioTruth'
      BY <1>1, <2>1 DEF WorkerFinish, Worked
  <2>5. ShutTruth'
      BY <1>1, <2>1 DEF WorkerFinish, Worked
  <2>6. WorkerTruth'
      BY <1>1, <2>1 DEF WorkerFinish, Worked
  <2>7. StartTruth'
      BY <1>1, <2>1 DEF WorkerFinish, Worked
  <2> QED BY <2>2, <2>3, <2>4, <2>5, <2>6, <2>7
<1>2. CASE worker.ok = FALSE
  <2>1. Worked("none", 0, TRUE)
      BY <1>2, WorkerEnds DEF WorkerFinish
  <2>2. Types'
      BY <1>2, <2>1 DEF WorkerFinish, Worked
  <2>3. HostTruth'
      BY <1>2, <2>1 DEF WorkerFinish, Worked
  <2>4. RadioTruth'
      BY <1>2, <2>1 DEF WorkerFinish, Worked
  <2>5. ShutTruth'
      BY <1>2, <2>1 DEF WorkerFinish, Worked
  <2>6. WorkerTruth'
      BY <1>2, <2>1 DEF WorkerFinish, Worked
  <2>7. StartTruth'
      BY <1>2, <2>1 DEF WorkerFinish, Worked
  <2> QED BY <2>2, <2>3, <2>4, <2>5, <2>6, <2>7
<1> QED BY <1>1, <1>2 DEF WorkerFinish

-----------------------------------------------------------------------------
(* The invariant *)

LEMMA InitHolds == Init => IInv
<1> SUFFICES ASSUME Init PROVE IInv
  OBVIOUS
<1>1. fg \in CallRecords /\ fg.at = "idle" /\ fg.op = "none" /\ fg.stay = TRUE
  BY DEF Init, Idle, CallRecords, Phases
<1>2. worker \in WorkerRecords /\ worker.at = "none"
  BY DEF Init, NoWorker, WorkerRecords, Steps
<1>a. 0 \in 0 .. MaxLife /\ 0 \in 0 .. 0
  BY RadioAssumption
<1>3. Types
  BY <1>a, <1>1, <1>2 DEF Init, Types
<1>4. HostTruth /\ RadioTruth /\ ShutTruth /\ WorkerTruth /\ StartTruth
  BY <1>1, <1>2 DEF Init, HostTruth, RadioTruth, ShutTruth, WorkerTruth, StartTruth, Fresh, Waiting
<1> QED BY <1>3, <1>4 DEF IInv

LEMMA StutterKeeps == IInv /\ UNCHANGED rvars => IInv'
  BY DEF IInv, Types, HostTruth, RadioTruth, ShutTruth, WorkerTruth, StartTruth, rvars, flags, stack

LEMMA OnStepsKeep == IInv /\ OnSteps => IInv'
  BY Zenon, OnStartKeeps, OnPortInitKeeps, OnPortInitFailsKeeps, OnRegisterKeeps, OnRegisterFailsKeeps,
     OnCreateHostKeeps, OnHostCreatedKeeps, OnCreateHostFailsKeeps, OnUndoPortKeeps,
     OnWaitKeeps, OnGiveUpKeeps, OnAbortKeeps
  DEF OnSteps

LEMMA CleanStepsKeep == IInv /\ CleanSteps => IInv'
  BY Zenon, BeginCleanupKeeps, TakeShutdownKeeps, QueueBarrierKeeps, StartWorkerKeeps, WaitCleanupKeeps
  DEF CleanSteps

LEMMA WorkerKeeps == IInv /\ Worker => IInv'
  BY Zenon, WorkerBeginKeeps, WorkerStopKeeps, WorkerDrainKeeps, WorkerDeinitKeeps, WorkerFinishKeeps
  DEF Worker

LEMMA NextKeeps == IInv /\ [Next]_rvars => IInv'
  BY Zenon, OnCheckKeeps, OffKeeps, OnStepsKeep, CleanStepsKeep, HostEnterKeeps, HostEnabledKeeps,
     OnSyncKeeps, OnResetKeeps, RunBarrierKeeps, HostLeaveKeeps, WorkerKeeps, StutterKeeps
  DEF Next

\* The driver's flags, the radio's state, the shutdown, the worker and the
\* evaluator's call always agree with the host task and the port as they are,
\* wherever the three tasks stand (ble.c).
THEOREM Inductive == Spec => []IInv
  BY InitHolds, NextKeeps, PTL DEF Spec

LEMMA InvIsSafe == IInv => HostSafe
<1> SUFFICES ASSUME IInv PROVE HostSafe
  OBVIOUS
<1>1. TypeOK
  <2>1. done \in 0 .. MaxLife BY RadioAssumption DEF IInv, Types
  <2>2. worker.at \in Steps /\ fg.gen \in Nat /\ fg.stay \in BOOLEAN
    BY DEF IInv, Types, WorkerRecords, CallRecords
  <2> QED BY <2>1, <2>2 DEF IInv, Types, Steps, TypeOK
<1>2. OneHost
  BY DEF IInv, Types, ShutTruth, StartTruth, Fresh, OneHost, At
<1>3. OffIsOff
  BY DEF IInv, Types, HostTruth, RadioTruth, ShutTruth, Fresh, OffIsOff
<1>4. DeinitSafe
  BY DEF IInv, WorkerTruth, StartTruth, Fresh, DeinitSafe, At
<1>5. StopsEnabled
  BY DEF IInv, WorkerTruth, StopsEnabled
<1>6. ReadyIsCurrent
  BY DEF IInv, Types, HostTruth, RadioTruth, ReadyIsCurrent
<1>7. NothingStranded
  BY DEF IInv, Types, RadioTruth, HostTruth, ShutTruth, Fresh, Waiting, NothingStranded, At
<1> QED BY <1>1, <1>2, <1>3, <1>4, <1>5, <1>6, <1>7 DEF HostSafe

\* However often the radio is started, and however stops, resets, failures and
\* interrupts meet: no start over the remains of another, no release under the
\* host task, no stop before the host's start-up is over, OFF and READY true,
\* and nothing left behind that no later call would clean up.
THEOREM HostIsSafe == Spec => []HostSafe
  BY Inductive, InvIsSafe, PTL

-----------------------------------------------------------------------------
(* The promise of BlePower, step by step *)


PowerStep == [Power!BpNext]_(Power!bpvars)
\* A step that a program cannot tell from none.
StatusStays == UNCHANGED <<radio, port>>

LEMMA NothingToTell == StatusStays => PowerStep
  BY DEF StatusStays, PowerStep, Power!bpvars

LEMMA StutterPower == UNCHANGED rvars => PowerStep
  BY NothingToTell DEF StatusStays, rvars, flags, stack

LEMMA OffPower == Off => PowerStep
  BY NothingToTell DEF Off, StatusStays, flags, stack

LEMMA OnRegisterPower == OnRegister => PowerStep
  BY NothingToTell DEF OnRegister, StatusStays, flags, stack

LEMMA OnCreateHostPower == OnCreateHost => PowerStep
  BY NothingToTell DEF OnCreateHost, StatusStays, flags, stack

LEMMA OnHostCreatedPower == OnHostCreated => PowerStep
  BY NothingToTell DEF OnHostCreated, StatusStays, flags, stack

LEMMA OnWaitPower == OnWait => PowerStep
  BY NothingToTell DEF OnWait, StatusStays, flags, stack

LEMMA OnGiveUpPower == OnGiveUp => PowerStep
  BY NothingToTell DEF OnGiveUp, StatusStays, flags, stack

LEMMA OnAbortPower == OnAbort => PowerStep
  BY NothingToTell DEF OnAbort, StatusStays, flags, stack

LEMMA QueueBarrierPower == QueueBarrier => PowerStep
  BY NothingToTell DEF QueueBarrier, StatusStays, flags, stack

LEMMA WaitCleanupPower == WaitCleanup => PowerStep
  BY NothingToTell DEF WaitCleanup, StatusStays, flags, stack

LEMMA HostEnterPower == HostEnter => PowerStep
  BY NothingToTell DEF HostEnter, StatusStays, flags, stack

LEMMA HostEnabledPower == HostEnabled => PowerStep
  BY NothingToTell DEF HostEnabled, StatusStays, flags, stack

LEMMA HostLeavePower == HostLeave => PowerStep
  BY NothingToTell DEF HostLeave, StatusStays, flags, stack

LEMMA WorkerBeginPower == WorkerBegin => PowerStep
  BY NothingToTell DEF WorkerBegin, StatusStays, flags, stack

LEMMA WorkerStopPower == WorkerStop => PowerStep
  BY NothingToTell DEF WorkerStop, StatusStays, flags, stack

LEMMA WorkerDrainPower == WorkerDrain => PowerStep
  BY NothingToTell DEF WorkerDrain, StatusStays, flags, stack

LEMMA OnCheckPower == OnCheck => PowerStep
  BY NothingToTell DEF OnCheck, StatusStays, flags, stack

LEMMA OnStartPower == IInv /\ OnStart => PowerStep
  BY RadioAssumption
  DEF OnStart, IInv, Types, HostTruth, RadioTruth, ShutTruth, WorkerTruth, StartTruth,
      Fresh, Waiting, At, flags, stack,
      FailOwing, MarkOff, SpawnWorker, SpawnFails, PowerStep, Power!BpNext, Power!BpStart, Power!bpvars

LEMMA OnPortInitPower == IInv /\ OnPortInit => PowerStep
  BY RadioAssumption
  DEF OnPortInit, IInv, Types, HostTruth, RadioTruth, ShutTruth, WorkerTruth, StartTruth,
      Fresh, Waiting, At, flags, stack,
      FailOwing, MarkOff, SpawnWorker, SpawnFails, PowerStep, Power!BpNext, Power!BpUp, Power!bpvars

LEMMA OnPortInitFailsPower == IInv /\ OnPortInitFails => PowerStep
  BY RadioAssumption
  DEF OnPortInitFails, IInv, Types, HostTruth, RadioTruth, ShutTruth, WorkerTruth, StartTruth,
      Fresh, Waiting, At, flags, stack,
      FailOwing, MarkOff, SpawnWorker, SpawnFails, PowerStep, Power!BpNext, Power!BpFail, Power!bpvars

LEMMA OnRegisterFailsPower == IInv /\ OnRegisterFails => PowerStep
  BY RadioAssumption
  DEF OnRegisterFails, IInv, Types, HostTruth, RadioTruth, ShutTruth, WorkerTruth, StartTruth,
      Fresh, Waiting, At, flags, stack,
      FailOwing, MarkOff, SpawnWorker, SpawnFails, PowerStep, Power!BpNext, Power!BpGiveBack, Power!BpFail, Power!bpvars

LEMMA OnCreateHostFailsPower == IInv /\ OnCreateHostFails => PowerStep
  BY RadioAssumption
  DEF OnCreateHostFails, IInv, Types, HostTruth, RadioTruth, ShutTruth, WorkerTruth, StartTruth,
      Fresh, Waiting, At, flags, stack,
      FailOwing, MarkOff, SpawnWorker, SpawnFails, PowerStep, Power!BpNext, Power!BpFail, Power!bpvars

LEMMA OnUndoPortPower == IInv /\ OnUndoPort => PowerStep
  BY RadioAssumption
  DEF OnUndoPort, IInv, Types, HostTruth, RadioTruth, ShutTruth, WorkerTruth, StartTruth,
      Fresh, Waiting, At, flags, stack,
      FailOwing, MarkOff, SpawnWorker, SpawnFails, PowerStep, Power!BpNext, Power!BpGiveBack, Power!bpvars

LEMMA BeginCleanupPower == IInv /\ BeginCleanup => PowerStep
  BY RadioAssumption
  DEF BeginCleanup, IInv, Types, HostTruth, RadioTruth, ShutTruth, WorkerTruth, StartTruth,
      Fresh, Waiting, At, flags, stack,
      FailOwing, MarkOff, SpawnWorker, SpawnFails, PowerStep, Power!BpNext, Power!BpOff, Power!bpvars

LEMMA TakeShutdownPower == IInv /\ TakeShutdown => PowerStep
  BY RadioAssumption
  DEF TakeShutdown, IInv, Types, HostTruth, RadioTruth, ShutTruth, WorkerTruth, StartTruth,
      Fresh, Waiting, At, flags, stack,
      FailOwing, MarkOff, SpawnWorker, SpawnFails, PowerStep, Power!BpNext, Power!BpStop, Power!bpvars

LEMMA OnSyncPower == IInv /\ OnSync => PowerStep
  BY RadioAssumption
  DEF OnSync, IInv, Types, HostTruth, RadioTruth, ShutTruth, WorkerTruth, StartTruth,
      Fresh, Waiting, At, flags, stack,
      FailOwing, MarkOff, SpawnWorker, SpawnFails, PowerStep, Power!BpNext, Power!BpReady, Power!BpFail, Power!bpvars

LEMMA OnResetPower == IInv /\ OnReset => PowerStep
  BY RadioAssumption
  DEF OnReset, IInv, Types, HostTruth, RadioTruth, ShutTruth, WorkerTruth, StartTruth,
      Fresh, Waiting, At, flags, stack,
      FailOwing, MarkOff, SpawnWorker, SpawnFails, PowerStep, Power!BpNext, Power!BpFail, Power!bpvars

LEMMA WorkerDeinitPower == IInv /\ WorkerDeinit => PowerStep
  BY RadioAssumption
  DEF WorkerDeinit, IInv, Types, HostTruth, RadioTruth, ShutTruth, WorkerTruth, StartTruth,
      Fresh, Waiting, At, flags, stack,
      FailOwing, MarkOff, SpawnWorker, SpawnFails, PowerStep, Power!BpNext, Power!BpDown, Power!bpvars

LEMMA WorkerFinishPower == IInv /\ WorkerFinish => PowerStep
  BY RadioAssumption
  DEF WorkerFinish, IInv, Types, HostTruth, RadioTruth, ShutTruth, WorkerTruth, StartTruth,
      Fresh, Waiting, At, flags, stack,
      FailOwing, MarkOff, SpawnWorker, SpawnFails, PowerStep, Power!BpNext, Power!BpOff, Power!BpFail, Power!bpvars

LEMMA SpawnPower ==
  ASSUME NEW g, IInv, SpawnWorker(g) \/ SpawnFails(g), UNCHANGED port PROVE PowerStep
<1>1. CASE UNCHANGED flags
  BY <1>1, NothingToTell DEF StatusStays, flags
<1>2. CASE shut /\ FailOwing
  <2>1. radio = "STOPPING" BY <1>2 DEF IInv, RadioTruth
  <2>2. radio' = "FAILED" BY <1>2 DEF FailOwing
  <2> QED BY <2>1, <2>2 DEF PowerStep, Power!BpNext, Power!BpFail
<1> QED BY Zenon, <1>1, <1>2 DEF SpawnWorker, SpawnFails

LEMMA StartWorkerPower == IInv /\ StartWorker => PowerStep
<1> SUFFICES ASSUME IInv, StartWorker PROVE PowerStep
  OBVIOUS
<1>1. UNCHANGED port BY DEF StartWorker, stack
<1> QED BY <1>1, SpawnPower DEF StartWorker

LEMMA RunBarrierPower == IInv /\ RunBarrier => PowerStep
<1> SUFFICES ASSUME IInv, RunBarrier PROVE PowerStep
  OBVIOUS
<1>1. UNCHANGED port BY DEF RunBarrier
<1>2. CASE UNCHANGED flags
  BY <1>1, <1>2, NothingToTell DEF StatusStays, flags
<1> QED BY <1>1, <1>2, SpawnPower DEF RunBarrier

LEMMA NextPower == IInv /\ [Next]_rvars => PowerStep
  BY Zenon, StutterPower,
     OffPower, OnRegisterPower, OnCreateHostPower, OnHostCreatedPower, OnWaitPower, OnGiveUpPower,
     OnAbortPower, QueueBarrierPower, WaitCleanupPower, HostEnterPower, HostEnabledPower,
     HostLeavePower, WorkerBeginPower, WorkerStopPower, WorkerDrainPower, OnCheckPower,
     OnStartPower, OnPortInitPower, OnPortInitFailsPower, OnRegisterFailsPower,
     OnCreateHostFailsPower, OnUndoPortPower, BeginCleanupPower, TakeShutdownPower, OnSyncPower,
     OnResetPower, WorkerDeinitPower, WorkerFinishPower, StartWorkerPower, RunBarrierPower
  DEF Next, OnSteps, CleanSteps, Worker

LEMMA InitPower == Init => Power!BpInit
  BY DEF Init, Power!BpInit

\* What a program can read of the radio, and the port under it, go through the
\* life BlePower promises: no second host, none released while READY, and OFF
\* only when it is gone.
THEOREM PowerIsKept == Spec => PowerKept
<1>1. Init /\ [][Next]_rvars /\ []IInv => Power!BpInit /\ [][Power!BpNext]_(Power!bpvars)
  BY InitPower, NextPower, PTL DEF PowerStep
<1> QED
  BY <1>1, Inductive, PTL DEF Spec, PowerKept, Power!BpSpec
=============================================================================
