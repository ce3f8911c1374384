--------------------------- MODULE FrothyBleRadio ---------------------------
(***************************************************************************)
(* The life of the Bluetooth host on the ESP32 boards                      *)
(* (src/targets/esp-idf/ble.c): `ble.on`, `ble.off` and the project clear  *)
(* run in the evaluator, NimBLE's callbacks run in the host task, and the  *)
(* blocking stop runs in a worker task of its own.  Every section under    *)
(* fr_esp_ble_lock is one action; whatever the code does between two such  *)
(* sections (a NimBLE call, a wait) is an action of its own, so the three  *)
(* tasks interleave between them as they do on two cores.                  *)
(***************************************************************************)
EXTENDS Naturals

CONSTANT MaxLife          \* bound: starts of the radio in one behaviour

ASSUME RadioAssumption == MaxLife \in Nat \ {0}

VARIABLES
  \* the fields of fr_esp_ble that the lifecycle reads
  radio, life, done, portFlag, created, running, shut, need,
  \* NimBLE and FreeRTOS: the port, the host task, its start-up, its queue
  port, host, enabled, barrier,
  \* the worker task and the evaluator's call
  worker, fg

flags == <<radio, life, done, portFlag, created, running, shut, need>>
stack == <<port, host, enabled, barrier>>
rvars == <<flags, stack, worker, fg>>

NoWorker == [at |-> "none", gen |-> 0, ok |-> TRUE]
Idle == [op |-> "none", at |-> "idle", gen |-> 0, stay |-> TRUE]

Init ==
  /\ radio = "OFF" /\ life = 0 /\ done = 0
  /\ portFlag = FALSE /\ created = FALSE /\ running = FALSE /\ shut = FALSE /\ need = FALSE
  /\ port = FALSE /\ host = "none" /\ enabled = FALSE /\ barrier = FALSE
  /\ worker = NoWorker /\ fg = Idle

At(p) == fg.at = p
Go(p) == fg' = [fg EXCEPT !.at = p]
Answer == fg' = Idle
Begin(op, at) == fg' = [op |-> op, at |-> at, gen |-> 0, stay |-> TRUE]
\* A cleanup the call does not wait for.
CleanAndLeave == fg' = [fg EXCEPT !.at = "clean", !.stay = FALSE]
\* The cleanup is under way: the call waits for it, or has its answer.
Cleaning == IF fg.stay THEN Go("wait") ELSE Answer

\* fr_esp_ble_mark_off_locked
MarkOff ==
  /\ radio' = "OFF" /\ done' = 0
  /\ portFlag' = FALSE /\ created' = FALSE /\ running' = FALSE /\ shut' = FALSE /\ need' = FALSE
  /\ UNCHANGED life

\* A stage of the lifecycle failed and something is left to clean up.
FailOwing == radio' = "FAILED" /\ need' = TRUE

-----------------------------------------------------------------------------
(* ble.on *)

\* fr_platform_ble_on looks at the state before it does anything.
OnCheck ==
  /\ \/ At("idle") /\ life < MaxLife
     \/ At("on.check")
  /\ \/ radio \in {"READY", "STARTING", "STOPPING"} /\ Answer
     \/ radio = "FAILED" /\ need /\ Begin("on", "clean")
     \/ (radio = "OFF" \/ (radio = "FAILED" /\ ~need))
        /\ Begin("on", "on.start")
  /\ UNCHANGED <<flags, stack, worker>>

OnStart ==
  /\ At("on.start")
  /\ life' = life + 1 /\ done' = 0 /\ radio' = "STARTING" /\ shut' = FALSE /\ need' = FALSE
  /\ fg' = [fg EXCEPT !.at = "on.init", !.gen = life + 1]
  /\ UNCHANGED <<portFlag, created, running, stack, worker>>

\* nimble_port_init
OnPortInit ==
  /\ At("on.init")
  /\ port' = TRUE /\ Go("on.register")
  /\ UNCHANGED <<flags, host, enabled, barrier, worker>>

OnPortInitFails ==
  /\ At("on.init")
  /\ IF fg.gen = life /\ radio = "STARTING"
     THEN radio' = "FAILED" /\ need' = FALSE
     ELSE UNCHANGED <<radio, need>>
  /\ Answer
  /\ UNCHANGED <<life, done, portFlag, created, running, shut, stack, worker>>

\* fr_esp_ble_gatt_register, then the port is this lifecycle's
OnRegister ==
  /\ At("on.register")
  /\ portFlag' = TRUE /\ Go("on.create")
  /\ UNCHANGED <<radio, life, done, created, running, shut, need, stack, worker>>

\* The table could not be registered: the port is released at once (no host
\* task exists that could run between the release and the lock).
OnRegisterFails ==
  /\ At("on.register")
  /\ \/ port' = FALSE /\ MarkOff
     \/ FailOwing /\ portFlag' = TRUE /\ UNCHANGED <<port, life, done, created, running, shut>>
  /\ Answer
  /\ UNCHANGED <<host, enabled, barrier, worker>>

\* xTaskCreatePinnedToCore; the new task may run before the flag is set
OnCreateHost ==
  /\ At("on.create")
  /\ host' = "created" /\ enabled' = FALSE /\ Go("on.created")
  /\ UNCHANGED <<flags, port, barrier, worker>>

OnHostCreated ==
  /\ At("on.created")
  /\ created' = TRUE /\ Go("on.wait")
  /\ UNCHANGED <<radio, life, done, portFlag, running, shut, need, stack, worker>>

OnCreateHostFails ==
  /\ At("on.create")
  /\ IF fg.gen = life /\ radio = "STARTING" THEN FailOwing ELSE UNCHANGED <<radio, need>>
  /\ Go("on.undo")
  /\ UNCHANGED <<life, done, portFlag, created, running, shut, stack, worker>>

\* The port never ran, so it is released here, without a worker task.
OnUndoPort ==
  /\ At("on.undo") /\ fg.gen = life
  /\ \/ port' = FALSE /\ MarkOff
     \/ FailOwing /\ UNCHANGED <<port, life, done, portFlag, created, running, shut>>
  /\ Answer
  /\ UNCHANGED <<host, enabled, barrier, worker>>

\* fr_esp_ble_wait_start, one look at the state
OnWait ==
  /\ At("on.wait")
  /\ \/ radio = "READY" /\ done = fg.gen /\ Answer
     \/ radio = "FAILED" /\ CleanAndLeave
     \/ radio = "READY" /\ done # fg.gen /\ CleanAndLeave
     \/ radio \in {"OFF", "STOPPING"} /\ Answer
  /\ UNCHANGED <<flags, stack, worker>>

\* An interrupt, or the start timeout, found the radio still starting.
OnGiveUp ==
  /\ At("on.wait") /\ radio = "STARTING"
  /\ Go("on.abort")
  /\ UNCHANGED <<flags, stack, worker>>

\* fr_esp_ble_abort_start looks again: the start may have ended meanwhile.
OnAbort ==
  /\ At("on.abort")
  /\ IF fg.gen = life /\ radio = "STARTING" THEN CleanAndLeave ELSE Go("on.wait")
  /\ UNCHANGED <<flags, stack, worker>>

-----------------------------------------------------------------------------
(* Cleanup *)

\* fr_platform_ble_off and fr_platform_ble_project_clear
Off ==
  /\ At("idle")
  /\ Begin("off", "clean")
  /\ UNCHANGED <<flags, stack, worker>>

\* fr_esp_ble_begin_cleanup: nothing is left, or a stop is already running.
BeginCleanup ==
  /\ At("clean")
  /\ \/ (radio = "OFF" \/ (~shut /\ ~portFlag /\ ~need)) /\ MarkOff
     \/ radio # "OFF" /\ shut /\ UNCHANGED flags
  /\ Cleaning
  /\ UNCHANGED <<stack, worker>>

\* Otherwise it takes the shutdown for itself.
TakeShutdown ==
  /\ At("clean")
  /\ radio # "OFF" /\ ~shut /\ (portFlag \/ need)
  /\ radio' = "STOPPING" /\ shut' = TRUE /\ need' = TRUE
  /\ fg' = [fg EXCEPT !.at = IF created THEN "queue" ELSE "spawn", !.gen = life]
  /\ UNCHANGED <<life, done, portFlag, created, running, stack, worker>>

\* With a host task, the stop waits its turn on the host's own queue.
QueueBarrier ==
  /\ At("queue")
  /\ barrier' = TRUE
  /\ Cleaning
  /\ UNCHANGED <<flags, port, host, enabled, worker>>

\* fr_esp_ble_start_cleanup_task, from the evaluator or from the host task
SpawnWorker(g) == worker.at = "none" /\ worker' = [at |-> "begin", gen |-> g, ok |-> TRUE] /\ UNCHANGED flags

\* Mutant: the shutdown is not given back.
SpawnFailsShut(g) ==
  UNCHANGED worker /\ IF g = life /\ shut
     THEN FailOwing /\ UNCHANGED <<life, done, portFlag, created, running, shut>>
     ELSE UNCHANGED flags

SpawnFails(g) ==
  /\ UNCHANGED worker
  /\ IF g = life /\ shut
     THEN FailOwing /\ shut' = FALSE /\ UNCHANGED <<life, done, portFlag, created, running>>
     ELSE UNCHANGED flags

StartWorker ==
  /\ At("spawn")
  /\ \/ SpawnWorker(fg.gen) /\ Cleaning
     \/ SpawnFails(fg.gen) /\ Answer
  /\ UNCHANGED stack

\* fr_esp_ble_wait_cleanup: done, failed, or given up (interrupt or timeout)
WaitCleanup ==
  /\ At("wait")
  /\ \/ (radio = "OFF" \/ (~shut /\ ~need)) /\ (IF fg.op = "on" THEN Go("on.check") ELSE Answer)
     \/ radio # "OFF" /\ ~shut /\ need /\ Answer
     \/ radio # "OFF" /\ shut /\ Answer
  /\ UNCHANGED <<flags, stack, worker>>

-----------------------------------------------------------------------------
(* The host task *)

HostEnter ==
  /\ host = "created"
  /\ host' = "running" /\ running' = TRUE
  /\ UNCHANGED <<radio, life, done, portFlag, created, shut, need, port, enabled, barrier, worker, fg>>

\* The controller answers and the start-up event is over.
HostEnabled ==
  /\ host = "running" /\ ~enabled
  /\ enabled' = TRUE
  /\ UNCHANGED <<flags, port, host, barrier, worker, fg>>

\* fr_esp_ble_on_sync; the address or a handle may turn out unusable
OnSync ==
  /\ host = "running" /\ enabled
  /\ radio = "STARTING" /\ ~shut
  /\ \/ radio' = "READY" /\ done' = life /\ UNCHANGED need
     \/ FailOwing /\ UNCHANGED done
  /\ UNCHANGED <<life, portFlag, created, running, shut, stack, worker, fg>>

\* fr_esp_ble_on_reset: the controller or the host lost its state
OnReset ==
  /\ host = "running"
  /\ ~shut /\ radio' = "FAILED" /\ need' = portFlag
  /\ UNCHANGED <<life, done, portFlag, created, running, shut, stack, worker, fg>>

\* Mutant: the stop does not wait for the start-up to end.
RunBarrierEarly ==
  /\ host = "running" /\ barrier /\ barrier' = FALSE
  /\ IF shut THEN SpawnWorker(life) \/ SpawnFails(life) ELSE UNCHANGED <<flags, worker>>
  /\ UNCHANGED <<port, host, enabled, fg>>

\* fr_esp_ble_cleanup_when_host_ready: until the start-up is over it queues
\* itself again, which changes nothing here
RunBarrier ==
  /\ host = "running" /\ barrier /\ (shut => enabled)
  /\ barrier' = FALSE
  /\ IF shut THEN SpawnWorker(life) \/ SpawnFails(life) ELSE UNCHANGED <<flags, worker>>
  /\ UNCHANGED <<port, host, enabled, fg>>

\* nimble_port_run returned: the task clears both flags and deletes itself.
HostLeave ==
  /\ host = "leaving"
  /\ host' = "none" /\ enabled' = FALSE /\ running' = FALSE /\ created' = FALSE
  /\ UNCHANGED <<radio, life, done, portFlag, shut, need, port, barrier, worker, fg>>

-----------------------------------------------------------------------------
(* The worker: fr_esp_ble_cleanup_task *)

WorkerBegin ==
  /\ worker.at = "begin"
  /\ worker' = [worker EXCEPT !.at = IF created THEN "stop" ELSE "deinit"]
  /\ UNCHANGED <<flags, stack, fg>>

\* nimble_port_stop
WorkerStop ==
  /\ worker.at = "stop"
  /\ \/ host' = "leaving" /\ worker' = [worker EXCEPT !.at = "drain"]
     \/ UNCHANGED host /\ worker' = [worker EXCEPT !.at = "finish", !.ok = FALSE]
  /\ UNCHANGED <<flags, port, enabled, barrier, fg>>

WorkerDrain ==
  /\ worker.at = "drain" /\ ~running
  /\ worker' = [worker EXCEPT !.at = "deinit"]
  /\ UNCHANGED <<flags, stack, fg>>

WorkerDeinit ==
  /\ worker.at = "deinit"
  /\ \/ port' = FALSE /\ worker' = [worker EXCEPT !.at = "finish"]
     \/ UNCHANGED port /\ worker' = [worker EXCEPT !.at = "finish.owing", !.ok = FALSE]
  /\ UNCHANGED <<flags, host, enabled, barrier, fg>>

\* Mutant: a stop that failed is reported as OFF.
WorkerFinishOff ==
  /\ worker.at \in {"finish", "finish.owing"} /\ worker' = NoWorker
  /\ IF worker.gen # life \/ ~shut THEN UNCHANGED flags ELSE MarkOff
  /\ UNCHANGED <<stack, fg>>

\* The last section: OFF, or FAILED with the rest still owned.
WorkerFinish ==
  /\ worker.at \in {"finish", "finish.owing"}
  /\ IF worker.gen # life \/ ~shut THEN UNCHANGED flags
     ELSE IF worker.ok THEN MarkOff
     ELSE /\ FailOwing /\ shut' = FALSE
          /\ IF worker.at = "finish.owing"
             THEN created' = FALSE /\ running' = FALSE ELSE UNCHANGED <<created, running>>
          /\ UNCHANGED <<life, done, portFlag>>
  /\ worker' = NoWorker
  /\ UNCHANGED <<stack, fg>>

-----------------------------------------------------------------------------
OnSteps == OnStart \/ OnPortInit \/ OnPortInitFails \/ OnRegister \/ OnRegisterFails
           \/ OnCreateHost \/ OnHostCreated \/ OnCreateHostFails \/ OnUndoPort
           \/ OnWait \/ OnGiveUp \/ OnAbort
CleanSteps == BeginCleanup \/ TakeShutdown \/ QueueBarrier \/ StartWorker \/ WaitCleanup
Worker == WorkerBegin \/ WorkerStop \/ WorkerDrain \/ WorkerDeinit \/ WorkerFinish

Next == \/ OnCheck \/ Off \/ OnSteps \/ CleanSteps
        \/ HostEnter \/ HostEnabled \/ OnSync \/ OnReset \/ RunBarrier \/ HostLeave
        \/ Worker

\* A call in progress goes on (its waits end by their own timeouts), FreeRTOS
\* schedules the tasks, and the controller answers the start-up command.
Fairness ==
  /\ WF_rvars(OnSteps \/ CleanSteps \/ (At("on.check") /\ OnCheck))
  /\ WF_rvars(HostEnter) /\ WF_rvars(HostEnabled) /\ WF_rvars(RunBarrier) /\ WF_rvars(HostLeave)
  /\ WF_rvars(Worker)

Spec == Init /\ [][Next]_rvars /\ Fairness
-----------------------------------------------------------------------------
(* Properties *)

\* Every field of the driver and of the environment has its type.
TypeOK ==
  /\ radio \in {"OFF", "STARTING", "READY", "FAILED", "STOPPING"}
  /\ life \in 0..MaxLife /\ done \in 0..MaxLife
  /\ {portFlag, created, running, shut, need, port, enabled, barrier} \subseteq BOOLEAN
  /\ host \in {"none", "created", "running", "leaving"}
  /\ worker.at \in {"none", "begin", "stop", "drain", "deinit", "finish", "finish.owing"}
  /\ fg.gen \in Nat /\ fg.stay \in BOOLEAN

\* A start never initialises NimBLE over a host, a port or a worker of an
\* earlier life, however that life was interrupted (ble.c:2625).
OneHost == At("on.init") => ~port /\ host = "none" /\ worker.at = "none" /\ ~barrier

\* OFF means that nothing of the host is left.
OffIsOff == radio = "OFF" => ~port /\ host = "none" /\ worker.at \in {"none", "finish"} /\ ~barrier

\* The port is never released under the host task.
DeinitSafe == worker.at = "deinit" \/ At("on.undo") => host = "none"

\* The host is never told to stop while its start-up waits for the
\* controller's answer (ble.c:2533).
StopsEnabled == worker.at = "stop" => host = "running" /\ enabled

\* READY is the state of the host that runs now.
ReadyIsCurrent == radio = "READY" => port /\ host = "running" /\ enabled /\ done = life /\ ~shut

\* Between calls the radio is not starting, and a port that exists is in use,
\* on its way down, or known to need a cleanup.
NothingStranded ==
  At("idle") => radio # "STARTING" /\ (port => radio = "READY" \/ shut \/ need)

\* However starts, stops, resets and interrupts meet, the driver's view of the
\* host is true and nothing is used after it is gone.
HostSafe == /\ TypeOK /\ OneHost /\ OffIsOff /\ DeinitSafe
            /\ StopsEnabled /\ ReadyIsCurrent /\ NothingStranded

\* Every shutdown ends, and so does every call.
ShutdownEnds == shut ~> ~shut
CallsEnd == fg.at # "idle" ~> fg.at = "idle"
RadioEnds == ShutdownEnds /\ CallsEnd

Power == INSTANCE BlePower WITH hosts <- IF port THEN 1 ELSE 0
\* The whole life keeps the promise of BlePower.
PowerKept == Power!BpSpec
=============================================================================
