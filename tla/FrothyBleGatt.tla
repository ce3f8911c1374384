---------------------------- MODULE FrothyBleGatt ----------------------------
(***************************************************************************)
(* The GATT server (a peer writes, subscribes and acknowledges) and the    *)
(* GATT client (the program finds, reads, subscribes and is notified) of   *)
(* the ESP32 boards, one attribute each, on the connection of              *)
(* FrothyBleLink; and the whole Bluetooth driver put together: what a      *)
(* reset, a shutdown and a project clear do to all of it.                  *)
(***************************************************************************)
EXTENDS FrothyBleLink

CONSTANTS
  MaxHeard,     \* bound: reports, writes, notifications and requests numbered
  DataQueue     \* FR_BLE_GATT_WRITE_QUEUE_COUNT and .._NOTIFICATION_QUEUE_COUNT

ASSUME GattAssumption == MaxHeard \in Nat /\ DataQueue \in Nat \ {0}

gvars == <<rvars, lvars>>

KeepGap == UNCHANGED <<roles, scan, adv, conn, notices, cb>>
Numbered == heard < MaxHeard /\ heard' = heard + 1

-----------------------------------------------------------------------------
(* Server *)

\* fr_esp_ble_gatt_access, a write: it is refused before the program accepted
\* the connection and when the queue is full, and a refusal changes nothing.
RemoteWrite ==
  /\ Callback /\ Has("server") /\ LinkUp /\ Numbered
  /\ conn.h /\ conn.st = "LIVE" /\ conn.ref /\ conn.role = "peripheral" /\ Len(srv.q) < DataQueue
  /\ srv' = [srv EXCEPT !.q = Append(@, [gen |-> conn.gen, link |-> nim.link.id, id |-> heard + 1, to |-> 0])]
  /\ UNCHANGED <<cli, scan, adv, conn, notices, cb, nim>>

\* BLE_GAP_EVENT_SUBSCRIBE
RemoteSubscribe ==
  /\ Callback /\ Has("server") /\ LinkUp /\ Current(nim.link.cb) /\ conn.role = "peripheral"
  /\ \E m \in {"none", "notify", "indicate"} :
       srv' = [srv EXCEPT !.sub = IF m = "none" THEN ServerOff.sub ELSE [gen |-> conn.gen, mode |-> m]]
  /\ UNCHANGED <<cli, scan, adv, conn, notices, cb, nim, heard>>

\* Mutant: any connection will do.
StaleIfFree(e) == ~conn.ref \/ conn.st = "FREE"

\* A queue entry is handed out if it came over the connection of now.
Stale(e) == e.gen # conn.gen \/ ~conn.ref \/ conn.st = "FREE"

\* Mutant: the newest entry first.
NextOfLast(q) ==
  LET fresh == {i \in DOMAIN q : ~Stale(q[i])} IN
  IF fresh = {} THEN [cur |-> NoWrite, q |-> <<>>]
  ELSE [cur |-> [q[Max(fresh)] EXCEPT !.to = conn.link], q |-> SubSeq(q, 1, Max(fresh) - 1)]

NextOf(q) ==
  LET fresh == {i \in DOMAIN q : ~Stale(q[i])} IN
  IF fresh = {} THEN [cur |-> NoWrite, q |-> <<>>]
  ELSE LET i == Min(fresh) IN
       [cur |-> [q[i] EXCEPT !.to = conn.link], q |-> SubSeq(q, i + 1, Len(q))]

WriteNext ==
  /\ Calls("server") /\ (srv.q # <<>> \/ srv.cur # NoWrite)
  /\ srv' = [srv EXCEPT !.q = NextOf(srv.q).q, !.cur = NextOf(srv.q).cur]
  /\ LeaveRadio /\ KeepGap /\ UNCHANGED <<fg, cli, nim, heard>>

\* fr_esp_ble_gatt_send_check_locked, for an indication
MayIndicate ==
  /\ conn.ref /\ conn.st = "LIVE" /\ conn.role = "peripheral" /\ radio = "READY"
  /\ srv.sub = [gen |-> conn.gen, mode |-> "indicate"]

\* The packet is allocated outside the lock, so everything is checked twice.
Indicate ==
  /\ Calls("server") /\ ~srv.ind.pending /\ MayIndicate /\ heard < MaxHeard
  /\ Do("indicate", "ind.arm", conn.gen)
  /\ LeaveRadio /\ KeepGap /\ UNCHANGED <<srv, cli, nim, heard>>

IndicateArm ==
  /\ At("ind.arm")
  /\ IF ~srv.ind.pending /\ MayIndicate
     THEN /\ srv' = [srv EXCEPT !.ind = [pending |-> TRUE, gen |-> conn.gen, id |-> heard + 1, answer |-> 0]]
          /\ heard' = heard + 1
          /\ fg' = [fg EXCEPT !.at = "ind.call", !.gen = conn.gen]
     ELSE Answer /\ UNCHANGED <<srv, heard>>
  /\ LeaveRadio /\ KeepGap /\ UNCHANGED <<cli, nim>>

IndicateCall ==
  /\ At("ind.call")
  /\ \/ LinkUp /\ nim.ind = 0 /\ nim' = [nim EXCEPT !.ind = srv.ind.id] /\ Go("ind.wait") /\ UNCHANGED srv
     \/ /\ srv' = IF srv.ind.gen = fg.gen THEN [srv EXCEPT !.ind.pending = FALSE] ELSE srv
        /\ Answer /\ UNCHANGED nim
  /\ LeaveRadio /\ KeepGap /\ UNCHANGED <<cli, heard>>

\* The wait ends with the answer, an interrupt or the timeout; the last two
\* leave the indication pending.
IndicateWait ==
  /\ At("ind.wait") /\ Answer
  /\ LeaveRadio /\ UNCHANGED lvars

\* BLE_GAP_EVENT_NOTIFY_TX with the peer's acknowledgement, or its timeout
Acknowledged ==
  /\ Callback /\ nim.ind # 0
  /\ nim' = [nim EXCEPT !.ind = 0]
  /\ srv' = IF Current(nim.link.cb) /\ conn.role = "peripheral" /\ srv.ind.pending /\ srv.ind.gen = conn.gen
            THEN [srv EXCEPT !.ind.pending = FALSE, !.ind.answer = nim.ind] ELSE srv
  /\ UNCHANGED <<cli, scan, adv, conn, notices, cb, heard>>

-----------------------------------------------------------------------------
(* Client *)

\* fr_esp_ble_gatt_client_check_locked
MayAsk ==
  /\ radio = "READY" /\ conn.ref /\ conn.st = "LIVE" /\ conn.role = "central"
  /\ ~conn.mtu /\ ~cli.proc.pending

Ask(stage, mode) ==
  /\ Calls("client") /\ MayAsk /\ heard < MaxHeard
  /\ cli' = [cli EXCEPT !.proc = [NoClientProc EXCEPT !.pending = TRUE, !.stage = stage, !.gen = conn.gen,
                                                      !.id = heard + 1, !.mode = mode]]
  /\ heard' = heard + 1
  /\ Do("client", "cli.call", conn.gen)
  /\ LeaveRadio /\ KeepGap /\ UNCHANGED <<srv, nim>>

Find == Ask("service", "none")
Read == cli.entry.valid /\ Ask("read", "none")
Write == cli.entry.valid /\ Ask("write", "none")
Subscribe == cli.entry.valid /\ \E m \in {"none", "notify"} : Ask("subscribe", m)

\* fr_esp_ble_gatt_client_callback_current_locked
Mine(g, stage) ==
  cli.proc.pending /\ cli.proc.gen = g /\ cli.proc.stage = stage /\ g = conn.gen

Finished(answer) == [cli EXCEPT !.proc.pending = FALSE, !.proc.answer = answer]
\* fr_esp_ble_gatt_client_finish_find_locked: a known handle keeps its mode.
Cached(answer) ==
  [Finished(answer) EXCEPT !.entry = [valid |-> TRUE, gen |-> conn.gen, mode |-> cli.entry.mode]]

\* Mutant: a request NimBLE refuses is not ended.
ClientCallPends ==
  /\ At("cli.call") /\ Go("cli.wait")
  /\ \/ /\ LinkUp /\ nim.proc = NoProc
        /\ nim' = [nim EXCEPT !.proc = [gen |-> fg.gen, stage |-> cli.proc.stage, id |-> cli.proc.id]]
     \/ UNCHANGED nim
  /\ LeaveRadio /\ KeepGap /\ UNCHANGED <<srv, cli, heard>>

\* NimBLE takes the request, or fr_esp_ble_gatt_client_launch_failed ends it.
ClientCall ==
  /\ At("cli.call") /\ Go("cli.wait")
  /\ \/ /\ LinkUp /\ nim.proc = NoProc
        /\ nim' = [nim EXCEPT !.proc = [gen |-> fg.gen, stage |-> cli.proc.stage, id |-> cli.proc.id]]
        /\ UNCHANGED cli
     \/ cli' = (IF Mine(fg.gen, cli.proc.stage) THEN Finished(0) ELSE cli) /\ UNCHANGED nim
  /\ LeaveRadio /\ KeepGap /\ UNCHANGED <<srv, heard>>

ClientIs == cli.proc.gen = fg.gen
StageOver == cli.proc.complete /\ cli.proc.stage \in {"service", "characteristic"}

\* One look of fr_esp_ble_gatt_client_wait
ClientWait ==
  /\ At("cli.wait")
  /\ \/ (~ClientIs \/ ~cli.proc.pending) /\ Answer
     \/ ClientIs /\ cli.proc.pending /\ StageOver /\ Go("cli.next")
     \/ ClientIs /\ cli.proc.pending /\ ~StageOver /\ Go("cli.abandon")
  /\ LeaveRadio /\ UNCHANGED lvars

\* Interrupted or out of time: the request stays pending and is abandoned.
ClientAbandon ==
  /\ At("cli.abandon") /\ Answer
  /\ cli' = IF cli.proc.pending THEN [cli EXCEPT !.proc.abandoned = TRUE] ELSE cli
  /\ LeaveRadio /\ KeepGap /\ UNCHANGED <<srv, nim, heard>>

\* A find goes from the service to the characteristic to its descriptor,
\* which only a characteristic that notifies or indicates needs.
ClientNext ==
  /\ At("cli.next")
  /\ IF ~Mine(fg.gen, cli.proc.stage) THEN Go("cli.wait") /\ UNCHANGED cli
     ELSE \/ /\ cli.proc.stage = "service" /\ Go("cli.call")
             /\ cli' = [cli EXCEPT !.proc.stage = "characteristic", !.proc.complete = FALSE]
          \/ /\ cli.proc.stage = "characteristic" /\ Go("cli.call")
             /\ cli' = [cli EXCEPT !.proc.stage = "descriptor", !.proc.complete = FALSE]
          \/ /\ cli.proc.stage = "characteristic" /\ Go("cli.wait")
             /\ cli' = Cached(cli.proc.id)
  /\ LeaveRadio /\ KeepGap /\ UNCHANGED <<srv, nim, heard>>

\* The terminal callback of a request, of any stage
Answered(ok) ==
  IF ~Mine(nim.proc.gen, nim.proc.stage) THEN cli
  ELSE IF ~ok THEN Finished(0)
  ELSE CASE nim.proc.stage \in {"service", "characteristic"} ->
              IF cli.proc.abandoned THEN Finished(0) ELSE [cli EXCEPT !.proc.complete = TRUE]
         [] nim.proc.stage = "descriptor" ->
              IF cli.proc.abandoned THEN Finished(0) ELSE Cached(nim.proc.id)
         [] nim.proc.stage \in {"read", "write"} -> Finished(nim.proc.id)
         [] nim.proc.stage = "subscribe" ->
              IF cli.entry.valid THEN [Finished(nim.proc.id) EXCEPT !.entry.mode = cli.proc.mode]
              ELSE Finished(0)

ClientAnswered ==
  /\ Callback /\ nim.proc # NoProc
  /\ nim' = [nim EXCEPT !.proc = NoProc]
  /\ \E ok \in BOOLEAN : cli' = Answered(ok)
  /\ UNCHANGED <<srv, scan, adv, conn, notices, cb, heard>>

\* fr_esp_ble_gatt_client_receive_notification: only what was subscribed to;
\* anything else changes nothing.
Notified ==
  /\ Callback /\ Has("client") /\ LinkUp /\ Numbered
  /\ Current(nim.link.cb) /\ conn.st = "LIVE" /\ conn.role = "central" /\ conn.ref
  /\ cli.entry.valid /\ cli.entry.mode = "notify" /\ Len(cli.q) < DataQueue
  /\ cli' = [cli EXCEPT !.q = Append(@, [gen |-> conn.gen, link |-> nim.link.id, id |-> heard + 1, to |-> 0])]
  /\ UNCHANGED <<srv, scan, adv, conn, notices, cb, nim>>

NotificationNext ==
  /\ Calls("client") /\ (cli.q # <<>> \/ cli.cur # NoWrite)
  /\ cli' = [cli EXCEPT !.q = NextOf(cli.q).q, !.cur = NextOf(cli.q).cur]
  /\ LeaveRadio /\ KeepGap /\ UNCHANGED <<fg, srv, nim, heard>>

-----------------------------------------------------------------------------
(* The radio under all of it *)

NimGone == nim' = [nim EXCEPT !.scan = 0, !.adv = 0, !.conn = 0, !.link = NoLink,
                              !.mtu = FALSE, !.ind = 0, !.proc = NoProc]

\* fr_esp_ble_on_reset: the stack has forgotten everything.
Reset ==
  /\ host = "running" /\ cb = NoCb
  /\ IF shut THEN UNCHANGED rvars ELSE OnReset
  /\ AbandonScan /\ AbandonAdv /\ NimGone
  /\ \/ conn.st = "LIVE"
        /\ conn' = [conn EXCEPT !.st = "DISCONNECTED", !.h = FALSE, !.par = FALSE, !.mtu = FALSE]
     \/ /\ conn.st \in {"PENDING", "CLOSING"} \/ (conn.st = "CONNECTING" /\ conn.role = "peripheral")
        /\ conn' = FreeConn(conn.gen)
     \/ conn.st = "CONNECTING" /\ conn.role = "central" /\ conn' = [conn EXCEPT !.done = TRUE]
     \/ conn.st \in {"DISCONNECTED", "FREE"} /\ UNCHANGED conn
  /\ srv' = ServerRadioOff
  /\ cli' = IF conn' = conn \/ conn.st = "CONNECTING" THEN cli ELSE ClientClosed(conn.gen)
  /\ UNCHANGED <<roles, notices, cb, heard>>

\* A shutdown abandons the scan and the advertisement; the links die with
\* the host task, and OFF leaves no GATT state.
Shutdown == TakeShutdown /\ AbandonScan /\ AbandonAdv /\ UNCHANGED <<roles, nim, cb, heard>> /\ KeepConn
HostGone == HostLeave /\ NimGone /\ UNCHANGED <<roles, bleVars, cb, heard>>
MayBeOff ==
  /\ OnRegisterFails \/ OnUndoPort \/ BeginCleanup \/ WorkerFinish
  /\ IF radio' = "OFF" THEN srv' = ServerRadioOff /\ cli' = ClientClear ELSE UNCHANGED <<srv, cli>>
  /\ UNCHANGED <<roles, scan, adv, conn, notices, nim, cb, heard>>

\* fr_platform_ble_off forgets everything under one lock, then cleans up.
OffAll ==
  /\ Off /\ AbandonScan /\ AbandonAdv
  /\ conn' = FreeConn(conn.gen + (IF conn.st = "FREE" THEN 0 ELSE 1)) /\ notices' = <<>>
  /\ srv' = ServerRadioOff /\ cli' = ClientClear
  /\ UNCHANGED <<roles, nim, cb, heard>>

\* fr_platform_ble_project_clear does the same in five locked sections.
ProjectClear ==
  /\ At("idle") /\ radio # "OFF" /\ Do("clear", "clear.adv", 0) /\ AbandonScan
  /\ LeaveRadio /\ UNCHANGED <<roles, adv, nim, cb, heard>> /\ KeepConn
ClearAdvertising ==
  /\ At("clear.adv") /\ Go("clear.conn") /\ AbandonAdv
  /\ LeaveRadio /\ UNCHANGED <<roles, scan, nim, cb, heard>> /\ KeepConn
ClearLink ==
  /\ At("clear.conn") /\ Go("clear.server") /\ ClearConnections
  /\ LeaveRadio /\ UNCHANGED <<roles, scan, adv, nim, cb, heard>>
ClearServer ==
  /\ At("clear.server") /\ Go("clear.client") /\ srv' = ServerRadioOff
  /\ LeaveRadio /\ KeepGap /\ UNCHANGED <<cli, nim, heard>>
ClearClient ==
  /\ At("clear.client") /\ Go("clean") /\ cli' = ClientClear
  /\ LeaveRadio /\ KeepGap /\ UNCHANGED <<srv, nim, heard>>

\* NimBLE's stop ends the connections, and their events come, before the
\* host leaves.
StopHost == WorkerStop /\ (host' = "leaving" => ~LinkUp /\ nim.conn = 0)

RadioSteps ==
  /\ \/ OnCheck \/ OnStart \/ OnPortInit \/ OnPortInitFails \/ OnRegister \/ OnCreateHost
     \/ OnHostCreated \/ OnCreateHostFails \/ OnWait \/ OnGiveUp \/ OnAbort
     \/ QueueBarrier \/ StartWorker \/ WaitCleanup
     \/ WorkerBegin \/ WorkerDrain \/ WorkerDeinit
     \/ cb = NoCb /\ (HostEnter \/ HostEnabled \/ OnSync \/ RunBarrier \/ StopHost)
  /\ UNCHANGED lvars

ServerSteps == RemoteWrite \/ RemoteSubscribe \/ WriteNext \/ Indicate \/ IndicateArm \/ IndicateCall
               \/ IndicateWait \/ Acknowledged
ClientSteps == Find \/ Read \/ Write \/ Subscribe \/ ClientCall \/ ClientWait \/ ClientAbandon \/ ClientNext
               \/ ClientAnswered \/ Notified \/ NotificationNext
ClearSteps == OffAll \/ ProjectClear \/ ClearAdvertising \/ ClearLink \/ ClearServer \/ ClearClient

GattInit == Init /\ LinkInit
GattNext == \/ RadioSteps \/ Reset \/ Shutdown \/ HostGone \/ MayBeOff \/ ClearSteps
            \/ ScanSteps \/ AdvSteps \/ ConnSteps \/ ServerSteps \/ ClientSteps

GattSpec == GattInit /\ [][GattNext]_gvars

-----------------------------------------------------------------------------
(* Properties *)

\* Every part of the driver has its shape, and the queues keep their bounds.
LinkTypeOK ==
  /\ TypeOK /\ roles \in Builds
  /\ scan.st \in {"IDLE", "ACTIVE", "STOPPING"} /\ Len(scan.q) <= ScanQueue
  /\ adv.st \in {"IDLE", "ACTIVE", "STOPPING"}
  /\ conn.st \in {"FREE", "CONNECTING", "PENDING", "LIVE", "CLOSING", "DISCONNECTED"}
  /\ conn.role \in {"none", "central", "peripheral"}
  /\ Len(notices) <= NoticeQueue /\ Len(srv.q) <= DataQueue /\ Len(cli.q) <= DataQueue

\* The driver's view is settled: the radio runs, and neither a call nor a
\* callback stands between two locked sections.
Settled == radio = "READY" /\ At("idle") /\ cb = NoCb

\* The controller scans or advertises exactly when the driver says so (a stop
\* NimBLE refused leaves the driver saying STOPPING), and never both.
RadioUse ==
  Settled => /\ scan.st = "IDLE" => nim.scan = 0
             /\ scan.st = "ACTIVE" => nim.scan = scan.gen
             /\ adv.st = "IDLE" => nim.adv = 0
             /\ adv.st = "ACTIVE" => nim.adv = adv.gen
             /\ nim.scan = 0 \/ nim.adv = 0

\* No link stays up that nobody owns: it is the connection's, or it is being
\* terminated, or NimBLE refused to terminate it.
NoOrphanLink ==
  Settled /\ LinkUp /\ nim.link.term = "no" =>
    conn.h /\ nim.link.cb = conn.gen /\ conn.link = nim.link.id

\* A connection the program may use still has its link.
LiveHasLink ==
  Settled /\ conn.st \in {"PENDING", "LIVE"} =>
    LinkUp /\ nim.link.cb = conn.gen /\ conn.link = nim.link.id

\* The one connection slot is never lost: someone can still free it.  The
\* program closes what it has a handle for, it is told of what is pending,
\* and a closing connection has an event to wait for.
SlotHasOwner ==
  Settled => CASE conn.st \in {"LIVE", "DISCONNECTED"} -> conn.ref
               [] conn.st = "PENDING" -> Contains(notices, conn.gen)
               [] conn.st = "CLOSING" -> LinkUp \/ nim.conn = conn.gen
               [] conn.st = "CONNECTING" -> FALSE
               [] OTHER -> TRUE

\* Whatever completes between two locked sections, the driver and the
\* controller agree on who scans, advertises and is linked, and the one
\* connection slot can always be freed.
LinkAgreed == LinkTypeOK /\ RadioUse /\ NoOrphanLink /\ LiveHasLink /\ SlotHasOwner

\* Subscriptions and cached handles are those of the connection of now.
GattIsOfConnection ==
  /\ srv.sub.mode # "none" => srv.sub.gen = conn.gen /\ conn.h
  /\ cli.entry.valid => cli.entry.gen = conn.gen /\ conn.h

\* What the program takes from a queue came over the connection whose handle
\* it is given, whatever was disconnected, freed and accepted in between.
DataIsOfConnection == srv.cur.to = srv.cur.link /\ cli.cur.to = cli.cur.link

\* A request, and an indication, ends with its own answer.
AnswersAreOwn ==
  /\ srv.ind.answer \in {0, srv.ind.id}
  /\ cli.proc.answer \in {0, cli.proc.id}

\* A later call is refused as busy only while NimBLE still owes the answer.
\* The exception is a find that is interrupted after its wait last looked and
\* before it takes the lock again, in which time a stage completed: nobody
\* ends that request before the connection does (ble.c:1633).
BusyIsOwed ==
  Settled => /\ srv.ind.pending => nim.ind = srv.ind.id
             /\ cli.proc.pending => nim.proc.id = cli.proc.id \/ (cli.proc.abandoned /\ StageOver)
             /\ conn.mtu => nim.mtu

\* Clearing the project leaves no connection, subscription or queued write
\* behind, even when a central connects between two of its sections.
ClearIsComplete ==
  At("clear.client") => conn.st = "FREE" /\ notices = <<>> /\ srv.sub = ServerOff.sub /\ srv.q = <<>>

\* Nothing of a connection that is gone reaches the one after it.
NothingCrosses == GattIsOfConnection /\ DataIsOfConnection /\ AnswersAreOwn /\ ClearIsComplete

\* Numbers only grow: what a queue hands out was heard after what it handed
\* out before.
InOrder ==
  [][/\ scan'.cur # 0 /\ scan.cur # 0 => scan'.cur >= scan.cur
     /\ srv'.cur.id # 0 /\ srv.cur.id # 0 => srv'.cur.id >= srv.cur.id
     /\ cli'.cur.id # 0 /\ cli.cur.id # 0 => cli'.cur.id >= cli.cur.id]_gvars
=============================================================================
