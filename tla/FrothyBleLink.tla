---------------------------- MODULE FrothyBleLink ----------------------------
(***************************************************************************)
(* Scanning, advertising and the one connection of the ESP32 boards        *)
(* (src/targets/esp-idf/ble.c), on top of the radio's life in              *)
(* FrothyBleRadio.  The evaluator's calls leave fr_esp_ble_lock to call    *)
(* NimBLE and take it again; NimBLE's callbacks run in between, in the     *)
(* host task.  What callbacks and calls check before they touch the        *)
(* connection are generations, so those are kept as numbers here.          *)
(***************************************************************************)
EXTENDS FrothyBleRadio, Sequences, SequencesExt

CONSTANTS
  Builds,        \* the role sets the boards are built with
  MaxGen,        \* bound: generations of a scan, an advertisement, a connection
  MaxLinks,      \* bound: links the controller establishes in one behaviour
  MaxReports,    \* bound: advertisements heard in one behaviour
  ScanQueue,     \* FR_BLE_SCAN_QUEUE_COUNT
  NoticeQueue    \* FR_BLE_CONNECTION_NOTICE_COUNT

ASSUME LinkAssumption ==
  /\ Builds \subseteq SUBSET {"observer", "broadcaster", "central", "peripheral", "server", "client"}
  /\ {MaxGen, MaxLinks, ScanQueue, NoticeQueue} \subseteq Nat \ {0} /\ MaxReports \in Nat

VARIABLES
  roles,     \* FR_BLE_ENABLE_*: fixed for one build
  scan, adv, conn, notices,
  srv, cli,  \* the GATT server and client: FrothyBleGatt steps them
  nim,       \* NimBLE and the controller
  cb,        \* a callback between two of its locked sections
  heard      \* reports heard so far

bleVars == <<scan, adv, conn, notices, srv, cli>>
lvars == <<roles, bleVars, nim, cb, heard>>

FreeConn(g) == [st |-> "FREE", role |-> "none", gen |-> g, h |-> FALSE, ref |-> FALSE,
                done |-> FALSE, mtu |-> FALSE, par |-> FALSE, link |-> 0]
Reserved(role, ref) ==
  [FreeConn(conn.gen + 1) EXCEPT !.st = "CONNECTING", !.role = role, !.ref = ref]
NoLink == [id |-> 0, cb |-> 0, term |-> "no"]
NoProc == [gen |-> 0, stage |-> "none", id |-> 0]
NoCb == [kind |-> "none", arg |-> 0]

NoInd == [pending |-> FALSE, gen |-> 0, id |-> 0, answer |-> 0]
NoWrite == [gen |-> 0, link |-> 0, id |-> 0, to |-> 0]
ServerOff == [sub |-> [gen |-> 0, mode |-> "none"], q |-> <<>>, cur |-> NoWrite, ind |-> NoInd]
NoClientProc == [pending |-> FALSE, abandoned |-> FALSE, complete |-> FALSE, stage |-> "none",
                 gen |-> 0, id |-> 0, mode |-> "none", answer |-> 0]
ClientClear == [entry |-> [valid |-> FALSE, gen |-> 0, mode |-> "none"],
                q |-> <<>>, cur |-> NoWrite, proc |-> NoClientProc]

LinkInit ==
  /\ roles \in Builds
  /\ scan = [st |-> "IDLE", gen |-> 0, q |-> <<>>, cur |-> 0]
  /\ adv = [st |-> "IDLE", gen |-> 0]
  /\ conn = FreeConn(0) /\ notices = <<>>
  /\ srv = ServerOff /\ cli = ClientClear
  /\ nim = [scan |-> 0, adv |-> 0, conn |-> 0, link |-> NoLink, links |-> 0,
            mtu |-> FALSE, ind |-> 0, proc |-> NoProc]
  /\ cb = NoCb /\ heard = 0

Has(r) == r \in roles
LinkUp == nim.link.id # 0
Do(op, at, g) == fg' = [op |-> op, at |-> at, gen |-> g, stay |-> TRUE]
\* A call that only reads or that is refused changes nothing.
Calls(r) == At("idle") /\ Has(r)
LeaveRadio == UNCHANGED <<flags, stack, worker>>
Callback == cb = NoCb /\ host = "running" /\ UNCHANGED <<flags, stack, worker, fg, roles>>

-----------------------------------------------------------------------------
(* What the end of a connection does to GATT: the subscriptions and the     *)
(* handle cache go, an indication or a procedure of this connection ends.   *)

ServerClosed(g) ==
  [srv EXCEPT !.sub = ServerOff.sub,
              !.ind = IF @.pending /\ @.gen = g THEN [@ EXCEPT !.pending = FALSE] ELSE @]
ClientClosed(g) ==
  [cli EXCEPT !.entry = ClientClear.entry,
              !.proc = IF @.pending /\ @.gen = g THEN [@ EXCEPT !.pending = FALSE] ELSE @]
\* fr_esp_ble_gatt_radio_off_locked
ServerRadioOff ==
  [srv EXCEPT !.sub = ServerOff.sub, !.q = <<>>, !.cur = NoWrite, !.ind.pending = FALSE]

\* fr_esp_ble_connection_free_locked
Free == conn' = FreeConn(conn.gen) /\ srv' = ServerClosed(conn.gen) /\ cli' = ClientClosed(conn.gen)

\* fr_esp_ble_connection_mark_disconnected_locked
MarkDisconnected ==
  /\ conn' = [conn EXCEPT !.st = "DISCONNECTED", !.h = FALSE, !.par = FALSE, !.mtu = FALSE]
  /\ srv' = ServerClosed(conn.gen) /\ cli' = ClientClosed(conn.gen)

\* fr_esp_ble_connections_clear_locked
ClearConnections ==
  LET g == conn.gen + (IF conn.st = "FREE" THEN 0 ELSE 1) IN
  conn' = FreeConn(g) /\ notices' = <<>> /\ srv' = ServerClosed(g) /\ cli' = ClientClosed(g)

Current(g) == g = conn.gen /\ conn.st # "FREE" /\ conn.h
KeepConn == UNCHANGED <<conn, notices, srv, cli>>

AbandonScan ==
  scan' = [st |-> "IDLE", q |-> <<>>, cur |-> 0,
           gen |-> scan.gen + (IF scan.st # "IDLE" \/ scan.q # <<>> \/ scan.cur # 0 THEN 1 ELSE 0)]
AbandonAdv == adv' = [st |-> "IDLE", gen |-> adv.gen + (IF adv.st # "IDLE" THEN 1 ELSE 0)]

\* Notices of connections that are gone are dropped from the front.
NoticeIsCurrent(g) == g = conn.gen /\ conn.st = "PENDING"
Found(s) ==
  LET here == {i \in DOMAIN s : NoticeIsCurrent(s[i])} IN
  IF here = {} THEN <<>> ELSE SubSeq(s, Min(here), Len(s))

-----------------------------------------------------------------------------
(* Scanning *)

Quiet == radio = "READY" /\ scan.st = "IDLE" /\ adv.st = "IDLE"

ScanStart ==
  /\ Calls("observer") /\ Quiet /\ scan.gen < MaxGen
  /\ scan' = [st |-> "ACTIVE", gen |-> scan.gen + 1, q |-> <<>>, cur |-> 0]
  /\ Do("scan", "scan.call", scan.gen + 1)
  /\ LeaveRadio /\ UNCHANGED <<roles, adv, nim, cb, heard>> /\ KeepConn

\* ble_gap_disc, and what follows when it fails
ScanCall ==
  /\ At("scan.call")
  /\ \/ host = "running" /\ enabled /\ nim.scan = 0
        /\ nim' = [nim EXCEPT !.scan = fg.gen] /\ Go("scan.check") /\ UNCHANGED scan
     \/ /\ scan' = IF fg.gen = scan.gen /\ scan.st = "ACTIVE" THEN [scan EXCEPT !.st = "IDLE"] ELSE scan
        /\ Answer /\ UNCHANGED nim
  /\ LeaveRadio /\ UNCHANGED <<roles, adv, cb, heard>> /\ KeepConn

\* A completion or a reset may have come first; then the scan is cancelled.
ScanCheck ==
  /\ At("scan.check") /\ Answer
  /\ nim' = IF fg.gen = scan.gen /\ scan.st = "ACTIVE" /\ radio = "READY" THEN nim
            ELSE [nim EXCEPT !.scan = 0]
  /\ LeaveRadio /\ UNCHANGED <<roles, scan, adv, cb, heard>> /\ KeepConn

ScanStop ==
  /\ Calls("observer") /\ (scan.st # "IDLE" \/ scan.cur # 0)
  /\ IF scan.st = "IDLE" THEN scan' = [scan EXCEPT !.cur = 0] /\ Answer
     ELSE scan' = [scan EXCEPT !.cur = 0, !.st = "STOPPING"] /\ Do("scan", "scan.cancel", scan.gen)
  /\ LeaveRadio /\ UNCHANGED <<roles, adv, nim, cb, heard>> /\ KeepConn

ScanCancel ==
  /\ At("scan.cancel")
  /\ \/ nim' = [nim EXCEPT !.scan = 0] /\ Go("scan.stopped")
     \/ nim.scan # 0 /\ Answer /\ UNCHANGED nim
  /\ LeaveRadio /\ UNCHANGED <<roles, scan, adv, cb, heard>> /\ KeepConn

ScanStopped ==
  /\ At("scan.stopped") /\ Answer
  /\ scan' = IF fg.gen = scan.gen /\ radio = "READY" THEN [scan EXCEPT !.st = "IDLE"] ELSE scan
  /\ LeaveRadio /\ UNCHANGED <<roles, adv, nim, cb, heard>> /\ KeepConn

ScanNext ==
  /\ Calls("observer") /\ (scan.q # <<>> \/ scan.cur # 0)
  /\ scan' = IF scan.q = <<>> THEN [scan EXCEPT !.cur = 0]
             ELSE [scan EXCEPT !.cur = Head(scan.q), !.q = Tail(@)]
  /\ LeaveRadio /\ UNCHANGED <<fg, roles, adv, nim, cb, heard>> /\ KeepConn

\* fr_esp_ble_receive_report takes the lock twice; in between it copies.
ReportHeard ==
  /\ Callback /\ nim.scan # 0 /\ heard < MaxReports
  /\ heard' = heard + 1
  /\ cb' = IF scan.st = "ACTIVE" /\ nim.scan = scan.gen THEN [kind |-> "report", arg |-> nim.scan] ELSE NoCb
  /\ UNCHANGED <<scan, adv, nim>> /\ KeepConn

\* A full queue drops its oldest report.
ReportQueued ==
  /\ cb.kind = "report" /\ cb' = NoCb
  /\ scan' = IF scan.st # "ACTIVE" \/ cb.arg # scan.gen THEN scan
             ELSE [scan EXCEPT !.q = Append(IF Len(@) = ScanQueue THEN Tail(@) ELSE @, heard)]
  /\ LeaveRadio /\ UNCHANGED <<fg, roles, adv, nim, heard>> /\ KeepConn

\* Malformed, or weaker than the filter allows
ReportFiltered ==
  /\ cb.kind = "report" /\ cb' = NoCb
  /\ LeaveRadio /\ UNCHANGED <<fg, roles, scan, adv, nim, heard>> /\ KeepConn

DiscComplete ==
  /\ Callback /\ nim.scan # 0
  /\ nim' = [nim EXCEPT !.scan = 0]
  /\ scan' = IF nim.scan = scan.gen THEN [scan EXCEPT !.st = "IDLE"] ELSE scan
  /\ UNCHANGED <<adv, cb, heard>> /\ KeepConn

-----------------------------------------------------------------------------
(* Advertising *)

AdvertiseStart ==
  /\ Calls("broadcaster") /\ Quiet /\ adv.gen < MaxGen
  /\ adv' = [st |-> "ACTIVE", gen |-> adv.gen + 1]
  /\ Do("adv", "adv.call", adv.gen + 1)
  /\ LeaveRadio /\ UNCHANGED <<roles, scan, nim, cb, heard>> /\ KeepConn

AdvertiseCall ==
  /\ At("adv.call")
  /\ \/ host = "running" /\ enabled /\ nim.adv = 0
        /\ nim' = [nim EXCEPT !.adv = fg.gen] /\ Go("adv.check") /\ UNCHANGED adv
     \/ /\ adv' = IF fg.gen = adv.gen THEN [adv EXCEPT !.st = "IDLE"] ELSE adv
        /\ Answer /\ UNCHANGED nim
  /\ LeaveRadio /\ UNCHANGED <<roles, scan, cb, heard>> /\ KeepConn

AdvertiseCheck ==
  /\ At("adv.check") /\ Answer
  /\ nim' = IF fg.gen = adv.gen /\ adv.st = "ACTIVE" /\ radio = "READY" THEN nim
            ELSE [nim EXCEPT !.adv = 0]
  /\ LeaveRadio /\ UNCHANGED <<roles, scan, adv, cb, heard>> /\ KeepConn

AdvertiseStop ==
  /\ Calls("broadcaster") /\ adv.st # "IDLE"
  /\ adv' = [adv EXCEPT !.st = "STOPPING"] /\ Do("adv", "adv.cancel", adv.gen)
  /\ LeaveRadio /\ UNCHANGED <<roles, scan, nim, cb, heard>> /\ KeepConn

AdvertiseCancel ==
  /\ At("adv.cancel")
  /\ \/ nim' = [nim EXCEPT !.adv = 0] /\ Go("adv.stopped")
     \/ nim.adv # 0 /\ Answer /\ UNCHANGED nim
  /\ LeaveRadio /\ UNCHANGED <<roles, scan, adv, cb, heard>> /\ KeepConn

AdvertiseStopped ==
  /\ At("adv.stopped") /\ Answer
  /\ adv' = IF fg.gen = adv.gen /\ radio = "READY" /\ adv.st # "ACTIVE"
            THEN [adv EXCEPT !.st = "IDLE"] ELSE adv
  /\ LeaveRadio /\ UNCHANGED <<roles, scan, nim, cb, heard>> /\ KeepConn

\* The advertisement ended without a link.
AdvertiseOver ==
  /\ Callback /\ nim.adv # 0
  /\ nim' = [nim EXCEPT !.adv = 0]
  /\ adv' = IF nim.adv = adv.gen THEN [adv EXCEPT !.st = "IDLE"] ELSE adv
  /\ UNCHANGED <<scan, cb, heard>> /\ KeepConn

NewLink(arg) == [nim EXCEPT !.links = @ + 1,
                            !.link = [id |-> nim.links + 1, cb |-> arg, term |-> "no"]]
ConnectionNew == ~LinkUp /\ nim.links < MaxLinks /\ conn.gen < MaxGen

\* A central connected to the advertisement: the event is late, or the slot
\* is taken, and the link is refused; or the slot is reserved for it.
Incoming ==
  /\ Callback /\ Has("peripheral") /\ nim.adv # 0 /\ ConnectionNew
  /\ nim' = [NewLink(0) EXCEPT !.adv = 0]
  /\ IF nim.adv # adv.gen \/ adv.st = "IDLE"
     THEN cb' = [kind |-> "refuse", arg |-> 0] /\ KeepConn /\ UNCHANGED adv
     ELSE /\ adv' = [adv EXCEPT !.st = "IDLE"]
          /\ notices' = Found(notices)
          /\ UNCHANGED <<srv, cli>>
          /\ \/ /\ conn.st = "FREE" /\ Len(notices') < NoticeQueue
                /\ conn' = [Reserved("peripheral", FALSE) EXCEPT !.h = TRUE, !.link = nim.links + 1]
                /\ cb' = [kind |-> "accept", arg |-> conn.gen + 1]
             \/ /\ conn' = conn \/ (conn.st = "FREE" /\ conn' = FreeConn(conn.gen + 1))
                /\ cb' = [kind |-> "refuse", arg |-> 0]
  /\ UNCHANGED <<scan, heard>>

\* ble_gap_set_event_cb, then the connection waits for the program.
IncomingPending ==
  /\ cb.kind = "accept"
  /\ \/ /\ cb.arg = conn.gen /\ conn.st = "CONNECTING"
        /\ conn' = [conn EXCEPT !.st = "PENDING"] /\ notices' = Append(notices, cb.arg)
        /\ nim' = [nim EXCEPT !.link.cb = cb.arg]
        /\ cb' = NoCb /\ UNCHANGED <<srv, cli>>
     \/ /\ cb.arg = conn.gen /\ conn.st = "CONNECTING"
        /\ Free /\ cb' = [kind |-> "refuse", arg |-> 0] /\ UNCHANGED <<notices, nim>>
     \/ /\ ~(cb.arg = conn.gen /\ conn.st = "CONNECTING")
        /\ cb' = [kind |-> "refuse", arg |-> 0]
        /\ nim' = [nim EXCEPT !.link.cb = cb.arg] /\ KeepConn
  /\ LeaveRadio /\ UNCHANGED <<fg, roles, scan, adv, heard>>

\* ble_gap_terminate: the link is on its way down, or NimBLE refuses.
Terminated == [nim EXCEPT !.link.term = IF LinkUp THEN "sent" ELSE @]
TerminateRefused == [nim EXCEPT !.link.term = IF @ = "no" THEN "refused" ELSE @]

RefuseLink ==
  /\ cb.kind = "refuse" /\ cb' = NoCb
  /\ nim' \in {Terminated, TerminateRefused}
  /\ LeaveRadio /\ UNCHANGED <<fg, roles, bleVars, heard>>

-----------------------------------------------------------------------------
(* Connecting as a central *)

Connect ==
  /\ Calls("central") /\ Quiet /\ conn.st = "FREE" /\ conn.gen < MaxGen
  /\ conn' = Reserved("central", TRUE)
  /\ Do("connect", "connect.call", conn.gen + 1)
  /\ LeaveRadio /\ UNCHANGED <<roles, scan, adv, notices, srv, cli, nim, cb, heard>>

ConnectCall ==
  /\ At("connect.call")
  /\ \/ host = "running" /\ enabled /\ nim.conn = 0 /\ ~LinkUp
        /\ nim' = [nim EXCEPT !.conn = fg.gen] /\ Go("connect.wait")
        /\ UNCHANGED <<conn, srv, cli>>
     \/ /\ IF fg.gen = conn.gen /\ conn.st = "CONNECTING" THEN Free ELSE UNCHANGED <<conn, srv, cli>>
        /\ Answer /\ UNCHANGED nim
  /\ LeaveRadio /\ UNCHANGED <<roles, scan, adv, notices, cb, heard>>

\* One round of the wait loop that ends it
ConnectWait ==
  /\ At("connect.wait") /\ Answer
  /\ fg.gen = conn.gen => conn.st = "FREE" \/ conn.done
  /\ IF fg.gen = conn.gen /\ conn.done /\ conn.st \notin {"LIVE", "CLOSING"}
     THEN Free ELSE UNCHANGED <<conn, srv, cli>>
  /\ LeaveRadio /\ UNCHANGED <<roles, scan, adv, notices, nim, cb, heard>>

\* Mutant: the slot is given back before NimBLE has ended the connect.
ConnectAbortFrees ==
  /\ At("connect.wait")
  /\ fg.gen = conn.gen /\ conn.st = "CONNECTING" /\ ~conn.done
  /\ Free /\ Go("connect.cancel")
  /\ LeaveRadio /\ UNCHANGED <<roles, scan, adv, notices, nim, cb, heard>>

\* Interrupted or out of time, unless the connect just completed
ConnectAbort ==
  /\ At("connect.wait")
  /\ fg.gen = conn.gen /\ conn.st = "CONNECTING" /\ ~conn.done
  /\ conn' = [conn EXCEPT !.st = "CLOSING"]
  /\ Go("connect.cancel")
  /\ LeaveRadio /\ UNCHANGED <<roles, scan, adv, notices, srv, cli, nim, cb, heard>>

\* ble_gap_conn_cancel: the CONNECT event still comes, with either outcome.
ConnectCancel ==
  /\ At("connect.cancel") /\ Answer
  /\ LeaveRadio /\ UNCHANGED lvars

ConnectIsCurrent(g) == g = conn.gen /\ conn.role = "central" /\ conn.st \in {"CONNECTING", "CLOSING"}

ConnectFailed ==
  /\ Callback /\ nim.conn # 0
  /\ nim' = [nim EXCEPT !.conn = 0]
  /\ IF ~ConnectIsCurrent(nim.conn) THEN UNCHANGED <<conn, srv, cli>>
     ELSE IF conn.st = "CLOSING" THEN Free
     ELSE conn' = [conn EXCEPT !.done = TRUE] /\ UNCHANGED <<srv, cli>>
  /\ UNCHANGED <<scan, adv, notices, cb, heard>>

\* A link that comes after the program gave up, or whose description is bad,
\* is terminated; a late one is only counted.
Connected ==
  /\ Callback /\ nim.conn # 0 /\ ConnectionNew
  /\ nim' = [NewLink(nim.conn) EXCEPT !.conn = 0]
  /\ LET here == [conn EXCEPT !.h = TRUE, !.done = TRUE, !.link = nim.links + 1] IN
     IF ~ConnectIsCurrent(nim.conn) THEN UNCHANGED <<conn, cb>>
     ELSE \/ conn' = [here EXCEPT !.st = "CLOSING"] /\ cb' = [kind |-> "refuse", arg |-> 0]
          \/ conn.st = "CONNECTING" /\ conn' = [here EXCEPT !.st = "LIVE"] /\ UNCHANGED cb
  /\ UNCHANGED <<scan, adv, notices, srv, cli, heard>>

-----------------------------------------------------------------------------
(* A connection of either role *)

\* NimBLE forgets the link and then calls its callback, so a call may be told
\* in between that there is no connection.
LinkLost ==
  /\ Callback /\ LinkUp
  /\ nim' = [nim EXCEPT !.link = NoLink, !.mtu = FALSE, !.ind = 0, !.proc = NoProc]
  /\ cb' = [kind |-> "down", arg |-> nim.link.cb]
  /\ UNCHANGED <<bleVars, heard>>

\* BLE_GAP_EVENT_DISCONNECT
LinkDown ==
  /\ cb.kind = "down" /\ cb' = NoCb
  /\ IF ~Current(cb.arg) \/ conn.st = "DISCONNECTED" THEN KeepConn
     ELSE UNCHANGED notices /\ (IF conn.st = "LIVE" THEN MarkDisconnected ELSE Free)
  /\ LeaveRadio /\ UNCHANGED <<fg, roles, scan, adv, nim, heard>>

\* BLE_GAP_EVENT_TERM_FAILURE: only the reason is recorded.
TerminateFails ==
  /\ Callback /\ nim.link.term = "sent"
  /\ nim' = [nim EXCEPT !.link.term = "refused"]
  /\ UNCHANGED <<bleVars, cb, heard>>

Accept ==
  /\ Calls("peripheral") /\ notices # <<>>
  /\ LET s == Found(notices) IN
     IF s = <<>> THEN notices' = s /\ UNCHANGED conn
     ELSE notices' = Tail(s) /\ conn' = [conn EXCEPT !.st = "LIVE", !.ref = TRUE]
  /\ LeaveRadio /\ UNCHANGED <<fg, roles, scan, adv, srv, cli, nim, cb, heard>>

\* The handle table is full: the waiting connection is turned away.
RejectPending ==
  /\ Calls("peripheral") /\ Found(notices) # <<>>
  /\ notices' = Tail(Found(notices))
  /\ conn' = [conn EXCEPT !.st = "CLOSING"]
  /\ Do("reject", "reject.call", conn.gen)
  /\ LeaveRadio /\ UNCHANGED <<roles, scan, adv, srv, cli, nim, cb, heard>>

Close ==
  /\ At("idle") /\ conn.ref /\ conn.st \in {"LIVE", "DISCONNECTED"}
  /\ IF conn.st = "DISCONNECTED" THEN Free /\ UNCHANGED fg
     ELSE conn' = [conn EXCEPT !.st = "CLOSING"] /\ Do("close", "close.call", conn.gen)
          /\ UNCHANGED <<srv, cli>>
  /\ LeaveRadio /\ UNCHANGED <<roles, scan, adv, notices, nim, cb, heard>>

\* ble_gap_terminate answers before the lock is taken again.
CloseCall ==
  /\ \/ At("close.call") \/ At("reject.call")
  /\ \/ LinkUp /\ nim.link.term = "no" /\ nim' = Terminated /\ Go("closed.ok")
     \/ LinkUp /\ nim' = TerminateRefused /\ Go("closed.refused")
     \/ ~LinkUp /\ Go("closed.gone") /\ UNCHANGED nim
  /\ LeaveRadio /\ UNCHANGED <<roles, bleVars, cb, heard>>

CloseDone ==
  /\ \/ At("closed.ok") \/ At("closed.refused") \/ At("closed.gone")
  /\ Answer
  /\ IF fg.gen # conn.gen \/ conn.st # "CLOSING" THEN UNCHANGED <<conn, srv, cli>>
     ELSE \/ At("closed.gone") /\ Free
          \/ fg.op = "close" /\ At("closed.refused")
             /\ conn' = [conn EXCEPT !.st = "LIVE"] /\ UNCHANGED <<srv, cli>>
          \/ fg.op = "close" /\ At("closed.ok")
             /\ conn' = [conn EXCEPT !.ref = FALSE] /\ UNCHANGED <<srv, cli>>
          \/ fg.op = "reject" /\ ~At("closed.gone") /\ UNCHANGED <<conn, srv, cli>>
  /\ LeaveRadio /\ UNCHANGED <<roles, scan, adv, notices, nim, cb, heard>>

\* fr_platform_ble_connection_params: refused by NimBLE, or under way
Params ==
  /\ At("idle") /\ conn.ref /\ conn.st = "LIVE" /\ ~conn.par
  /\ conn' = [conn EXCEPT !.par = TRUE] /\ Do("params", "params.call", conn.gen)
  /\ LeaveRadio /\ UNCHANGED <<roles, scan, adv, notices, srv, cli, nim, cb, heard>>

ParamsCall ==
  /\ At("params.call") /\ Answer
  /\ IF fg.gen # conn.gen \/ ~conn.h THEN UNCHANGED <<conn, srv, cli>>
     ELSE \/ LinkUp /\ UNCHANGED <<conn, srv, cli>>
          \/ LinkUp /\ conn' = [conn EXCEPT !.par = FALSE] /\ UNCHANGED <<srv, cli>>
          \/ ~LinkUp /\ conn.st = "LIVE" /\ MarkDisconnected
  /\ LeaveRadio /\ UNCHANGED <<roles, scan, adv, notices, nim, cb, heard>>

\* BLE_GAP_EVENT_CONN_UPDATE
ParamsUpdated ==
  /\ Callback /\ LinkUp /\ Current(nim.link.cb) /\ conn.par
  /\ conn' = [conn EXCEPT !.par = FALSE]
  /\ UNCHANGED <<scan, adv, notices, srv, cli, nim, cb, heard>>

\* fr_platform_ble_connection_mtu asks the peripheral and waits.
Mtu ==
  /\ At("idle") /\ conn.ref /\ conn.st = "LIVE" /\ conn.role = "central"
  /\ ~cli.proc.pending /\ ~conn.mtu
  /\ conn' = [conn EXCEPT !.mtu = TRUE] /\ Do("mtu", "mtu.call", conn.gen)
  /\ LeaveRadio /\ UNCHANGED <<roles, scan, adv, notices, srv, cli, nim, cb, heard>>

MtuCall ==
  /\ At("mtu.call")
  /\ \/ LinkUp /\ ~nim.mtu /\ nim' = [nim EXCEPT !.mtu = TRUE] /\ Go("mtu.wait") /\ UNCHANGED conn
     \/ /\ conn' = IF fg.gen = conn.gen /\ conn.h THEN [conn EXCEPT !.mtu = FALSE] ELSE conn
        /\ Answer /\ UNCHANGED nim
  /\ LeaveRadio /\ UNCHANGED <<roles, scan, adv, notices, srv, cli, cb, heard>>

\* Answered, disconnected, interrupted or out of time
MtuWait ==
  /\ At("mtu.wait") /\ Answer
  /\ LeaveRadio /\ UNCHANGED lvars

\* fr_esp_ble_mtu_complete
MtuComplete ==
  /\ Callback /\ nim.mtu
  /\ nim' = [nim EXCEPT !.mtu = FALSE]
  /\ conn' = IF Current(nim.link.cb) THEN [conn EXCEPT !.mtu = FALSE] ELSE conn
  /\ UNCHANGED <<scan, adv, notices, srv, cli, cb, heard>>

ScanSteps == ScanStart \/ ScanCall \/ ScanCheck \/ ScanStop \/ ScanCancel \/ ScanStopped \/ ScanNext
             \/ ReportHeard \/ ReportQueued \/ ReportFiltered \/ DiscComplete
AdvSteps == AdvertiseStart \/ AdvertiseCall \/ AdvertiseCheck \/ AdvertiseStop \/ AdvertiseCancel
            \/ AdvertiseStopped \/ AdvertiseOver \/ Incoming \/ IncomingPending \/ RefuseLink
ConnSteps == Connect \/ ConnectCall \/ ConnectWait \/ ConnectAbort \/ ConnectCancel \/ ConnectFailed
             \/ Connected \/ LinkLost \/ LinkDown \/ TerminateFails \/ Accept \/ RejectPending \/ Close
             \/ CloseCall \/ CloseDone \/ Params \/ ParamsCall \/ ParamsUpdated
             \/ Mtu \/ MtuCall \/ MtuWait \/ MtuComplete
=============================================================================
