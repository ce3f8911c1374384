------------------------- MODULE FrothyBleStepsProof -------------------------
(***************************************************************************)
(* The invariant of the connection of FrothyBleGatt and what belongs to    *)
(* it, and that each action of the driver above the radio keeps it, for    *)
(* every build, queue and number of connections.  FrothyBleGattProof puts  *)
(* the actions together and draws the conclusions.                         *)
(*                                                                         *)
(* A callback of NimBLE counts when the number it was registered with is   *)
(* the connection's, so the heart of the invariant relates what the driver *)
(* keeps (the connection, the subscription, the request, the indication),  *)
(* what NimBLE keeps, the callback that stands between two of its locked   *)
(* sections and the place where the evaluator stands in its call: LinkInv  *)
(* and PlaceInv for the connection, and one conjunct for each thing that   *)
(* belongs to it.  The lemmas before the actions say what one step does to *)
(* each record, field by field; an action cites those of the records it    *)
(* changes, and AsideKeeps, DataKept or the like for what it leaves alone. *)
(***************************************************************************)
EXTENDS FrothyBleGatt, WellFoundedInduction, SequenceTheorems, TLAPS

\* Where the evaluator can stand while it holds the connection it began with.
Holding == {"ind.arm", "ind.call", "ind.wait", "cli.call", "cli.wait", "cli.next", "cli.abandon",
            "mtu.call", "mtu.wait", "params.call"}
Closing == {"close.call", "reject.call", "closed.ok", "closed.refused", "closed.gone"}
Clearing == {"clear.conn", "clear.server", "clear.client"}

Cleared == {"clear.server", "clear.client", "clean"}

\* The driver has a handle exactly while its link is up, but for the callbacks
\* that stand between two sections: an incoming link is accepted before it is
\* given the connection's number, and a link is gone before the driver hears
\* of it.  A number that is not the connection's is of an earlier one.
LinkInv ==
  /\ conn.h /\ LinkUp => /\ nim.link.id = conn.link
                         /\ \/ nim.link.cb = conn.gen
                            \/ conn.st = "CONNECTING" /\ cb.kind = "accept" /\ cb.arg = conn.gen
  /\ conn.h /\ ~LinkUp => cb.kind = "down" /\ cb.arg = conn.gen
  /\ conn.st \in {"FREE", "DISCONNECTED"} => ~conn.h
  /\ conn.st \in {"PENDING", "LIVE"} => conn.h
  /\ conn.st # "FREE" => conn.gen # 0 /\ conn.role # "none"
  /\ conn.st = "CONNECTING" /\ conn.role = "peripheral" <=> cb.kind = "accept" /\ cb.arg = conn.gen /\ conn.st # "FREE"
  /\ conn.st = "CONNECTING" => (conn.h <=> conn.role = "peripheral")
  /\ conn.st = "PENDING" => conn.role = "peripheral"
  /\ cb.kind = "accept" => LinkUp /\ nim.link.cb = 0
  /\ cb.kind = "down" => ~LinkUp
  /\ cb.kind \in {"accept", "down"} => cb.arg <= conn.gen
  /\ cb.kind # "none" => host = "running"
  /\ LinkUp => host = "running"
  /\ nim.conn # 0 => host = "running"
  /\ nim.link.cb <= conn.gen /\ nim.conn <= conn.gen
  /\ nim.conn # 0 /\ nim.conn = conn.gen /\ conn.st # "FREE" => conn.link = 0 /\ ~conn.h

\* What a call knows of the connection it began with, where it stands: it is
\* the connection of now while the call holds it, a close leaves it closing or
\* freed, and a clear has left nothing in the sections it has passed.
PlaceInv ==
  /\ fg.at \in Holding => fg.gen = conn.gen /\ conn.st \in {"LIVE", "DISCONNECTED"}
  /\ fg.at \in Closing => fg.gen <= conn.gen
  /\ fg.at \in Closing /\ fg.gen = conn.gen => conn.st \in {"CLOSING", "FREE"}
                                                /\ (conn.st = "CLOSING" => conn.h)
  /\ fg.at = "connect.call" => fg.gen = conn.gen /\ conn.st = "CONNECTING" /\ conn.role = "central"
                               /\ conn.link = 0 /\ nim.conn # conn.gen
  /\ fg.at = "connect.wait" => fg.gen <= conn.gen /\ (fg.gen = conn.gen /\ conn.st # "FREE" => conn.role = "central")
  /\ fg.at \in Clearing => adv.st = "IDLE"
  /\ fg.at \in {"clear.server", "clear.client"} => conn.st = "FREE" /\ notices = <<>>
  /\ fg.at = "clear.client" => srv.sub = ServerOff.sub /\ srv.q = <<>>

\* A subscription and a cached handle need the connection they belong to.
SubInv ==
  /\ srv.sub.mode # "none" => srv.sub.gen = conn.gen /\ conn.h /\ conn.role = "peripheral"
  /\ cli.entry.valid => cli.entry.gen = conn.gen /\ conn.h /\ conn.role = "central" /\ conn.st \in {"LIVE", "CLOSING"}

\* What a queue holds came over a connection of before, or over this one.
DataAt(q, g, l, st) ==
  \A i \in DOMAIN q :
    /\ q[i].gen <= g
    /\ q[i].gen = g /\ st # "FREE" => q[i].link = l /\ l # 0

\* So what is handed out came over the connection it is handed out for.
DataInv ==
  /\ DataAt(srv.q, conn.gen, conn.link, conn.st)
  /\ DataAt(cli.q, conn.gen, conn.link, conn.st)
  /\ srv.cur.to = srv.cur.link
  /\ cli.cur.to = cli.cur.link

\* The indication of the server, and what NimBLE has of it: it is pending only
\* on the connection of now, except while a clear has freed the connection and
\* not yet come to the server.
IndInv ==
  /\ srv.ind.gen <= conn.gen
  /\ nim.ind # 0 => LinkUp
  /\ srv.ind.pending => srv.ind.id # 0
  /\ nim.ind # 0 /\ conn.h => srv.ind.pending /\ srv.ind.gen = conn.gen /\ nim.ind = srv.ind.id
  /\ fg.at = "ind.call" => nim.ind = 0 /\ srv.ind.gen = fg.gen /\ (conn.h => srv.ind.pending)
  /\ srv.ind.answer \in {0, srv.ind.id}
  /\ srv.ind.pending => (conn.h /\ srv.ind.gen = conn.gen /\ conn.role = "peripheral") \/ (fg.at = "clear.server" /\ srv.ind.gen # conn.gen)
  /\ srv.ind.pending /\ conn.h /\ LinkUp => nim.ind = srv.ind.id \/ fg.at = "ind.call"

\* The request of the client, and what NimBLE has of it.
ProcA ==
  /\ cli.proc.gen <= conn.gen
  /\ nim.proc.stage = "none" => nim.proc = NoProc
  /\ cli.proc.complete => cli.proc.stage \in {"service", "characteristic"}
  /\ cli.proc.pending => cli.proc.stage # "none"
  /\ cli.proc.answer \in {0, cli.proc.id}

\* What NimBLE runs is the request that is pending.
ProcB ==
  /\ nim.proc.stage # "none" => LinkUp
  /\ nim.proc.stage # "none" /\ conn.h =>
       /\ cli.proc.pending /\ cli.proc.gen = conn.gen /\ ~cli.proc.complete
       /\ nim.proc.gen = conn.gen /\ nim.proc.stage = cli.proc.stage /\ nim.proc.id = cli.proc.id
  /\ fg.at = "cli.call" => nim.proc.stage = "none" /\ cli.proc.gen = fg.gen /\ cli.proc.stage # "none"
                         /\ (conn.h => cli.proc.pending /\ ~cli.proc.complete)

\* A pending request is of the connection of now, NimBLE has it, a call is
\* still at it, or it was abandoned.
ProcC ==
  /\ fg.at = "cli.next" /\ cli.proc.pending => cli.proc.complete
  /\ cli.proc.pending => \/ conn.h /\ cli.proc.gen = conn.gen /\ conn.role = "central" /\ conn.st \in {"LIVE", "CLOSING"}
                         \/ fg.at \in {"clear.server", "clear.client"} /\ cli.proc.gen # conn.gen
  /\ cli.proc.pending /\ conn.h /\ LinkUp /\ ~cli.proc.complete =>
       nim.proc.id = cli.proc.id \/ fg.at = "cli.call"
  /\ cli.proc.pending => cli.proc.abandoned \/ fg.at \in {"clear.server", "clear.client",
            "cli.call", "cli.wait", "cli.next", "cli.abandon"}
ProcInv == ProcA /\ ProcB /\ ProcC

\* The same of the exchange of the MTU.
MtuInv ==
  /\ nim.mtu => LinkUp
  /\ conn.mtu => conn.h
  /\ conn.mtu /\ LinkUp => nim.mtu \/ fg.at = "mtu.call"

\* What a queue holds was heard in its order, after what was taken from it.
Ordered(q, c, h) ==
  /\ c <= h
  /\ \A i \in DOMAIN q : c <= q[i] /\ q[i] <= h
  /\ \A i, j \in DOMAIN q : i <= j => q[i] <= q[j]
Ids(q) == [i \in DOMAIN q |-> q[i].id]

\* All three queues of the driver are in order.
OrderInv ==
  /\ Ordered(scan.q, scan.cur, heard)
  /\ Ordered(Ids(srv.q), srv.cur.id, heard)
  /\ Ordered(Ids(cli.q), cli.cur.id, heard)

-----------------------------------------------------------------------------
(* The types *)

ConnStates == {"FREE", "CONNECTING", "PENDING", "LIVE", "CLOSING", "DISCONNECTED"}
ConnRoles == {"none", "central", "peripheral"}
ConnT == [st : ConnStates, role : ConnRoles, gen : Nat, h : BOOLEAN, ref : BOOLEAN, done : BOOLEAN,
          mtu : BOOLEAN, par : BOOLEAN, link : Nat]
EntryT == [gen : Nat, link : Nat, id : Nat, to : Nat]
SubT == [gen : Nat, mode : {"none", "notify", "indicate"}]
IndT == [pending : BOOLEAN, gen : Nat, id : Nat, answer : Nat]
SrvT == [sub : SubT, q : Seq(EntryT), cur : EntryT, ind : IndT]
ClientModes == {"none", "notify"}
KnownT == [valid : BOOLEAN, gen : Nat, mode : ClientModes]
Stages == {"none", "service", "characteristic", "descriptor", "read", "write", "subscribe"}
ProcT == [pending : BOOLEAN, abandoned : BOOLEAN, complete : BOOLEAN, stage : Stages, gen : Nat, id : Nat,
          mode : ClientModes, answer : Nat]
CliT == [entry : KnownT, q : Seq(EntryT), cur : EntryT, proc : ProcT]
TermT == {"no", "sent", "refused"}
LinkT == [id : Nat, cb : Nat, term : TermT]
AskedT == [gen : Nat, stage : Stages, id : Nat]
NimT == [scan : Nat, adv : Nat, conn : Nat, link : LinkT, links : Nat, mtu : BOOLEAN, ind : Nat, proc : AskedT]
CbKinds == {"none", "report", "accept", "refuse", "down"}
CbT == [kind : CbKinds, arg : Nat]
UseStates == {"IDLE", "ACTIVE", "STOPPING"}
ScanT == [st : UseStates, gen : Nat, q : Seq(Nat), cur : Nat]
AdvT == [st : UseStates, gen : Nat]

\* Where the evaluator stands in a call of the radio, and in the others.
RadioPhases == {"on.start", "on.init", "on.register", "on.create", "on.undo", "on.created", "on.wait",
                "on.abort", "on.check", "clean", "queue", "spawn", "wait"}
GattPhases == {"idle", "scan.call", "scan.check", "scan.cancel", "scan.stopped", "adv.call", "adv.check",
               "adv.cancel", "adv.stopped", "connect.call", "connect.wait", "connect.cancel",
               "clear.adv"} \cup Holding \cup Closing \cup Clearing
Ops == {"none", "on", "off", "scan", "adv", "connect", "close", "reject", "params", "mtu", "indicate",
        "client", "clear"}
CallT == [op : Ops, at : RadioPhases \cup GattPhases, gen : Nat, stay : BOOLEAN]

Types ==
  /\ conn \in ConnT /\ srv \in SrvT /\ cli \in CliT /\ nim \in NimT /\ fg \in CallT /\ cb \in CbT
  /\ scan \in ScanT /\ adv \in AdvT /\ notices \in Seq(Nat) /\ heard \in Nat /\ roles \in Builds

-----------------------------------------------------------------------------
(* The records, one step of each *)

ConnNow(st, role, gen, h, ref, over, mtu, par, link) ==
  /\ conn' \in ConnT /\ conn'.st = st /\ conn'.role = role /\ conn'.gen = gen /\ conn'.link = link
  /\ conn'.h <=> h
  /\ conn'.ref <=> ref
  /\ conn'.done <=> over
  /\ conn'.mtu <=> mtu
  /\ conn'.par <=> par

LEMMA FreeIs ==
  ASSUME NEW g \in Nat
  PROVE  /\ FreeConn(g) \in ConnT /\ FreeConn(g).role = "none" /\ FreeConn(g).gen = g /\ FreeConn(g).h = FALSE
         /\ FreeConn(g).ref = FALSE /\ FreeConn(g).done = FALSE /\ FreeConn(g).mtu = FALSE
         /\ FreeConn(g).par = FALSE /\ FreeConn(g).link = 0
  BY DEF FreeConn, ConnT, ConnStates, ConnRoles

LEMMA ReservedIs ==
  ASSUME conn \in ConnT, NEW r \in ConnRoles, NEW b \in BOOLEAN
  PROVE  LET c == Reserved(r, b) IN
         /\ c \in ConnT /\ c.st = "CONNECTING" /\ c.role = r /\ c.gen = conn.gen + 1 /\ c.h = FALSE
         /\ c.ref = b /\ c.done = FALSE /\ c.mtu = FALSE /\ c.par = FALSE /\ c.link = 0
<1> DEFINE f == FreeConn(conn.gen + 1)
<1>1. conn.gen + 1 \in Nat BY DEF ConnT
<1>2. /\ f \in ConnT /\ f.role = "none" /\ f.gen = conn.gen + 1 /\ f.h = FALSE
      /\ f.ref = FALSE /\ f.done = FALSE /\ f.mtu = FALSE /\ f.par = FALSE /\ f.link = 0
  BY <1>1, FreeIs
<1>3. Reserved(r, b) = [f EXCEPT !.st = "CONNECTING", !.role = r, !.ref = b] BY DEF Reserved
<1> HIDE DEF f
<1> QED BY <1>2, <1>3 DEF ConnT, ConnStates

LEMMA ConnFree ==
  ASSUME NEW g \in Nat, conn' = FreeConn(g)
  PROVE  ConnNow("FREE", "none", g, FALSE, FALSE, FALSE, FALSE, FALSE, 0)
  BY DEF FreeConn, ConnNow, ConnT, ConnStates, ConnRoles

LEMMA ConnReserved ==
  ASSUME conn \in ConnT, NEW r \in ConnRoles, NEW b \in BOOLEAN, conn' = Reserved(r, b)
  PROVE  ConnNow("CONNECTING", r, conn.gen + 1, FALSE, b, FALSE, FALSE, FALSE, 0)
  BY ReservedIs DEF ConnNow

LEMMA ConnIncoming ==
  ASSUME conn \in ConnT, NEW k \in Nat, conn' = [Reserved("peripheral", FALSE) EXCEPT !.h = TRUE, !.link = k]
  PROVE  ConnNow("CONNECTING", "peripheral", conn.gen + 1, TRUE, FALSE, FALSE, FALSE, FALSE, k)
<1> DEFINE c == Reserved("peripheral", FALSE)
<1>1. "peripheral" \in ConnRoles /\ FALSE \in BOOLEAN BY DEF ConnRoles
<1>2. /\ c \in ConnT /\ c.st = "CONNECTING" /\ c.role = "peripheral" /\ c.gen = conn.gen + 1 /\ c.h = FALSE
      /\ c.ref = FALSE /\ c.done = FALSE /\ c.mtu = FALSE /\ c.par = FALSE /\ c.link = 0
  BY <1>1, ReservedIs
<1>3. conn' = [c EXCEPT !.h = TRUE, !.link = k] OBVIOUS
<1> HIDE DEF c
<1> QED BY <1>2, <1>3 DEF ConnT, ConnNow

LEMMA ConnSt ==
  ASSUME conn \in ConnT, NEW s \in ConnStates, conn' = [conn EXCEPT !.st = s]
  PROVE  ConnNow(s, conn.role, conn.gen, conn.h, conn.ref, conn.done, conn.mtu, conn.par, conn.link)
  BY DEF ConnNow, ConnT

LEMMA ConnAccepted ==
  ASSUME conn \in ConnT, conn' = [conn EXCEPT !.st = "LIVE", !.ref = TRUE]
  PROVE  ConnNow("LIVE", conn.role, conn.gen, conn.h, TRUE, conn.done, conn.mtu, conn.par, conn.link)
  BY DEF ConnNow, ConnT, ConnStates

LEMMA ConnDown ==
  ASSUME conn \in ConnT,
         conn' = [conn EXCEPT !.st = "DISCONNECTED", !.h = FALSE, !.par = FALSE, !.mtu = FALSE]
  PROVE  ConnNow("DISCONNECTED", conn.role, conn.gen, FALSE, conn.ref, conn.done, FALSE, FALSE, conn.link)
  BY DEF ConnNow, ConnT, ConnStates

LEMMA ConnUp ==
  ASSUME conn \in ConnT, NEW s \in ConnStates, NEW k \in Nat,
         conn' = [[conn EXCEPT !.h = TRUE, !.done = TRUE, !.link = k] EXCEPT !.st = s]
  PROVE  ConnNow(s, conn.role, conn.gen, TRUE, conn.ref, TRUE, conn.mtu, conn.par, k)
<1> DEFINE c == [conn EXCEPT !.h = TRUE, !.done = TRUE, !.link = k]
<1>1. /\ c \in ConnT /\ c.st = conn.st /\ c.role = conn.role /\ c.gen = conn.gen /\ c.h = TRUE
      /\ c.ref = conn.ref /\ c.done = TRUE /\ c.mtu = conn.mtu /\ c.par = conn.par /\ c.link = k
  BY DEF ConnT
<1>2. conn' = [c EXCEPT !.st = s] OBVIOUS
<1> HIDE DEF c
<1> QED BY <1>1, <1>2 DEF ConnT, ConnNow

LEMMA ConnDone ==
  ASSUME conn \in ConnT, conn' = [conn EXCEPT !.done = TRUE]
  PROVE  ConnNow(conn.st, conn.role, conn.gen, conn.h, conn.ref, TRUE, conn.mtu, conn.par, conn.link)
  BY DEF ConnNow, ConnT

LEMMA ConnUnref ==
  ASSUME conn \in ConnT, conn' = [conn EXCEPT !.ref = FALSE]
  PROVE  ConnNow(conn.st, conn.role, conn.gen, conn.h, FALSE, conn.done, conn.mtu, conn.par, conn.link)
  BY DEF ConnNow, ConnT

LEMMA ConnPar ==
  ASSUME conn \in ConnT, NEW b \in BOOLEAN, conn' = [conn EXCEPT !.par = b]
  PROVE  ConnNow(conn.st, conn.role, conn.gen, conn.h, conn.ref, conn.done, conn.mtu, b, conn.link)
  BY DEF ConnNow, ConnT

LEMMA ConnMtu ==
  ASSUME conn \in ConnT, NEW b \in BOOLEAN, conn' = [conn EXCEPT !.mtu = b]
  PROVE  ConnNow(conn.st, conn.role, conn.gen, conn.h, conn.ref, conn.done, b, conn.par, conn.link)
  BY DEF ConnNow, ConnT

-----------------------------------------------------------------------------
SrvNow(sub, q, cur, ind) ==
  srv' \in SrvT /\ srv'.sub = sub /\ srv'.q = q /\ srv'.cur = cur /\ srv'.ind = ind

\* An indication keeps its number, its answer and its connection; it may end.
IndKept(pending) ==
  /\ srv'.ind.id = srv.ind.id /\ srv'.ind.gen = srv.ind.gen /\ srv'.ind.answer = srv.ind.answer
  /\ srv'.ind.pending <=> pending

NoSub == [gen |-> 0, mode |-> "none"]

LEMMA Constants ==
  /\ NoSub \in SubT /\ NoSub.mode = "none" /\ ServerOff.sub = NoSub
  /\ NoWrite \in EntryT /\ NoWrite.id = 0 /\ NoWrite.to = 0 /\ NoWrite.link = 0
  /\ <<>> \in Seq(EntryT) /\ <<>> \in Seq(Nat)
  BY DEF NoSub, SubT, ServerOff, NoWrite, EntryT

LEMMA EndedInd ==
  ASSUME NEW i \in IndT
  PROVE  LET j == [i EXCEPT !.pending = FALSE] IN
         j \in IndT /\ j.pending = FALSE /\ j.id = i.id /\ j.gen = i.gen /\ j.answer = i.answer
  BY DEF IndT

LEMMA SrvClosed ==
  ASSUME srv \in SrvT, NEW g \in Nat, srv' = ServerClosed(g)
  PROVE  /\ SrvNow(NoSub, srv.q, srv.cur, srv'.ind)
         /\ IndKept(srv.ind.pending /\ srv.ind.gen # g)
<1> DEFINE i == IF srv.ind.pending /\ srv.ind.gen = g THEN [srv.ind EXCEPT !.pending = FALSE] ELSE srv.ind
<1>1. srv.ind \in IndT BY DEF SrvT
<1>2. i \in IndT /\ i.id = srv.ind.id /\ i.gen = srv.ind.gen /\ i.answer = srv.ind.answer
  BY <1>1, EndedInd
<1>3. i.pending <=> srv.ind.pending /\ srv.ind.gen # g BY <1>1, EndedInd
<1>4. srv' = [srv EXCEPT !.sub = NoSub, !.ind = i] BY Constants DEF ServerClosed
<1> HIDE DEF i
<1> QED BY <1>2, <1>3, <1>4, Constants DEF SrvT, SrvNow, IndKept

LEMMA SrvRadioOff ==
  ASSUME srv \in SrvT, srv' = ServerRadioOff
  PROVE  SrvNow(NoSub, <<>>, NoWrite, srv'.ind) /\ IndKept(FALSE)
<1> DEFINE i == [srv.ind EXCEPT !.pending = FALSE]
<1>1. srv.ind \in IndT BY DEF SrvT
<1>2. i \in IndT /\ i.id = srv.ind.id /\ i.gen = srv.ind.gen /\ i.answer = srv.ind.answer /\ i.pending = FALSE
  BY <1>1, EndedInd
<1>3. srv' = [srv EXCEPT !.sub = NoSub, !.q = <<>>, !.cur = NoWrite, !.ind = i]
  BY Constants DEF ServerRadioOff
<1> HIDE DEF i
<1> QED BY <1>2, <1>3, Constants DEF SrvT, SrvNow, IndKept

LEMMA SrvWritten ==
  ASSUME srv \in SrvT, NEW q \in Seq(EntryT), srv' = [srv EXCEPT !.q = q]
  PROVE  SrvNow(srv.sub, q, srv.cur, srv.ind)
  BY DEF SrvT, SrvNow

LEMMA SrvSubscribed ==
  ASSUME srv \in SrvT, NEW s \in SubT, srv' = [srv EXCEPT !.sub = s]
  PROVE  SrvNow(s, srv.q, srv.cur, srv.ind)
  BY DEF SrvT, SrvNow

LEMMA SrvTaken ==
  ASSUME srv \in SrvT, NEW q \in Seq(EntryT), NEW c \in EntryT, srv' = [srv EXCEPT !.q = q, !.cur = c]
  PROVE  SrvNow(srv.sub, q, c, srv.ind)
  BY DEF SrvT, SrvNow

LEMMA SrvArmed ==
  ASSUME srv \in SrvT, NEW i \in IndT, srv' = [srv EXCEPT !.ind = i]
  PROVE  SrvNow(srv.sub, srv.q, srv.cur, i)
  BY DEF SrvT, SrvNow

LEMMA SrvIndEnds ==
  ASSUME srv \in SrvT, srv' = [srv EXCEPT !.ind.pending = FALSE]
  PROVE  SrvNow(srv.sub, srv.q, srv.cur, srv'.ind) /\ IndKept(FALSE)
<1> DEFINE i == [srv.ind EXCEPT !.pending = FALSE]
<1>1. srv.ind \in IndT BY DEF SrvT
<1>2. i \in IndT /\ i.id = srv.ind.id /\ i.gen = srv.ind.gen /\ i.answer = srv.ind.answer /\ i.pending = FALSE
  BY <1>1, EndedInd
<1>3. srv' = [srv EXCEPT !.ind = i] OBVIOUS
<1> HIDE DEF i
<1> QED BY <1>2, <1>3 DEF SrvT, SrvNow, IndKept

LEMMA SrvIndAnswered ==
  ASSUME srv \in SrvT, NEW a \in Nat, srv' = [srv EXCEPT !.ind.pending = FALSE, !.ind.answer = a]
  PROVE  /\ SrvNow(srv.sub, srv.q, srv.cur, srv'.ind)
         /\ srv'.ind.id = srv.ind.id /\ srv'.ind.gen = srv.ind.gen /\ srv'.ind.answer = a
         /\ ~srv'.ind.pending
<1> DEFINE i == [srv.ind EXCEPT !.pending = FALSE]
           j == [i EXCEPT !.answer = a]
<1>1. srv.ind \in IndT BY DEF SrvT
<1>2. i \in IndT /\ i.id = srv.ind.id /\ i.gen = srv.ind.gen /\ i.pending = FALSE
  BY <1>1, EndedInd
<1>3. srv' = [srv EXCEPT !.ind = j]
  <2>1. srv' = [[srv EXCEPT !.ind = i] EXCEPT !.ind.answer = a] OBVIOUS
  <2>2. [srv EXCEPT !.ind = i].ind = i BY DEF SrvT
  <2> QED BY <2>1, <2>2 DEF SrvT
<1> HIDE DEF i
<1>4. j \in IndT /\ j.id = srv.ind.id /\ j.gen = srv.ind.gen /\ j.pending = FALSE /\ j.answer = a
  BY <1>2 DEF IndT
<1> HIDE DEF j
<1> QED BY <1>4, <1>3 DEF SrvT, SrvNow

-----------------------------------------------------------------------------
CliNow(entry, q, cur, proc) ==
  cli' \in CliT /\ cli'.entry = entry /\ cli'.q = q /\ cli'.cur = cur /\ cli'.proc = proc

\* The procedure of the client is now this one.
ProcNow(pending, abandoned, complete, stage, gen, id, mode, answer) ==
  /\ cli'.proc.stage = stage /\ cli'.proc.gen = gen /\ cli'.proc.id = id /\ cli'.proc.mode = mode
  /\ cli'.proc.answer = answer
  /\ cli'.proc.pending <=> pending
  /\ cli'.proc.abandoned <=> abandoned
  /\ cli'.proc.complete <=> complete

Unknown == [valid |-> FALSE, gen |-> 0, mode |-> "none"]

LEMMA ClearedClient ==
  /\ Unknown \in KnownT /\ Unknown.valid = FALSE /\ ClientClear.entry = Unknown
  /\ ClientClear \in CliT /\ ClientClear.q = <<>> /\ ClientClear.cur = NoWrite /\ ClientClear.proc = NoClientProc
  /\ NoClientProc \in ProcT /\ NoClientProc.pending = FALSE /\ NoClientProc.complete = FALSE
  /\ NoClientProc.gen = 0 /\ NoClientProc.id = 0 /\ NoClientProc.answer = 0 /\ NoClientProc.stage = "none"
  BY DEF Unknown, KnownT, ClientModes, ClientClear, CliT, NoWrite, EntryT, NoClientProc, ProcT, Stages

LEMMA EndedProc ==
  ASSUME NEW i \in ProcT
  PROVE  LET j == [i EXCEPT !.pending = FALSE] IN
         /\ j \in ProcT /\ j.pending = FALSE /\ j.abandoned = i.abandoned /\ j.complete = i.complete
         /\ j.stage = i.stage /\ j.gen = i.gen /\ j.id = i.id /\ j.mode = i.mode /\ j.answer = i.answer
  BY DEF ProcT

LEMMA CliClosed ==
  ASSUME cli \in CliT, NEW g \in Nat, cli' = ClientClosed(g)
  PROVE  /\ CliNow(Unknown, cli.q, cli.cur, cli'.proc)
         /\ ProcNow(cli.proc.pending /\ cli.proc.gen # g, cli.proc.abandoned, cli.proc.complete, cli.proc.stage,
                    cli.proc.gen, cli.proc.id, cli.proc.mode, cli.proc.answer)
<1> DEFINE i == IF cli.proc.pending /\ cli.proc.gen = g THEN [cli.proc EXCEPT !.pending = FALSE] ELSE cli.proc
<1>1. cli.proc \in ProcT BY DEF CliT
<1>2. /\ i \in ProcT /\ i.abandoned = cli.proc.abandoned /\ i.complete = cli.proc.complete /\ i.stage = cli.proc.stage
      /\ i.gen = cli.proc.gen /\ i.id = cli.proc.id /\ i.mode = cli.proc.mode /\ i.answer = cli.proc.answer
  BY <1>1, EndedProc
<1>3. i.pending <=> cli.proc.pending /\ cli.proc.gen # g BY <1>1, EndedProc
<1>4. cli' = [cli EXCEPT !.entry = Unknown, !.proc = i] BY ClearedClient DEF ClientClosed
<1> HIDE DEF i
<1>5. CliNow(Unknown, cli.q, cli.cur, i) BY <1>2, <1>4, ClearedClient DEF CliT, CliNow
<1> QED BY <1>2, <1>3, <1>5 DEF CliNow, ProcNow

LEMMA CliClear ==
  ASSUME cli' = ClientClear
  PROVE  /\ CliNow(Unknown, <<>>, NoWrite, cli'.proc)
         /\ ProcNow(FALSE, FALSE, FALSE, "none", 0, 0, cli'.proc.mode, 0)
<1>1. NoClientProc.abandoned = FALSE BY DEF NoClientProc
<1> QED BY ClearedClient, <1>1 DEF CliNow, ProcNow

NewProc(s, g, n, m) ==
  [NoClientProc EXCEPT !.pending = TRUE, !.stage = s, !.gen = g, !.id = n, !.mode = m]

IsNew(p, s, g, n, m) ==
  /\ p \in ProcT /\ p.pending = TRUE /\ p.abandoned = FALSE /\ p.complete = FALSE /\ p.answer = 0
  /\ p.stage = s /\ p.gen = g /\ p.id = n /\ p.mode = m

LEMMA NewProcIs ==
  ASSUME NEW s \in Stages, NEW g \in Nat, NEW n \in Nat, NEW m \in ClientModes
  PROVE  IsNew(NewProc(s, g, n, m), s, g, n, m)
<1> DEFINE a == [NoClientProc EXCEPT !.pending = TRUE, !.stage = s]
           b == [a EXCEPT !.gen = g]
           c == [b EXCEPT !.id = n]
           p == NewProc(s, g, n, m)
<1>1. /\ a \in ProcT /\ a.pending = TRUE /\ a.abandoned = FALSE /\ a.complete = FALSE /\ a.answer = 0
      /\ a.stage = s
  BY DEF NoClientProc, ProcT, Stages, ClientModes
<1>2. p = [c EXCEPT !.mode = m] BY DEF NewProc
<1> HIDE DEF a
<1>3. /\ b \in ProcT /\ b.pending = TRUE /\ b.abandoned = FALSE /\ b.complete = FALSE /\ b.answer = 0
      /\ b.stage = s /\ b.gen = g
  BY <1>1 DEF ProcT
<1> HIDE DEF b
<1>4. /\ c \in ProcT /\ c.pending = TRUE /\ c.abandoned = FALSE /\ c.complete = FALSE /\ c.answer = 0
      /\ c.stage = s /\ c.gen = g /\ c.id = n
  BY <1>3 DEF ProcT
<1> HIDE DEF c, p
<1>5. IsNew(p, s, g, n, m) BY <1>2, <1>4 DEF ProcT, IsNew
<1> QED BY <1>5 DEF p

LEMMA CliProc ==
  ASSUME cli \in CliT, NEW p \in ProcT, cli' = [cli EXCEPT !.proc = p]
  PROVE  CliNow(cli.entry, cli.q, cli.cur, p)
  BY DEF CliT, CliNow

LEMMA CliAsked ==
  ASSUME cli \in CliT, NEW s \in Stages, NEW g \in Nat, NEW n \in Nat, NEW m \in ClientModes,
         cli' = [cli EXCEPT !.proc = NewProc(s, g, n, m)]
  PROVE  /\ CliNow(cli.entry, cli.q, cli.cur, cli'.proc)
         /\ ProcNow(TRUE, FALSE, FALSE, s, g, n, m, 0)
<1> DEFINE p == NewProc(s, g, n, m)
<1>1. IsNew(p, s, g, n, m) BY NewProcIs
<1>2. CliNow(cli.entry, cli.q, cli.cur, p) BY <1>1, CliProc DEF IsNew
<1> HIDE DEF p
<1> QED BY <1>1, <1>2 DEF CliNow, ProcNow, IsNew

\* Ended with answer `a`.
LEMMA FinishedIs ==
  ASSUME cli \in CliT, NEW a \in Nat
  PROVE  LET c == Finished(a) IN
         /\ c \in CliT /\ c.entry = cli.entry /\ c.q = cli.q /\ c.cur = cli.cur
         /\ c.proc.pending = FALSE /\ c.proc.abandoned = cli.proc.abandoned /\ c.proc.complete = cli.proc.complete
         /\ c.proc.stage = cli.proc.stage /\ c.proc.gen = cli.proc.gen /\ c.proc.id = cli.proc.id
         /\ c.proc.mode = cli.proc.mode /\ c.proc.answer = a
<1> DEFINE i == [cli.proc EXCEPT !.pending = FALSE]
           j == [i EXCEPT !.answer = a]
           c == [cli EXCEPT !.proc = j]
<1>1. cli.proc \in ProcT BY DEF CliT
<1>2. /\ i \in ProcT /\ i.pending = FALSE /\ i.abandoned = cli.proc.abandoned /\ i.complete = cli.proc.complete
      /\ i.stage = cli.proc.stage /\ i.gen = cli.proc.gen /\ i.id = cli.proc.id /\ i.mode = cli.proc.mode
  BY <1>1, EndedProc
<1>3. Finished(a) = c
  <2>1. Finished(a) = [[cli EXCEPT !.proc = i] EXCEPT !.proc.answer = a] BY DEF Finished
  <2>2. [cli EXCEPT !.proc = i].proc = i BY DEF CliT
  <2> QED BY <2>1, <2>2 DEF CliT
<1> HIDE DEF i
<1>4. /\ j \in ProcT /\ j.pending = FALSE /\ j.abandoned = cli.proc.abandoned /\ j.complete = cli.proc.complete
      /\ j.stage = cli.proc.stage /\ j.gen = cli.proc.gen /\ j.id = cli.proc.id /\ j.mode = cli.proc.mode
      /\ j.answer = a
  BY <1>2 DEF ProcT
<1> HIDE DEF j
<1>5. c \in CliT /\ c.entry = cli.entry /\ c.q = cli.q /\ c.cur = cli.cur /\ c.proc = j
  BY <1>4 DEF CliT
<1> HIDE DEF c
<1> QED BY <1>3, <1>4, <1>5

LEMMA CliFinished ==
  ASSUME cli \in CliT, NEW a \in Nat, cli' = Finished(a)
  PROVE  /\ CliNow(cli.entry, cli.q, cli.cur, cli'.proc)
         /\ ProcNow(FALSE, cli.proc.abandoned, cli.proc.complete, cli.proc.stage, cli.proc.gen, cli.proc.id,
                    cli.proc.mode, a)
  BY FinishedIs DEF CliNow, ProcNow

LEMMA CliCached ==
  ASSUME cli \in CliT, conn \in ConnT, NEW a \in Nat, cli' = Cached(a)
  PROVE  /\ CliNow([valid |-> TRUE, gen |-> conn.gen, mode |-> cli.entry.mode], cli.q, cli.cur, cli'.proc)
         /\ ProcNow(FALSE, cli.proc.abandoned, cli.proc.complete, cli.proc.stage, cli.proc.gen, cli.proc.id,
                    cli.proc.mode, a)
<1> DEFINE c == Finished(a)
           e == [valid |-> TRUE, gen |-> conn.gen, mode |-> cli.entry.mode]
<1>1. /\ c \in CliT /\ c.entry = cli.entry /\ c.q = cli.q /\ c.cur = cli.cur
      /\ c.proc.pending = FALSE /\ c.proc.abandoned = cli.proc.abandoned /\ c.proc.complete = cli.proc.complete
      /\ c.proc.stage = cli.proc.stage /\ c.proc.gen = cli.proc.gen /\ c.proc.id = cli.proc.id
      /\ c.proc.mode = cli.proc.mode /\ c.proc.answer = a
  BY FinishedIs
<1>2. e \in KnownT BY DEF KnownT, CliT, ConnT
<1>3. cli' = [c EXCEPT !.entry = e] BY DEF Cached
<1> HIDE DEF c, e
<1>4. CliNow(e, cli.q, cli.cur, c.proc) BY <1>1, <1>2, <1>3 DEF CliT, CliNow
<1>5. CliNow(e, cli.q, cli.cur, cli'.proc) /\ cli'.proc = c.proc BY <1>4 DEF CliNow
<1>6. ProcNow(FALSE, cli.proc.abandoned, cli.proc.complete, cli.proc.stage, cli.proc.gen, cli.proc.id,
              cli.proc.mode, a) BY <1>1, <1>5 DEF ProcNow
<1> QED BY <1>5, <1>6 DEF e

LEMMA CliModeSet ==
  ASSUME cli \in CliT, NEW a \in Nat, cli' = [Finished(a) EXCEPT !.entry.mode = cli.proc.mode]
  PROVE  /\ CliNow(cli'.entry, cli.q, cli.cur, cli'.proc)
         /\ cli'.entry.gen = cli.entry.gen /\ cli'.entry.valid = cli.entry.valid
         /\ ProcNow(FALSE, cli.proc.abandoned, cli.proc.complete, cli.proc.stage, cli.proc.gen, cli.proc.id,
                    cli.proc.mode, a)
<1> DEFINE c == Finished(a)
           e == [cli.entry EXCEPT !.mode = cli.proc.mode]
<1>1. /\ c \in CliT /\ c.entry = cli.entry /\ c.q = cli.q /\ c.cur = cli.cur
      /\ c.proc.pending = FALSE /\ c.proc.abandoned = cli.proc.abandoned /\ c.proc.complete = cli.proc.complete
      /\ c.proc.stage = cli.proc.stage /\ c.proc.gen = cli.proc.gen /\ c.proc.id = cli.proc.id
      /\ c.proc.mode = cli.proc.mode /\ c.proc.answer = a
  BY FinishedIs
<1>2. e \in KnownT /\ e.gen = cli.entry.gen /\ e.valid = cli.entry.valid BY DEF CliT, KnownT, ProcT
<1>3. cli' = [c EXCEPT !.entry = e] BY <1>1
<1> HIDE DEF c, e
<1>4. CliNow(e, cli.q, cli.cur, c.proc) BY <1>1, <1>2, <1>3 DEF CliT, CliNow
<1>5. ProcNow(FALSE, cli.proc.abandoned, cli.proc.complete, cli.proc.stage, cli.proc.gen, cli.proc.id,
              cli.proc.mode, a) BY <1>1, <1>4 DEF ProcNow, CliNow
<1> QED BY <1>2, <1>4, <1>5 DEF CliNow

LEMMA CliAbandoned ==
  ASSUME cli \in CliT, cli' = [cli EXCEPT !.proc.abandoned = TRUE]
  PROVE  /\ CliNow(cli.entry, cli.q, cli.cur, cli'.proc)
         /\ ProcNow(cli.proc.pending, TRUE, cli.proc.complete, cli.proc.stage, cli.proc.gen, cli.proc.id,
                    cli.proc.mode, cli.proc.answer)
<1> DEFINE j == [cli.proc EXCEPT !.abandoned = TRUE]
<1>1. cli.proc \in ProcT BY DEF CliT
<1>2. /\ j \in ProcT /\ j.pending = cli.proc.pending /\ j.abandoned = TRUE /\ j.complete = cli.proc.complete
      /\ j.stage = cli.proc.stage /\ j.gen = cli.proc.gen /\ j.id = cli.proc.id /\ j.mode = cli.proc.mode
      /\ j.answer = cli.proc.answer
  BY <1>1 DEF ProcT
<1>3. cli' = [cli EXCEPT !.proc = j] OBVIOUS
<1> HIDE DEF j
<1>4. CliNow(cli.entry, cli.q, cli.cur, j) BY <1>2, <1>3, CliProc
<1> QED BY <1>2, <1>4 DEF CliNow, ProcNow

LEMMA CliCompleted ==
  ASSUME cli \in CliT, cli' = [cli EXCEPT !.proc.complete = TRUE]
  PROVE  /\ CliNow(cli.entry, cli.q, cli.cur, cli'.proc)
         /\ ProcNow(cli.proc.pending, cli.proc.abandoned, TRUE, cli.proc.stage, cli.proc.gen, cli.proc.id,
                    cli.proc.mode, cli.proc.answer)
<1> DEFINE j == [cli.proc EXCEPT !.complete = TRUE]
<1>1. cli.proc \in ProcT BY DEF CliT
<1>2. /\ j \in ProcT /\ j.pending = cli.proc.pending /\ j.abandoned = cli.proc.abandoned /\ j.complete = TRUE
      /\ j.stage = cli.proc.stage /\ j.gen = cli.proc.gen /\ j.id = cli.proc.id /\ j.mode = cli.proc.mode
      /\ j.answer = cli.proc.answer
  BY <1>1 DEF ProcT
<1>3. cli' = [cli EXCEPT !.proc = j] OBVIOUS
<1> HIDE DEF j
<1>4. CliNow(cli.entry, cli.q, cli.cur, j) BY <1>2, <1>3, CliProc
<1> QED BY <1>2, <1>4 DEF CliNow, ProcNow

LEMMA CliStaged ==
  ASSUME cli \in CliT, NEW s \in Stages, cli' = [cli EXCEPT !.proc.stage = s, !.proc.complete = FALSE]
  PROVE  /\ CliNow(cli.entry, cli.q, cli.cur, cli'.proc)
         /\ ProcNow(cli.proc.pending, cli.proc.abandoned, FALSE, s, cli.proc.gen, cli.proc.id,
                    cli.proc.mode, cli.proc.answer)
<1> DEFINE i == [cli.proc EXCEPT !.stage = s]
           j == [i EXCEPT !.complete = FALSE]
<1>1. cli.proc \in ProcT BY DEF CliT
<1>2. /\ i \in ProcT /\ i.pending = cli.proc.pending /\ i.abandoned = cli.proc.abandoned
      /\ i.stage = s /\ i.gen = cli.proc.gen /\ i.id = cli.proc.id /\ i.mode = cli.proc.mode
      /\ i.answer = cli.proc.answer
  BY <1>1 DEF ProcT
<1>3. cli' = [cli EXCEPT !.proc = j]
  <2>1. cli' = [[cli EXCEPT !.proc = i] EXCEPT !.proc.complete = FALSE] OBVIOUS
  <2>2. [cli EXCEPT !.proc = i].proc = i BY DEF CliT
  <2> QED BY <2>1, <2>2 DEF CliT
<1> HIDE DEF i
<1>4. /\ j \in ProcT /\ j.pending = cli.proc.pending /\ j.abandoned = cli.proc.abandoned /\ j.complete = FALSE
      /\ j.stage = s /\ j.gen = cli.proc.gen /\ j.id = cli.proc.id /\ j.mode = cli.proc.mode
      /\ j.answer = cli.proc.answer
  BY <1>2 DEF ProcT
<1> HIDE DEF j
<1>5. CliNow(cli.entry, cli.q, cli.cur, j) BY <1>4, <1>3, CliProc
<1> QED BY <1>4, <1>5 DEF CliNow, ProcNow

LEMMA CliNotified ==
  ASSUME cli \in CliT, NEW q \in Seq(EntryT), cli' = [cli EXCEPT !.q = q]
  PROVE  CliNow(cli.entry, q, cli.cur, cli.proc)
  BY DEF CliT, CliNow

LEMMA CliTaken ==
  ASSUME cli \in CliT, NEW q \in Seq(EntryT), NEW c \in EntryT, cli' = [cli EXCEPT !.q = q, !.cur = c]
  PROVE  CliNow(cli.entry, q, c, cli.proc)
  BY DEF CliT, CliNow

-----------------------------------------------------------------------------
NimNow(scn, ad, cn, lk, lks, m, in, pr) ==
  /\ nim' \in NimT /\ nim'.scan = scn /\ nim'.adv = ad /\ nim'.conn = cn /\ nim'.link = lk /\ nim'.links = lks
  /\ nim'.ind = in /\ nim'.proc = pr
  /\ nim'.mtu <=> m

LEMMA NimScan ==
  ASSUME nim \in NimT, NEW n \in Nat, nim' = [nim EXCEPT !.scan = n]
  PROVE  NimNow(n, nim.adv, nim.conn, nim.link, nim.links, nim.mtu, nim.ind, nim.proc)
  BY DEF NimT, NimNow
LEMMA NimAdv ==
  ASSUME nim \in NimT, NEW n \in Nat, nim' = [nim EXCEPT !.adv = n]
  PROVE  NimNow(nim.scan, n, nim.conn, nim.link, nim.links, nim.mtu, nim.ind, nim.proc)
  BY DEF NimT, NimNow
LEMMA NimConn ==
  ASSUME nim \in NimT, NEW n \in Nat, nim' = [nim EXCEPT !.conn = n]
  PROVE  NimNow(nim.scan, nim.adv, n, nim.link, nim.links, nim.mtu, nim.ind, nim.proc)
  BY DEF NimT, NimNow
LEMMA NimMtu ==
  ASSUME nim \in NimT, NEW b \in BOOLEAN, nim' = [nim EXCEPT !.mtu = b]
  PROVE  NimNow(nim.scan, nim.adv, nim.conn, nim.link, nim.links, b, nim.ind, nim.proc)
  BY DEF NimT, NimNow
LEMMA NimInd ==
  ASSUME nim \in NimT, NEW n \in Nat, nim' = [nim EXCEPT !.ind = n]
  PROVE  NimNow(nim.scan, nim.adv, nim.conn, nim.link, nim.links, nim.mtu, n, nim.proc)
  BY DEF NimT, NimNow
LEMMA NimProc ==
  ASSUME nim \in NimT, NEW p \in AskedT, nim' = [nim EXCEPT !.proc = p]
  PROVE  NimNow(nim.scan, nim.adv, nim.conn, nim.link, nim.links, nim.mtu, nim.ind, p)
  BY DEF NimT, NimNow
LEMMA NimLink ==
  ASSUME nim \in NimT, NEW l \in LinkT, nim' = [nim EXCEPT !.link = l]
  PROVE  NimNow(nim.scan, nim.adv, nim.conn, l, nim.links, nim.mtu, nim.ind, nim.proc)
  BY DEF NimT, NimNow

LEMMA NimLinkCb ==
  ASSUME nim \in NimT, NEW n \in Nat, nim' = [nim EXCEPT !.link.cb = n]
  PROVE  /\ NimNow(nim.scan, nim.adv, nim.conn, nim'.link, nim.links, nim.mtu, nim.ind, nim.proc)
         /\ nim'.link.id = nim.link.id /\ nim'.link.cb = n /\ nim'.link.term = nim.link.term
<1> DEFINE l == [nim.link EXCEPT !.cb = n]
<1>1. l \in LinkT /\ l.id = nim.link.id /\ l.cb = n /\ l.term = nim.link.term BY DEF NimT, LinkT
<1>2. nim' = [nim EXCEPT !.link = l] OBVIOUS
<1> HIDE DEF l
<1> QED BY <1>1, <1>2, NimLink DEF NimNow

LEMMA NimLinkTerm ==
  ASSUME nim \in NimT, NEW t \in TermT, nim' = [nim EXCEPT !.link.term = t]
  PROVE  /\ NimNow(nim.scan, nim.adv, nim.conn, nim'.link, nim.links, nim.mtu, nim.ind, nim.proc)
         /\ nim'.link.id = nim.link.id /\ nim'.link.cb = nim.link.cb /\ nim'.link.term = t
<1> DEFINE l == [nim.link EXCEPT !.term = t]
<1>1. l \in LinkT /\ l.id = nim.link.id /\ l.cb = nim.link.cb /\ l.term = t BY DEF NimT, LinkT
<1>2. nim' = [nim EXCEPT !.link = l] OBVIOUS
<1> HIDE DEF l
<1> QED BY <1>1, <1>2, NimLink DEF NimNow

LEMMA NewLinkIs ==
  ASSUME nim \in NimT, NEW a \in Nat
  PROVE  LET n == NewLink(a)
             l == [id |-> nim.links + 1, cb |-> a, term |-> "no"] IN
         /\ n \in NimT /\ n.scan = nim.scan /\ n.adv = nim.adv /\ n.conn = nim.conn /\ n.link = l
         /\ n.links = nim.links + 1 /\ n.mtu = nim.mtu /\ n.ind = nim.ind /\ n.proc = nim.proc
<1> DEFINE l == [id |-> nim.links + 1, cb |-> a, term |-> "no"]
<1>1. l \in LinkT /\ nim.links + 1 \in Nat BY DEF NimT, LinkT, TermT
<1>2. NewLink(a) = [nim EXCEPT !.links = nim.links + 1, !.link = l] BY DEF NewLink
<1> HIDE DEF l
<1>3. LET n == NewLink(a) IN
         /\ n \in NimT /\ n.scan = nim.scan /\ n.adv = nim.adv /\ n.conn = nim.conn /\ n.link = l
         /\ n.links = nim.links + 1 /\ n.mtu = nim.mtu /\ n.ind = nim.ind /\ n.proc = nim.proc
  BY <1>1, <1>2 DEF NimT
<1> QED BY <1>3 DEF l

LEMMA NimIncoming ==
  ASSUME nim \in NimT, nim' = [NewLink(0) EXCEPT !.adv = 0]
  PROVE  /\ NimNow(nim.scan, 0, nim.conn, nim'.link, nim.links + 1, nim.mtu, nim.ind, nim.proc)
         /\ nim'.link.id = nim.links + 1 /\ nim'.link.cb = 0 /\ nim'.link.term = "no"
<1> DEFINE n == NewLink(0)
<1>1. /\ n \in NimT /\ n.scan = nim.scan /\ n.conn = nim.conn
      /\ n.links = nim.links + 1 /\ n.mtu = nim.mtu /\ n.ind = nim.ind /\ n.proc = nim.proc
      /\ n.link = [id |-> nim.links + 1, cb |-> 0, term |-> "no"]
  BY NewLinkIs
<1>2. nim' = [n EXCEPT !.adv = 0] OBVIOUS
<1> HIDE DEF n
<1> QED BY <1>1, <1>2 DEF NimT, NimNow

LEMMA NimConnected ==
  ASSUME nim \in NimT, nim' = [NewLink(nim.conn) EXCEPT !.conn = 0]
  PROVE  /\ NimNow(nim.scan, nim.adv, 0, nim'.link, nim.links + 1, nim.mtu, nim.ind, nim.proc)
         /\ nim'.link.id = nim.links + 1 /\ nim'.link.cb = nim.conn /\ nim'.link.term = "no"
<1> DEFINE n == NewLink(nim.conn)
<1>0. nim.conn \in Nat BY DEF NimT
<1>1. /\ n \in NimT /\ n.scan = nim.scan /\ n.adv = nim.adv
      /\ n.links = nim.links + 1 /\ n.mtu = nim.mtu /\ n.ind = nim.ind /\ n.proc = nim.proc
      /\ n.link = [id |-> nim.links + 1, cb |-> nim.conn, term |-> "no"]
  BY <1>0, NewLinkIs
<1>2. nim' = [n EXCEPT !.conn = 0] OBVIOUS
<1> HIDE DEF n
<1> QED BY <1>1, <1>2 DEF NimT, NimNow

LEMMA NothingAsked ==
  /\ NoProc \in AskedT /\ NoProc.stage = "none" /\ NoProc.id = 0 /\ NoProc.gen = 0
  /\ NoLink \in LinkT /\ NoLink.id = 0 /\ NoLink.cb = 0 /\ NoLink.term = "no"
  BY DEF NoProc, AskedT, Stages, NoLink, LinkT, TermT

LEMMA NimLost ==
  ASSUME nim \in NimT, nim' = [nim EXCEPT !.link = NoLink, !.mtu = FALSE, !.ind = 0, !.proc = NoProc]
  PROVE  NimNow(nim.scan, nim.adv, nim.conn, NoLink, nim.links, FALSE, 0, NoProc)
  BY NothingAsked DEF NimT, NimNow

LEMMA NimForgets ==
  ASSUME nim \in NimT, NimGone
  PROVE  NimNow(0, 0, 0, NoLink, nim.links, FALSE, 0, NoProc)
  BY NothingAsked DEF NimT, NimNow, NimGone

-----------------------------------------------------------------------------
FgNow(op, at, gen) == fg' \in CallT /\ fg'.op = op /\ fg'.at = at /\ fg'.gen = gen
CbNow(kind, arg) == cb' \in CbT /\ cb'.kind = kind /\ cb'.arg = arg
ScanNow(st, gen, q, cur) ==
  scan' \in ScanT /\ scan'.st = st /\ scan'.gen = gen /\ scan'.q = q /\ scan'.cur = cur
AdvNow(st, gen) == adv' \in AdvT /\ adv'.st = st /\ adv'.gen = gen

LEMMA FgAnswers == ASSUME Answer PROVE FgNow("none", "idle", 0)
  BY DEF Answer, Idle, FgNow, CallT, Ops, GattPhases
LEMMA FgDoes ==
  ASSUME NEW op \in Ops, NEW p \in GattPhases, NEW g \in Nat, Do(op, p, g)
  PROVE  FgNow(op, p, g)
  BY DEF Do, FgNow, CallT
LEMMA FgGoes ==
  ASSUME fg \in CallT, NEW p \in RadioPhases \cup GattPhases, Go(p)
  PROVE  FgNow(fg.op, p, fg.gen)
  BY DEF Go, FgNow, CallT
LEMMA FgArms ==
  ASSUME fg \in CallT, NEW p \in GattPhases, NEW g \in Nat, fg' = [fg EXCEPT !.at = p, !.gen = g]
  PROVE  FgNow(fg.op, p, g)
  BY DEF FgNow, CallT
LEMMA CbEnds == ASSUME cb' = NoCb PROVE CbNow("none", 0)
  BY DEF NoCb, CbNow, CbT, CbKinds
LEMMA CbIs ==
  ASSUME NEW k \in CbKinds, NEW a \in Nat, cb' = [kind |-> k, arg |-> a] PROVE CbNow(k, a)
  BY DEF CbNow, CbT
LEMMA ScanIs ==
  ASSUME NEW s \in UseStates, NEW g \in Nat, NEW q \in Seq(Nat), NEW c \in Nat,
         scan' = [st |-> s, gen |-> g, q |-> q, cur |-> c]
  PROVE  ScanNow(s, g, q, c)
  BY DEF ScanNow, ScanT
LEMMA ScanSt ==
  ASSUME scan \in ScanT, NEW s \in UseStates, scan' = [scan EXCEPT !.st = s]
  PROVE  ScanNow(s, scan.gen, scan.q, scan.cur)
  BY DEF ScanNow, ScanT
LEMMA ScanCur ==
  ASSUME scan \in ScanT, NEW c \in Nat, scan' = [scan EXCEPT !.cur = c]
  PROVE  ScanNow(scan.st, scan.gen, scan.q, c)
  BY DEF ScanNow, ScanT
LEMMA ScanStops ==
  ASSUME scan \in ScanT, scan' = [scan EXCEPT !.cur = 0, !.st = "STOPPING"]
  PROVE  ScanNow("STOPPING", scan.gen, scan.q, 0)
  BY DEF ScanNow, ScanT, UseStates
LEMMA ScanTaken ==
  ASSUME scan \in ScanT, NEW q \in Seq(Nat), NEW c \in Nat, scan' = [scan EXCEPT !.cur = c, !.q = q]
  PROVE  ScanNow(scan.st, scan.gen, q, c)
  BY DEF ScanNow, ScanT
LEMMA ScanQueued ==
  ASSUME scan \in ScanT, NEW q \in Seq(Nat), scan' = [scan EXCEPT !.q = q]
  PROVE  ScanNow(scan.st, scan.gen, q, scan.cur)
  BY DEF ScanNow, ScanT
LEMMA AdvIs ==
  ASSUME NEW s \in UseStates, NEW g \in Nat, adv' = [st |-> s, gen |-> g] PROVE AdvNow(s, g)
  BY DEF AdvNow, AdvT
LEMMA AdvSt ==
  ASSUME adv \in AdvT, NEW s \in UseStates, adv' = [adv EXCEPT !.st = s] PROVE AdvNow(s, adv.gen)
  BY DEF AdvNow, AdvT

-----------------------------------------------------------------------------
Core == LinkInv /\ PlaceInv /\ SubInv /\ DataInv /\ IndInv /\ ProcInv /\ MtuInv

\* What the types say of the fields.
ConnOk ==
  /\ conn.gen \in Nat /\ conn.link \in Nat /\ conn.st \in ConnStates /\ conn.role \in ConnRoles
  /\ conn.h \in BOOLEAN /\ conn.ref \in BOOLEAN /\ conn.done \in BOOLEAN /\ conn.mtu \in BOOLEAN /\ conn.par \in BOOLEAN
IndOk == srv.ind.pending \in BOOLEAN /\ srv.ind.gen \in Nat /\ srv.ind.id \in Nat /\ srv.ind.answer \in Nat
QueuesOk ==
  /\ srv.q \in Seq(EntryT) /\ srv.cur \in EntryT /\ cli.q \in Seq(EntryT) /\ cli.cur \in EntryT
  /\ scan.q \in Seq(Nat) /\ scan.cur \in Nat /\ notices \in Seq(Nat)
ProcOk ==
  /\ cli.proc.pending \in BOOLEAN /\ cli.proc.abandoned \in BOOLEAN /\ cli.proc.complete \in BOOLEAN
  /\ cli.proc.stage \in Stages /\ cli.proc.gen \in Nat /\ cli.proc.id \in Nat /\ cli.proc.mode \in ClientModes
  /\ cli.proc.answer \in Nat
NimOk ==
  /\ nim.scan \in Nat /\ nim.adv \in Nat /\ nim.conn \in Nat /\ nim.links \in Nat /\ nim.mtu \in BOOLEAN /\ nim.ind \in Nat
  /\ nim.link.id \in Nat /\ nim.link.cb \in Nat /\ nim.link.term \in TermT
  /\ nim.proc.gen \in Nat /\ nim.proc.id \in Nat /\ nim.proc.stage \in Stages
PlacesOk ==
  /\ fg.at \in RadioPhases \cup GattPhases /\ fg.gen \in Nat /\ fg.op \in Ops /\ fg.stay \in BOOLEAN
  /\ cb.kind \in CbKinds /\ cb.arg \in Nat
UseOk == scan.st \in UseStates /\ scan.gen \in Nat /\ adv.st \in UseStates /\ adv.gen \in Nat /\ heard \in Nat

LEMMA TypesFlat == Types => ConnOk /\ IndOk /\ QueuesOk /\ ProcOk /\ NimOk /\ PlacesOk /\ UseOk
<1> SUFFICES ASSUME Types PROVE ConnOk /\ IndOk /\ QueuesOk /\ ProcOk /\ NimOk /\ PlacesOk /\ UseOk OBVIOUS
<1>1. conn \in ConnT /\ srv \in SrvT /\ cli \in CliT /\ nim \in NimT /\ fg \in CallT /\ cb \in CbT
      /\ scan \in ScanT /\ adv \in AdvT /\ notices \in Seq(Nat) /\ heard \in Nat BY DEF Types
<1>2. srv.ind \in IndT /\ cli.proc \in ProcT /\ nim.link \in LinkT /\ nim.proc \in AskedT
  BY <1>1 DEF SrvT, CliT, NimT
<1>3. srv.q \in Seq(EntryT) /\ srv.cur \in EntryT /\ cli.q \in Seq(EntryT) /\ cli.cur \in EntryT
  BY <1>1 DEF SrvT, CliT
<1>4. ConnOk BY <1>1 DEF ConnT, ConnOk
<1>5. IndOk BY <1>2 DEF IndT, IndOk
<1>6. scan.q \in Seq(Nat) /\ scan.cur \in Nat BY <1>1 DEF ScanT
<1>7. ProcOk BY <1>2 DEF ProcT, ProcOk
<1>8. nim.scan \in Nat /\ nim.adv \in Nat /\ nim.conn \in Nat /\ nim.links \in Nat /\ nim.mtu \in BOOLEAN
      /\ nim.ind \in Nat BY <1>1 DEF NimT
<1>9. NimOk BY <1>2, <1>8 DEF LinkT, AskedT, NimOk
<1>10. PlacesOk BY <1>1 DEF CallT, CbT, PlacesOk
<1>11. UseOk BY <1>1 DEF ScanT, AdvT, UseOk
<1>12. QueuesOk BY <1>1, <1>3, <1>6 DEF QueuesOk
<1> QED BY <1>4, <1>5, <1>7, <1>9, <1>10, <1>11, <1>12

-----------------------------------------------------------------------------
(* What a step of the driver does to the records, where it takes an argument *)

LEMMA Terminates ==
  ASSUME Types, nim' \in {Terminated, TerminateRefused}
  PROVE  /\ NimNow(nim.scan, nim.adv, nim.conn, nim'.link, nim.links, nim.mtu, nim.ind, nim.proc)
         /\ nim'.link.id = nim.link.id /\ nim'.link.cb = nim.link.cb /\ (LinkUp => nim'.link.term # "no")
<1>1. nim \in NimT /\ nim.link.term \in TermT BY TypesFlat DEF Types, NimOk
<1>2. CASE nim' = Terminated
  <2> DEFINE t == IF LinkUp THEN "sent" ELSE nim.link.term
  <2>1. t \in TermT BY <1>1 DEF TermT
  <2>2. nim' = [nim EXCEPT !.link.term = t] BY <1>2 DEF Terminated
  <2>3. LinkUp => t # "no" OBVIOUS
  <2> HIDE DEF t
  <2> QED BY <1>1, <2>1, <2>2, <2>3, NimLinkTerm
<1>3. CASE nim' = TerminateRefused
  <2> DEFINE t == IF nim.link.term = "no" THEN "refused" ELSE nim.link.term
  <2>1. t \in TermT BY <1>1 DEF TermT
  <2>2. nim' = [nim EXCEPT !.link.term = t] BY <1>3 DEF TerminateRefused
  <2>3. t # "no" OBVIOUS
  <2> HIDE DEF t
  <2> QED BY <1>1, <2>1, <2>2, <2>3, NimLinkTerm
<1> QED BY <1>2, <1>3

LEMMA AbandonedScan ==
  ASSUME Types, AbandonScan
  PROVE  ScanNow("IDLE", scan'.gen, <<>>, 0) /\ scan'.gen >= scan.gen
<1> DEFINE g == scan.gen + (IF scan.st # "IDLE" \/ scan.q # <<>> \/ scan.cur # 0 THEN 1 ELSE 0)
<1>1. scan.gen \in Nat BY TypesFlat DEF UseOk
<1>2. g \in Nat /\ g >= scan.gen BY <1>1
<1>3. scan' = [st |-> "IDLE", q |-> <<>>, cur |-> 0, gen |-> g] BY DEF AbandonScan
<1> HIDE DEF g
<1> QED BY <1>2, <1>3, ScanIs, Constants DEF UseStates, ScanNow

LEMMA AbandonedAdv ==
  ASSUME Types, AbandonAdv
  PROVE  AdvNow("IDLE", adv'.gen) /\ adv'.gen >= adv.gen
<1> DEFINE g == adv.gen + (IF adv.st # "IDLE" THEN 1 ELSE 0)
<1>1. adv.gen \in Nat BY TypesFlat DEF UseOk
<1>2. g \in Nat /\ g >= adv.gen BY <1>1
<1>3. adv' = [st |-> "IDLE", gen |-> g] BY DEF AbandonAdv
<1> HIDE DEF g
<1> QED BY <1>2, <1>3, AdvIs DEF UseStates, AdvNow

LEMMA ClearedConn ==
  ASSUME Types, conn' = FreeConn(conn.gen + (IF conn.st = "FREE" THEN 0 ELSE 1))
  PROVE  /\ ConnNow("FREE", "none", conn'.gen, FALSE, FALSE, FALSE, FALSE, FALSE, 0)
         /\ conn'.gen \in Nat /\ conn'.gen >= conn.gen /\ (conn.st # "FREE" => conn'.gen # conn.gen)
<1> DEFINE g == conn.gen + (IF conn.st = "FREE" THEN 0 ELSE 1)
<1>1. conn.gen \in Nat BY TypesFlat DEF ConnOk
<1>2. g \in Nat /\ g >= conn.gen /\ (conn.st # "FREE" => g # conn.gen) BY <1>1
<1>3. conn' = FreeConn(g) OBVIOUS
<1> HIDE DEF g
<1> QED BY <1>2, <1>3, ConnFree DEF ConnNow

LEMMA ConnMtuEnds ==
  ASSUME conn \in ConnT, conn' = IF fg.gen = conn.gen /\ conn.h THEN [conn EXCEPT !.mtu = FALSE] ELSE conn
  PROVE  ConnNow(conn.st, conn.role, conn.gen, conn.h, conn.ref, conn.done,
                 (conn.mtu /\ ~(fg.gen = conn.gen /\ conn.h)), conn.par, conn.link)
<1>1. CASE fg.gen = conn.gen /\ conn.h BY <1>1, ConnMtu DEF ConnNow
<1>2. CASE ~(fg.gen = conn.gen /\ conn.h) BY <1>2 DEF ConnNow, ConnT
<1> QED BY <1>1, <1>2

LEMMA ScanCallEnds ==
  ASSUME scan \in ScanT, scan' = IF fg.gen = scan.gen /\ scan.st = "ACTIVE" THEN [scan EXCEPT !.st = "IDLE"] ELSE scan
  PROVE  ScanNow((IF fg.gen = scan.gen /\ scan.st = "ACTIVE" THEN "IDLE" ELSE scan.st), scan.gen, scan.q, scan.cur)
<1>1. CASE fg.gen = scan.gen /\ scan.st = "ACTIVE" BY <1>1, ScanSt DEF ScanNow, UseStates
<1>2. CASE ~(fg.gen = scan.gen /\ scan.st = "ACTIVE") BY <1>2 DEF ScanNow, ScanT
<1> QED BY <1>1, <1>2

LEMMA AdvCallEnds ==
  ASSUME adv \in AdvT, adv' = IF fg.gen = adv.gen THEN [adv EXCEPT !.st = "IDLE"] ELSE adv
  PROVE  AdvNow((IF fg.gen = adv.gen THEN "IDLE" ELSE adv.st), adv.gen)
<1>1. CASE fg.gen = adv.gen BY <1>1, AdvSt DEF AdvNow, UseStates
<1>2. CASE fg.gen # adv.gen BY <1>2 DEF AdvNow, AdvT
<1> QED BY <1>1, <1>2

LEMMA SrvIndRefused ==
  ASSUME srv \in SrvT, srv' = IF srv.ind.gen = fg.gen THEN [srv EXCEPT !.ind.pending = FALSE] ELSE srv
  PROVE  SrvNow(srv.sub, srv.q, srv.cur, srv'.ind) /\ IndKept(srv.ind.pending /\ srv.ind.gen # fg.gen)
<1>1. CASE srv.ind.gen = fg.gen BY <1>1, SrvIndEnds DEF IndKept
<1>2. CASE srv.ind.gen # fg.gen BY <1>2 DEF IndKept, SrvNow, SrvT
<1> QED BY <1>1, <1>2

LEMMA SrvSubscribes ==
  ASSUME Types, RemoteSubscribe
  PROVE  SrvNow(srv'.sub, srv.q, srv.cur, srv.ind) /\ (srv'.sub.mode # "none" => srv'.sub.gen = conn.gen)
<1>1. PICK m \in {"none", "notify", "indicate"} :
        srv' = [srv EXCEPT !.sub = IF m = "none" THEN ServerOff.sub ELSE [gen |-> conn.gen, mode |-> m]]
  BY DEF RemoteSubscribe
<1> DEFINE s == IF m = "none" THEN NoSub ELSE [gen |-> conn.gen, mode |-> m]
<1>2. conn.gen \in Nat BY TypesFlat DEF ConnOk
<1>3. s \in SubT /\ (s.mode # "none" => s.gen = conn.gen) BY <1>2, Constants DEF SubT
<1>4. srv' = [srv EXCEPT !.sub = s] BY <1>1, Constants
<1> HIDE DEF s
<1>5. SrvNow(s, srv.q, srv.cur, srv.ind) BY <1>3, <1>4, SrvSubscribed DEF Types
<1> QED BY <1>3, <1>5 DEF SrvNow

Pushed(q) == Append(IF Len(q) = ScanQueue THEN Tail(q) ELSE q, heard)

LEMMA PushedIs ==
  ASSUME NEW q \in Seq(Nat), heard \in Nat PROVE Pushed(q) \in Seq(Nat)
<1>1. CASE q = <<>> \/ Len(q) # ScanQueue
  <2>1. Pushed(q) = Append(q, heard)
    BY <1>1, LinkAssumption DEF Pushed
  <2> QED BY <2>1
<1>2. CASE q # <<>> /\ Len(q) = ScanQueue
  <2>1. Tail(q) \in Seq(Nat) BY <1>2
  <2> QED BY <1>2, <2>1 DEF Pushed
<1> QED BY <1>1, <1>2

\* A set of numbers has a least one, which is the one Min picks.
LEMMA BelowIsWellFounded ==
    \E W : IsWellFoundedOn(W, Nat) /\ \A x, y \in Nat : y < x => <<y, x>> \in W
<1>1. IsWellFoundedOn(OpToRel(<, Nat), Nat) BY NatLessThanWellFounded
<1>2. \A x, y \in Nat : y < x => <<y, x>> \in OpToRel(<, Nat) BY DEF OpToRel
<1> QED BY <1>1, <1>2

LEMMA Least ==
  ASSUME NEW S, S \subseteq Nat, S # {}
  PROVE  Min(S) \in S /\ \A y \in S : Min(S) <= y
<1>1. PICK W : IsWellFoundedOn(W, Nat) /\ \A x, y \in Nat : y < x => <<y, x>> \in W BY BelowIsWellFounded
<1>2. PICK x \in S : \A y \in S : <<y, x>> \notin W BY <1>1, WFMin
<1>3. ASSUME NEW y \in S PROVE x <= y
  <2>1. x \in Nat /\ y \in Nat OBVIOUS
  <2>2. ~(y < x) BY <1>1, <1>2, <2>1
  <2> QED BY <2>1, <2>2
<1> QED BY <1>3 DEF Min

\* The notice at the front of what is found is of the connection that waits.
LEMMA FoundIs ==
  ASSUME notices \in Seq(Nat)
  PROVE  /\ Found(notices) \in Seq(Nat)
         /\ Found(notices) # <<>> => conn.st = "PENDING" /\ Tail(Found(notices)) \in Seq(Nat)
         /\ Len(Found(notices)) <= Len(notices)
<1> DEFINE here == {i \in DOMAIN notices : NoticeIsCurrent(notices[i])}
<1>1. here \subseteq Nat BY DEF here
<1>2. CASE here = {} BY <1>2 DEF Found
<1>3. CASE here # {}
  <2>1. Min(here) \in here BY <1>1, <1>3, Least
  <2>2. conn.st = "PENDING" BY <2>1 DEF NoticeIsCurrent
  <2>3. Min(here) \in 1 .. Len(notices) BY <2>1
  <2>4. Found(notices) = SubSeq(notices, Min(here), Len(notices)) BY <1>3 DEF Found
  <2> HIDE DEF here
  <2> QED BY <2>2, <2>3, <2>4
<1> QED BY <1>2, <1>3

\* What is handed out is the first entry of the connection of now, if any.
LEMMA NextIs ==
  ASSUME NEW q \in Seq(EntryT)
  PROVE  \/ NextOf(q) = [cur |-> NoWrite, q |-> <<>>]
         \/ \E i \in 1 .. Len(q) :
              /\ ~Stale(q[i])
              /\ NextOf(q) = [cur |-> [q[i] EXCEPT !.to = conn.link], q |-> SubSeq(q, i + 1, Len(q))]
<1> DEFINE fresh == {i \in DOMAIN q : ~Stale(q[i])}
<1>1. fresh \subseteq Nat BY DEF fresh
<1>2. CASE fresh = {} BY <1>2 DEF NextOf
<1>3. CASE fresh # {}
  <2> DEFINE i == Min(fresh)
  <2>1. i \in fresh BY <1>1, <1>3, Least
  <2>2. i \in 1 .. Len(q) /\ ~Stale(q[i]) BY <2>1
  <2>3. NextOf(q) = [cur |-> [q[i] EXCEPT !.to = conn.link], q |-> SubSeq(q, i + 1, Len(q))] BY <1>3 DEF NextOf
  <2> HIDE DEF i, fresh
  <2> QED BY <2>2, <2>3
<1> QED BY <1>2, <1>3

LEMMA Handed ==
  ASSUME NEW e \in EntryT, NEW l \in Nat
  PROVE  LET d == [e EXCEPT !.to = l] IN d \in EntryT /\ d.gen = e.gen /\ d.link = e.link /\ d.id = e.id /\ d.to = l
  BY DEF EntryT

LEMMA RestIs ==
  ASSUME NEW q \in Seq(EntryT), NEW i \in 1 .. Len(q)
  PROVE  LET r == SubSeq(q, i + 1, Len(q)) IN
         r \in Seq(EntryT) /\ Len(r) = Len(q) - i /\ \A j \in 1 .. Len(r) : r[j] = q[i + j] /\ i + j \in 1 .. Len(q)
<1> DEFINE r == SubSeq(q, i + 1, Len(q))
<1>1. i \in Nat /\ i >= 1 /\ i <= Len(q) /\ Len(q) \in Nat OBVIOUS
<1>2. r \in Seq(EntryT) /\ Len(r) = Len(q) - i BY <1>1
<1>3. \A j \in 1 .. Len(r) : r[j] = q[i + j] /\ i + j \in 1 .. Len(q)
  <2> SUFFICES ASSUME NEW j \in 1 .. Len(q) - i PROVE r[j] = q[i + j] /\ i + j \in 1 .. Len(q) BY <1>2
  <2>1. j \in Nat /\ j >= 1 /\ i + j <= Len(q) BY <1>1
  <2>2. i + 1 + j - 1 = i + j BY <1>1, <2>1
  <2> QED BY <1>1, <2>1, <2>2
<1> QED BY <1>2, <1>3

LEMMA NextTypes ==
  ASSUME NEW q \in Seq(EntryT), conn.link \in Nat
  PROVE  NextOf(q).q \in Seq(EntryT) /\ NextOf(q).cur \in EntryT
<1>1. CASE NextOf(q) = [cur |-> NoWrite, q |-> <<>>] BY <1>1, Constants
<1>2. ASSUME NEW i \in 1 .. Len(q),
             NextOf(q) = [cur |-> [q[i] EXCEPT !.to = conn.link], q |-> SubSeq(q, i + 1, Len(q))]
      PROVE  NextOf(q).q \in Seq(EntryT) /\ NextOf(q).cur \in EntryT
  <2>1. q[i] \in EntryT OBVIOUS
  <2>2. SubSeq(q, i + 1, Len(q)) \in Seq(EntryT) BY RestIs
  <2>3. [q[i] EXCEPT !.to = conn.link] \in EntryT BY <2>1, Handed
  <2> QED BY <1>2, <2>2, <2>3
<1> QED BY <1>1, <1>2, NextIs

LEMMA SubscribeAsks ==
  ASSUME Types, Subscribe
  PROVE  /\ CliNow(cli.entry, cli.q, cli.cur, cli'.proc)
         /\ ProcNow(TRUE, FALSE, FALSE, "subscribe", conn.gen, heard + 1, cli'.proc.mode, 0)
<1>1. PICK m \in {"none", "notify"} : Ask("subscribe", m) BY DEF Subscribe
<1>2. conn.gen \in Nat /\ heard + 1 \in Nat BY TypesFlat DEF ConnOk, UseOk
<1>3. "subscribe" \in Stages /\ m \in ClientModes BY DEF Stages, ClientModes
<1>4. cli' = [cli EXCEPT !.proc = NewProc("subscribe", conn.gen, heard + 1, m)] BY <1>1 DEF Ask, NewProc
<1> QED BY <1>2, <1>3, <1>4, CliAsked DEF Types, ProcNow

-----------------------------------------------------------------------------
(* One lemma per action *)

\* A clear stands in its own sections.
CallInv == fg.at \in {"clear.adv"} \cup Clearing => fg.op = "clear" /\ fg.gen = 0 /\ fg.stay

Inv == Types /\ CallInv /\ LinkInv /\ PlaceInv /\ SubInv /\ DataInv /\ IndInv /\ ProcInv /\ MtuInv

\* Where a call answers for something, and where it excuses something.
Bound == Holding \cup Closing \cup Clearing \cup {"connect.call", "connect.wait", "clear.adv"}
Excused == {"ind.call", "mtu.call", "clear.server", "clear.client", "cli.call", "cli.wait", "cli.next", "cli.abandon"}

NimKept ==
  /\ nim'.conn = nim.conn /\ nim'.ind = nim.ind /\ nim'.proc = nim.proc
  /\ nim'.link.id = nim.link.id /\ nim'.link.cb = nim.link.cb
  /\ nim'.mtu <=> nim.mtu
CbAside ==
  \/ cb' = cb
  \/ cb.kind \notin {"accept", "down"} /\ cb'.kind \notin {"accept", "down"}
HostAside ==
  \/ host' = host /\ (cb'.kind # "none" => cb.kind # "none" \/ host = "running")
  \/ host' = "running"
  \/ cb'.kind = "none" /\ nim.link.id = 0 /\ nim.conn = 0
CallAside ==
  \/ fg' = fg /\ (adv.st = "IDLE" => adv'.st = "IDLE")
  \/ fg.at \notin Excused /\ fg'.at \notin Bound

\* A step that leaves the connection and GATT alone.
Aside == UNCHANGED <<conn, notices, srv, cli>> /\ NimKept /\ CbAside /\ HostAside /\ CallAside

LEMMA AsideKeeps ==
  ASSUME Inv, Types', Aside
  PROVE  Inv'
<1>0. ConnOk /\ IndOk /\ QueuesOk /\ ProcOk /\ NimOk /\ PlacesOk /\ UseOk
  BY TypesFlat DEF Inv
<1>1. UNCHANGED <<conn, srv, cli>> BY DEF Aside
<1>2. notices' = notices BY DEF Aside
<1>3. ASSUME fg' = fg /\ (adv.st = "IDLE" => adv'.st = "IDLE")
      PROVE  CallInv' /\ PlaceInv' /\ IndInv' /\ ProcInv' /\ MtuInv'
  <2>1. CallInv' BY <1>3 DEF Inv, CallInv
  <2>2. PlaceInv' BY <1>1, <1>2, <1>3 DEF Inv, PlaceInv, Aside, NimKept
  <2>3. IndInv' BY <1>1, <1>3 DEF Inv, IndInv, LinkUp, Aside, NimKept
  <2>4. ProcA' /\ ProcB' /\ ProcC' BY <1>1, <1>3 DEF Inv, ProcInv, ProcA, ProcB, ProcC, LinkUp, Aside, NimKept
  <2>5. MtuInv' BY <1>1, <1>3 DEF Inv, MtuInv, LinkUp, Aside, NimKept
  <2> QED BY <2>1, <2>2, <2>3, <2>4, <2>5 DEF ProcInv
<1>4. ASSUME fg.at \notin Excused /\ fg'.at \notin Bound
      PROVE  CallInv' /\ PlaceInv' /\ IndInv' /\ ProcInv' /\ MtuInv'
  <2>1. CallInv' BY <1>4 DEF CallInv, Bound
  <2>2. PlaceInv' BY <1>4 DEF PlaceInv, Bound, Clearing
  <2>3. IndInv' BY <1>1, <1>4 DEF Inv, IndInv, LinkUp, Aside, NimKept, Excused, Bound, Holding
  <2>4. ProcA' BY <1>1 DEF Inv, ProcInv, ProcA, Aside, NimKept
  <2>5. ProcB' BY <1>1, <1>4 DEF Inv, ProcInv, ProcB, LinkUp, Aside, NimKept, Bound, Holding
  <2>6. ProcC' BY <1>1, <1>4 DEF Inv, ProcInv, ProcC, LinkUp, Aside, NimKept, Excused, Bound, Holding
  <2>7. MtuInv' BY <1>1, <1>4 DEF Inv, MtuInv, LinkUp, Aside, NimKept, Excused
  <2> QED BY <2>1, <2>2, <2>3, <2>4, <2>5, <2>6, <2>7 DEF ProcInv
<1>5. LinkInv'
  <2>1. CASE cb' = cb BY <2>1, <1>1 DEF Inv, LinkInv, LinkUp, Aside, NimKept, HostAside
  <2>2. CASE cb.kind \notin {"accept", "down"} /\ cb'.kind \notin {"accept", "down"}
    BY <2>2, <1>1 DEF Inv, LinkInv, LinkUp, Aside, NimKept, HostAside
  <2> QED BY <2>1, <2>2 DEF Aside, CbAside
<1>6. SubInv' /\ DataInv' BY <1>1 DEF Inv, SubInv, DataInv
<1> QED BY <1>3, <1>4, <1>5, <1>6 DEF Inv, Aside, CallAside

LEMMA DataStays ==
  ASSUME NEW q \in Seq(EntryT), NEW g \in Nat, NEW g2 \in Nat, NEW l, NEW l2, NEW s, NEW s2,
         DataAt(q, g, l, s),
         g2 > g \/ (g2 = g /\ (s2 = "FREE" \/ (s # "FREE" /\ (l2 = l \/ l = 0))))
  PROVE  DataAt(q, g2, l2, s2)
<1> SUFFICES ASSUME NEW i \in DOMAIN q
             PROVE  q[i].gen <= g2 /\ (q[i].gen = g2 /\ s2 # "FREE" => q[i].link = l2 /\ l2 # 0)
  BY DEF DataAt
<1>1. q[i] \in EntryT OBVIOUS
<1>2. q[i].gen \in Nat BY <1>1 DEF EntryT
<1>3. q[i].gen <= g /\ (q[i].gen = g /\ s # "FREE" => q[i].link = l /\ l # 0) BY DEF DataAt
<1> HIDE DEF DataAt
<1> QED BY <1>2, <1>3

\* The queues of GATT are left alone or emptied, what was taken is kept or
\* dropped, and the connection stays, ends, gets its link or makes room for
\* another one.
GattQuiet ==
  /\ srv'.q \in {srv.q, <<>>} /\ srv'.cur \in {srv.cur, NoWrite}
  /\ cli'.q \in {cli.q, <<>>} /\ cli'.cur \in {cli.cur, NoWrite}
QueuesQuiet ==
  /\ GattQuiet /\ heard' \in {heard, heard + 1}
  /\ scan'.q \in {scan.q, <<>>} /\ scan'.cur \in {scan.cur, 0}
ConnGrows ==
  \/ conn'.gen > conn.gen
  \/ /\ conn'.gen = conn.gen
     /\ conn'.st = "FREE" \/ (conn.st # "FREE" /\ (conn'.link = conn.link \/ conn.link = 0))

LEMMA DataKept ==
  ASSUME Types, Types', DataInv, GattQuiet, ConnGrows
  PROVE  DataInv'
<1>1. conn.gen \in Nat /\ srv.q \in Seq(EntryT) /\ cli.q \in Seq(EntryT)
  BY TypesFlat DEF ConnOk, QueuesOk
<1>2. conn'.gen \in Nat BY DEF Types, ConnT
<1> DEFINE g == conn.gen
           g2 == conn'.gen
           l2 == conn'.link
           s2 == conn'.st
<1>3. g2 > g \/ (g2 = g /\ (s2 = "FREE" \/ (conn.st # "FREE" /\ (l2 = conn.link \/ conn.link = 0)))) BY DEF ConnGrows
<1>8. g \in Nat /\ g2 \in Nat BY <1>1, <1>2
<1>9. DataAt(srv.q, g, conn.link, conn.st) /\ DataAt(cli.q, g, conn.link, conn.st) BY DEF DataInv
<1> HIDE DEF g, g2, l2, s2
<1>10. DataAt(srv.q, g2, l2, s2) BY <1>1, <1>3, <1>8, <1>9, DataStays
<1>11. DataAt(cli.q, g2, l2, s2) BY <1>1, <1>3, <1>8, <1>9, DataStays
<1> USE DEF g, g2, l2, s2
<1>4. DataAt(srv.q, conn'.gen, conn'.link, conn'.st) BY <1>10
<1>5. DataAt(cli.q, conn'.gen, conn'.link, conn'.st) BY <1>11
<1>6. DataAt(<<>>, conn'.gen, conn'.link, conn'.st) BY DEF DataAt
<1>7. srv'.cur.to = srv'.cur.link /\ cli'.cur.to = cli'.cur.link BY Constants DEF DataInv, GattQuiet
<1> QED BY <1>4, <1>5, <1>6, <1>7 DEF DataInv, GattQuiet

LEMMA DataAppends ==
  ASSUME NEW q \in Seq(EntryT), NEW e \in EntryT, NEW l, NEW s, DataAt(q, e.gen, l, s), e.link = l, l # 0
  PROVE  DataAt(Append(q, e), e.gen, l, s)
<1> DEFINE r == Append(q, e)
<1> SUFFICES ASSUME NEW i \in 1 .. Len(q) + 1
             PROVE  r[i].gen <= e.gen /\ (r[i].gen = e.gen /\ s # "FREE" => r[i].link = l /\ l # 0)
  BY DEF DataAt
<1>1. e.gen \in Nat BY DEF EntryT
<1>2. CASE i = Len(q) + 1
  <2>1. r[i] = e BY <1>2
  <2> HIDE DEF r
  <2> QED BY <1>1, <2>1
<1>3. CASE i \in 1 .. Len(q)
  <2>1. r[i] = q[i] BY <1>3
  <2>2. q[i].gen <= e.gen /\ (q[i].gen = e.gen /\ s # "FREE" => q[i].link = l /\ l # 0) BY <1>3 DEF DataAt
  <2> HIDE DEF r
  <2> QED BY <2>1, <2>2
<1> QED BY <1>2, <1>3

LEMMA NextData ==
  ASSUME NEW q \in Seq(EntryT), ConnOk, DataAt(q, conn.gen, conn.link, conn.st)
  PROVE  /\ DataAt(NextOf(q).q, conn.gen, conn.link, conn.st)
         /\ NextOf(q).cur.to = NextOf(q).cur.link
<1>0. conn.link \in Nat BY DEF ConnOk
<1>1. CASE NextOf(q) = [cur |-> NoWrite, q |-> <<>>] BY <1>1, Constants DEF DataAt
<1>2. ASSUME NEW i \in 1 .. Len(q), ~Stale(q[i]),
             NextOf(q) = [cur |-> [q[i] EXCEPT !.to = conn.link], q |-> SubSeq(q, i + 1, Len(q))]
      PROVE  /\ DataAt(NextOf(q).q, conn.gen, conn.link, conn.st)
             /\ NextOf(q).cur.to = NextOf(q).cur.link
  <2> DEFINE r == SubSeq(q, i + 1, Len(q))
             d == [q[i] EXCEPT !.to = conn.link]
  <2>1. q[i] \in EntryT OBVIOUS
  <2>2. q[i].gen = conn.gen /\ conn.st # "FREE" BY <1>2 DEF Stale
  <2>3. q[i].link = conn.link BY <2>2 DEF DataAt
  <2>4. d.to = conn.link /\ d.link = q[i].link BY <1>0, <2>1, Handed
  <2>5. Len(r) \in Nat /\ r \in Seq(EntryT) /\ \A j \in 1 .. Len(r) : r[j] = q[i + j] /\ i + j \in 1 .. Len(q) BY RestIs
  <2>6. NextOf(q).q = r /\ NextOf(q).cur = d BY <1>2
  <2> HIDE DEF r, d
  <2>7. DataAt(r, conn.gen, conn.link, conn.st) BY <2>5 DEF DataAt
  <2> QED BY <2>3, <2>4, <2>6, <2>7
<1> QED BY <1>1, <1>2, NextIs

LEMMA EntryData ==
  ASSUME Types, LinkInv, LinkUp, conn.h, NEW q \in Seq(EntryT), NEW n \in Nat,
         DataAt(q, conn.gen, conn.link, conn.st)
  PROVE  DataAt(Append(q, [gen |-> conn.gen, link |-> nim.link.id, id |-> n, to |-> 0]), conn.gen, conn.link, conn.st)
<1> DEFINE e == [gen |-> conn.gen, link |-> nim.link.id, id |-> n, to |-> 0]
<1>1. ConnOk /\ NimOk BY TypesFlat
<1>2. e \in EntryT /\ e.gen = conn.gen /\ e.link = nim.link.id BY <1>1 DEF EntryT, ConnOk, NimOk
<1>3. nim.link.id = conn.link /\ conn.link # 0 BY DEF LinkInv, LinkUp
<1> HIDE DEF e
<1>4. DataAt(Append(q, e), conn.gen, conn.link, conn.st) BY <1>2, <1>3, DataAppends
<1> QED BY <1>4 DEF e

LEMMA ScanStartKeeps ==
  ASSUME Inv, ScanStart
  PROVE  Inv' /\ QueuesQuiet
<1>0. ConnOk /\ IndOk /\ QueuesOk /\ ProcOk /\ NimOk /\ PlacesOk /\ UseOk
  BY TypesFlat DEF Inv
<1>1. fg.at = "idle"
  BY <1>0 DEF At, Calls, ScanStart, Inv
<1>2. scan.gen + 1 \in Nat
  BY <1>0 DEF UseOk, Inv
<1>3. ScanNow("ACTIVE", scan.gen + 1, <<>>, 0)
  BY <1>0, <1>2, ScanIs, Constants DEF Types, UseStates, QueuesOk, ScanStart, Inv
<1>4. FgNow("scan", "scan.call", scan.gen + 1)
  BY <1>0, <1>2, FgDoes DEF Ops, GattPhases, Holding, Closing, Clearing, ScanStart, Inv
<1>5. UNCHANGED <<nim, cb, conn>>
  BY <1>0 DEF ScanStart, Calls, LeaveRadio, KeepConn, flags, stack
<1>6. UNCHANGED <<srv, cli>>
  BY <1>0 DEF ScanStart, Calls, LeaveRadio, KeepConn, flags, stack
<1>7. UNCHANGED <<roles, adv, heard, notices, host, radio>>
  BY <1>0 DEF ScanStart, Calls, LeaveRadio, KeepConn, flags, stack
<1>8. Types' BY <1>0, <1>1, <1>2, <1>3, <1>4, <1>5, <1>6, <1>7 DEF Types, FgNow, ScanNow, Inv
<1>9. Aside BY <1>0, <1>1, <1>4, <1>5, <1>6, <1>7 DEF Aside, NimKept, CbAside, HostAside, CallAside, FgNow, LinkUp,
    Excused, Bound, Holding, Closing, Clearing, ConnOk, IndOk, ProcOk, NimOk, PlacesOk, Inv
<1>10. QueuesQuiet BY <1>0, <1>2, <1>3, <1>6, <1>7 DEF QueuesQuiet, GattQuiet, ScanNow, Inv
<1> QED BY <1>8, <1>9, <1>10, AsideKeeps

LEMMA ScanCallKeeps ==
  ASSUME Inv, ScanCall
  PROVE  Inv' /\ QueuesQuiet
<1>0. ConnOk /\ IndOk /\ QueuesOk /\ ProcOk /\ NimOk /\ PlacesOk /\ UseOk
  BY TypesFlat DEF Inv
<1>1. CASE /\ host = "running" /\ enabled /\ nim.scan = 0
           /\ nim' = [nim EXCEPT !.scan = fg.gen] /\ Go("scan.check") /\ UNCHANGED scan
  <2>1. fg.at = "scan.call"
    BY <1>1, <1>0 DEF At, Calls, ScanCall, Inv
  <2>2. fg.gen \in Nat
    BY <1>1, <1>0 DEF PlacesOk, Inv
  <2>3. NimNow(fg.gen, nim.adv, nim.conn, nim.link, nim.links, nim.mtu, nim.ind, nim.proc)
    BY <1>1, <1>0, <2>2, NimScan DEF Types, ScanCall, Inv
  <2>4. FgNow(fg.op, "scan.check", fg.gen)
    BY <1>1, <1>0, <2>2, FgGoes DEF GattPhases, RadioPhases, Holding, Closing, Clearing, Types, ScanCall, Inv
  <2>5. host = "running" /\ enabled /\ nim.scan = 0 BY <1>1
  <2>6. UNCHANGED <<cb, conn>>
    BY <1>1, <1>0 DEF ScanCall, LeaveRadio, KeepConn, flags, stack
  <2>7. UNCHANGED <<srv, cli>>
    BY <1>1, <1>0 DEF ScanCall, LeaveRadio, KeepConn, flags, stack
  <2>8. UNCHANGED <<roles, scan, adv, heard, notices, host, radio>>
    BY <1>1, <1>0 DEF ScanCall, LeaveRadio, KeepConn, flags, stack
  <2>9. Types' BY <1>0, <2>1, <2>2, <2>3, <2>4, <2>5, <2>6, <2>7, <2>8 DEF Types, NimNow, FgNow, Inv
  <2>10. Aside BY <1>0, <2>1, <2>2, <2>3, <2>4, <2>5, <2>6, <2>7, <2>8 DEF Aside, NimKept, CbAside, HostAside,
      CallAside, NimNow, FgNow, LinkUp, Excused, Bound, Holding, Closing, Clearing, ConnOk, IndOk, ProcOk, NimOk,
      PlacesOk, Inv
  <2>11. QueuesQuiet BY <1>0, <2>1, <2>5, <2>7, <2>8 DEF QueuesQuiet, GattQuiet, Inv
  <2> QED BY <2>9, <2>10, <2>11, AsideKeeps
<1>2. CASE /\ scan' = IF fg.gen = scan.gen /\ scan.st = "ACTIVE" THEN [scan EXCEPT !.st = "IDLE"] ELSE scan
           /\ Answer /\ UNCHANGED nim
  <2>1. fg.at = "scan.call"
    BY <1>2, <1>0 DEF At, Calls, ScanCall, Inv
  <2>2. ScanNow((IF fg.gen = scan.gen /\ scan.st = "ACTIVE" THEN "IDLE" ELSE scan.st), scan.gen, scan.q, scan.cur)
    BY <1>2, <1>0, ScanCallEnds DEF Types, UseStates, QueuesOk, ScanCall, Inv
  <2>3. FgNow("none", "idle", 0)
    BY <1>2, <1>0, FgAnswers DEF ScanCall, Inv
  <2>4. UNCHANGED <<nim, cb, conn>>
    BY <1>2, <1>0 DEF ScanCall, LeaveRadio, KeepConn, flags, stack
  <2>5. UNCHANGED <<srv, cli>>
    BY <1>2, <1>0 DEF ScanCall, LeaveRadio, KeepConn, flags, stack
  <2>6. UNCHANGED <<roles, adv, heard, notices, host, radio>>
    BY <1>2, <1>0 DEF ScanCall, LeaveRadio, KeepConn, flags, stack
  <2>7. Types' BY <1>0, <2>1, <2>2, <2>3, <2>4, <2>5, <2>6 DEF Types, FgNow, ScanNow, Inv
  <2>8. Aside BY <1>0, <2>1, <2>3, <2>4, <2>5, <2>6 DEF Aside, NimKept, CbAside, HostAside, CallAside, FgNow, LinkUp,
      Excused, Bound, Holding, Closing, Clearing, ConnOk, IndOk, ProcOk, NimOk, PlacesOk, Inv
  <2>9. QueuesQuiet BY <1>0, <2>1, <2>2, <2>5, <2>6 DEF QueuesQuiet, GattQuiet, ScanNow, Inv
  <2> QED BY <2>7, <2>8, <2>9, AsideKeeps
<1> QED BY <1>0, <1>1, <1>2 DEF ScanCall

LEMMA ScanCheckKeeps ==
  ASSUME Inv, ScanCheck
  PROVE  Inv' /\ QueuesQuiet
<1>0. ConnOk /\ IndOk /\ QueuesOk /\ ProcOk /\ NimOk /\ PlacesOk /\ UseOk
  BY TypesFlat DEF Inv
<1>1. CASE fg.gen = scan.gen /\ scan.st = "ACTIVE" /\ radio = "READY"
  <2>1. fg.at = "scan.check"
    BY <1>1, <1>0 DEF At, Calls, ScanCheck, Inv
  <2>2. FgNow("none", "idle", 0)
    BY <1>1, <1>0, FgAnswers DEF ScanCheck, Inv
  <2>3. fg.gen = scan.gen /\ scan.st = "ACTIVE" /\ radio = "READY" BY <1>1
  <2>4. UNCHANGED <<nim, cb, conn>>
    BY <1>1, <1>0 DEF ScanCheck, LeaveRadio, KeepConn, flags, stack
  <2>5. UNCHANGED <<srv, cli>>
    BY <1>1, <1>0 DEF ScanCheck, LeaveRadio, KeepConn, flags, stack
  <2>6. UNCHANGED <<roles, scan, adv, heard, notices, host, radio>>
    BY <1>1, <1>0 DEF ScanCheck, LeaveRadio, KeepConn, flags, stack
  <2>7. Types' BY <1>0, <2>1, <2>2, <2>3, <2>4, <2>5, <2>6 DEF Types, FgNow, Inv
  <2>8. Aside BY <1>0, <2>1, <2>2, <2>3, <2>4, <2>5, <2>6 DEF Aside, NimKept, CbAside, HostAside, CallAside, FgNow,
      LinkUp, Excused, Bound, Holding, Closing, Clearing, ConnOk, IndOk, ProcOk, NimOk, PlacesOk, Inv
  <2>9. QueuesQuiet BY <1>0, <2>1, <2>3, <2>5, <2>6 DEF QueuesQuiet, GattQuiet, Inv
  <2> QED BY <2>7, <2>8, <2>9, AsideKeeps
<1>2. CASE ~(fg.gen = scan.gen /\ scan.st = "ACTIVE" /\ radio = "READY")
  <2>1. fg.at = "scan.check"
    BY <1>2, <1>0 DEF At, Calls, ScanCheck, Inv
  <2>2. NimNow(0, nim.adv, nim.conn, nim.link, nim.links, nim.mtu, nim.ind, nim.proc)
    BY <1>2, <1>0, NimScan DEF Types, ScanCheck, Inv
  <2>3. FgNow("none", "idle", 0)
    BY <1>2, <1>0, FgAnswers DEF ScanCheck, Inv
  <2>4. ~(fg.gen = scan.gen /\ scan.st = "ACTIVE" /\ radio = "READY") BY <1>2
  <2>5. UNCHANGED <<cb, conn>>
    BY <1>2, <1>0 DEF ScanCheck, LeaveRadio, KeepConn, flags, stack
  <2>6. UNCHANGED <<srv, cli>>
    BY <1>2, <1>0 DEF ScanCheck, LeaveRadio, KeepConn, flags, stack
  <2>7. UNCHANGED <<roles, scan, adv, heard, notices, host, radio>>
    BY <1>2, <1>0 DEF ScanCheck, LeaveRadio, KeepConn, flags, stack
  <2>8. Types' BY <1>0, <2>1, <2>2, <2>3, <2>4, <2>5, <2>6, <2>7 DEF Types, NimNow, FgNow, Inv
  <2>9. Aside BY <1>0, <2>1, <2>2, <2>3, <2>4, <2>5, <2>6, <2>7 DEF Aside, NimKept, CbAside, HostAside, CallAside,
      NimNow, FgNow, LinkUp, Excused, Bound, Holding, Closing, Clearing, ConnOk, IndOk, ProcOk, NimOk, PlacesOk, Inv
  <2>10. QueuesQuiet BY <1>0, <2>1, <2>4, <2>6, <2>7 DEF QueuesQuiet, GattQuiet, Inv
  <2> QED BY <2>8, <2>9, <2>10, AsideKeeps
<1> QED BY <1>0, <1>1, <1>2 DEF ScanCheck

LEMMA ScanStopKeeps ==
  ASSUME Inv, ScanStop
  PROVE  Inv' /\ QueuesQuiet
<1>0. ConnOk /\ IndOk /\ QueuesOk /\ ProcOk /\ NimOk /\ PlacesOk /\ UseOk
  BY TypesFlat DEF Inv
<1>1. CASE scan.st = "IDLE"
  <2>1. fg.at = "idle"
    BY <1>1, <1>0 DEF At, Calls, ScanStop, Inv
  <2>2. ScanNow(scan.st, scan.gen, scan.q, 0)
    BY <1>1, <1>0, ScanCur DEF Types, UseStates, QueuesOk, ScanStop, Inv
  <2>3. FgNow("none", "idle", 0)
    BY <1>1, <1>0, FgAnswers DEF ScanStop, Inv
  <2>4. (scan.st = "IDLE") BY <1>1
  <2>5. UNCHANGED <<nim, cb, conn>>
    BY <1>1, <1>0 DEF ScanStop, Calls, LeaveRadio, KeepConn, flags, stack
  <2>6. UNCHANGED <<srv, cli>>
    BY <1>1, <1>0 DEF ScanStop, Calls, LeaveRadio, KeepConn, flags, stack
  <2>7. UNCHANGED <<roles, adv, heard, notices, host, radio>>
    BY <1>1, <1>0 DEF ScanStop, Calls, LeaveRadio, KeepConn, flags, stack
  <2>8. Types' BY <1>0, <2>1, <2>2, <2>3, <2>4, <2>5, <2>6, <2>7 DEF Types, FgNow, ScanNow, Inv
  <2>9. Aside BY <1>0, <2>1, <2>3, <2>5, <2>6, <2>7 DEF Aside, NimKept, CbAside, HostAside, CallAside, FgNow, LinkUp,
      Excused, Bound, Holding, Closing, Clearing, ConnOk, IndOk, ProcOk, NimOk, PlacesOk, Inv
  <2>10. QueuesQuiet BY <1>0, <2>2, <2>4, <2>6, <2>7 DEF QueuesQuiet, GattQuiet, ScanNow, Inv
  <2> QED BY <2>8, <2>9, <2>10, AsideKeeps
<1>2. CASE scan.st # "IDLE"
  <2>1. fg.at = "idle"
    BY <1>2, <1>0 DEF At, Calls, ScanStop, Inv
  <2>2. scan.gen \in Nat
    BY <1>2, <1>0 DEF UseOk, Inv
  <2>3. ScanNow("STOPPING", scan.gen, scan.q, 0)
    BY <1>2, <1>0, <2>2, ScanStops DEF Types, UseStates, QueuesOk, ScanStop, Inv
  <2>4. FgNow("scan", "scan.cancel", scan.gen)
    BY <1>2, <1>0, <2>2, FgDoes DEF Ops, GattPhases, Holding, Closing, Clearing, ScanStop, Inv
  <2>5. (scan.st # "IDLE") BY <1>2
  <2>6. UNCHANGED <<nim, cb, conn>>
    BY <1>2, <1>0 DEF ScanStop, Calls, LeaveRadio, KeepConn, flags, stack
  <2>7. UNCHANGED <<srv, cli>>
    BY <1>2, <1>0 DEF ScanStop, Calls, LeaveRadio, KeepConn, flags, stack
  <2>8. UNCHANGED <<roles, adv, heard, notices, host, radio>>
    BY <1>2, <1>0 DEF ScanStop, Calls, LeaveRadio, KeepConn, flags, stack
  <2>9. Types' BY <1>0, <2>1, <2>2, <2>3, <2>4, <2>5, <2>6, <2>7, <2>8 DEF Types, FgNow, ScanNow, Inv
  <2>10. Aside BY <1>0, <2>1, <2>4, <2>6, <2>7, <2>8 DEF Aside, NimKept, CbAside, HostAside, CallAside, FgNow, LinkUp,
      Excused, Bound, Holding, Closing, Clearing, ConnOk, IndOk, ProcOk, NimOk, PlacesOk, Inv
  <2>11. QueuesQuiet BY <1>0, <2>2, <2>3, <2>5, <2>7, <2>8 DEF QueuesQuiet, GattQuiet, ScanNow, Inv
  <2> QED BY <2>9, <2>10, <2>11, AsideKeeps
<1> QED BY <1>0, <1>1, <1>2 DEF ScanStop

LEMMA ScanCancelKeeps ==
  ASSUME Inv, ScanCancel
  PROVE  Inv' /\ QueuesQuiet
<1>0. ConnOk /\ IndOk /\ QueuesOk /\ ProcOk /\ NimOk /\ PlacesOk /\ UseOk
  BY TypesFlat DEF Inv
<1>1. CASE nim' = [nim EXCEPT !.scan = 0] /\ Go("scan.stopped")
  <2>1. fg.at = "scan.cancel"
    BY <1>1, <1>0 DEF At, Calls, ScanCancel, Inv
  <2>2. NimNow(0, nim.adv, nim.conn, nim.link, nim.links, nim.mtu, nim.ind, nim.proc)
    BY <1>1, <1>0, NimScan DEF Types, ScanCancel, Inv
  <2>3. FgNow(fg.op, "scan.stopped", fg.gen)
    BY <1>1, <1>0, FgGoes DEF GattPhases, RadioPhases, Holding, Closing, Clearing, Types, ScanCancel, Inv
  <2>4. UNCHANGED <<cb, conn>>
    BY <1>1, <1>0 DEF ScanCancel, LeaveRadio, KeepConn, flags, stack
  <2>5. UNCHANGED <<srv, cli>>
    BY <1>1, <1>0 DEF ScanCancel, LeaveRadio, KeepConn, flags, stack
  <2>6. UNCHANGED <<roles, scan, adv, heard, notices, host, radio>>
    BY <1>1, <1>0 DEF ScanCancel, LeaveRadio, KeepConn, flags, stack
  <2>7. Types' BY <1>0, <2>1, <2>2, <2>3, <2>4, <2>5, <2>6 DEF Types, NimNow, FgNow, Inv
  <2>8. Aside BY <1>0, <2>1, <2>2, <2>3, <2>4, <2>5, <2>6 DEF Aside, NimKept, CbAside, HostAside, CallAside, NimNow,
      FgNow, LinkUp, Excused, Bound, Holding, Closing, Clearing, ConnOk, IndOk, ProcOk, NimOk, PlacesOk, Inv
  <2>9. QueuesQuiet BY <1>0, <2>1, <2>5, <2>6 DEF QueuesQuiet, GattQuiet, Inv
  <2> QED BY <2>7, <2>8, <2>9, AsideKeeps
<1>2. CASE nim.scan # 0 /\ Answer /\ UNCHANGED nim
  <2>1. fg.at = "scan.cancel"
    BY <1>2, <1>0 DEF At, Calls, ScanCancel, Inv
  <2>2. FgNow("none", "idle", 0)
    BY <1>2, <1>0, FgAnswers DEF ScanCancel, Inv
  <2>3. nim.scan # 0 BY <1>2
  <2>4. UNCHANGED <<nim, cb, conn>>
    BY <1>2, <1>0 DEF ScanCancel, LeaveRadio, KeepConn, flags, stack
  <2>5. UNCHANGED <<srv, cli>>
    BY <1>2, <1>0 DEF ScanCancel, LeaveRadio, KeepConn, flags, stack
  <2>6. UNCHANGED <<roles, scan, adv, heard, notices, host, radio>>
    BY <1>2, <1>0 DEF ScanCancel, LeaveRadio, KeepConn, flags, stack
  <2>7. Types' BY <1>0, <2>1, <2>2, <2>3, <2>4, <2>5, <2>6 DEF Types, FgNow, Inv
  <2>8. Aside BY <1>0, <2>1, <2>2, <2>3, <2>4, <2>5, <2>6 DEF Aside, NimKept, CbAside, HostAside, CallAside, FgNow,
      LinkUp, Excused, Bound, Holding, Closing, Clearing, ConnOk, IndOk, ProcOk, NimOk, PlacesOk, Inv
  <2>9. QueuesQuiet BY <1>0, <2>1, <2>3, <2>5, <2>6 DEF QueuesQuiet, GattQuiet, Inv
  <2> QED BY <2>7, <2>8, <2>9, AsideKeeps
<1> QED BY <1>0, <1>1, <1>2 DEF ScanCancel

LEMMA ScanStoppedKeeps ==
  ASSUME Inv, ScanStopped
  PROVE  Inv' /\ QueuesQuiet
<1>0. ConnOk /\ IndOk /\ QueuesOk /\ ProcOk /\ NimOk /\ PlacesOk /\ UseOk
  BY TypesFlat DEF Inv
<1>1. CASE fg.gen = scan.gen /\ radio = "READY"
  <2>1. fg.at = "scan.stopped"
    BY <1>1, <1>0 DEF At, Calls, ScanStopped, Inv
  <2>2. ScanNow("IDLE", scan.gen, scan.q, scan.cur)
    BY <1>1, <1>0, ScanSt DEF Types, UseStates, QueuesOk, ScanStopped, Inv
  <2>3. FgNow("none", "idle", 0)
    BY <1>1, <1>0, FgAnswers DEF ScanStopped, Inv
  <2>4. fg.gen = scan.gen /\ radio = "READY" BY <1>1
  <2>5. UNCHANGED <<nim, cb, conn>>
    BY <1>1, <1>0 DEF ScanStopped, LeaveRadio, KeepConn, flags, stack
  <2>6. UNCHANGED <<srv, cli>>
    BY <1>1, <1>0 DEF ScanStopped, LeaveRadio, KeepConn, flags, stack
  <2>7. UNCHANGED <<roles, adv, heard, notices, host, radio>>
    BY <1>1, <1>0 DEF ScanStopped, LeaveRadio, KeepConn, flags, stack
  <2>8. Types' BY <1>0, <2>1, <2>2, <2>3, <2>4, <2>5, <2>6, <2>7 DEF Types, FgNow, ScanNow, Inv
  <2>9. Aside BY <1>0, <2>1, <2>3, <2>4, <2>5, <2>6, <2>7 DEF Aside, NimKept, CbAside, HostAside, CallAside, FgNow,
      LinkUp, Excused, Bound, Holding, Closing, Clearing, ConnOk, IndOk, ProcOk, NimOk, PlacesOk, Inv
  <2>10. QueuesQuiet BY <1>0, <2>1, <2>2, <2>4, <2>6, <2>7 DEF QueuesQuiet, GattQuiet, ScanNow, Inv
  <2> QED BY <2>8, <2>9, <2>10, AsideKeeps
<1>2. CASE ~(fg.gen = scan.gen /\ radio = "READY")
  <2>1. fg.at = "scan.stopped"
    BY <1>2, <1>0 DEF At, Calls, ScanStopped, Inv
  <2>2. FgNow("none", "idle", 0)
    BY <1>2, <1>0, FgAnswers DEF ScanStopped, Inv
  <2>3. ~(fg.gen = scan.gen /\ radio = "READY") BY <1>2
  <2>4. UNCHANGED <<nim, cb, conn>>
    BY <1>2, <1>0 DEF ScanStopped, LeaveRadio, KeepConn, flags, stack
  <2>5. UNCHANGED <<srv, cli>>
    BY <1>2, <1>0 DEF ScanStopped, LeaveRadio, KeepConn, flags, stack
  <2>6. UNCHANGED <<roles, scan, adv, heard, notices, host, radio>>
    BY <1>2, <1>0 DEF ScanStopped, LeaveRadio, KeepConn, flags, stack
  <2>7. Types' BY <1>0, <2>1, <2>2, <2>3, <2>4, <2>5, <2>6 DEF Types, FgNow, Inv
  <2>8. Aside BY <1>0, <2>1, <2>2, <2>3, <2>4, <2>5, <2>6 DEF Aside, NimKept, CbAside, HostAside, CallAside, FgNow,
      LinkUp, Excused, Bound, Holding, Closing, Clearing, ConnOk, IndOk, ProcOk, NimOk, PlacesOk, Inv
  <2>9. QueuesQuiet BY <1>0, <2>1, <2>3, <2>5, <2>6 DEF QueuesQuiet, GattQuiet, Inv
  <2> QED BY <2>7, <2>8, <2>9, AsideKeeps
<1> QED BY <1>0, <1>1, <1>2 DEF ScanStopped

LEMMA ScanNextKeeps ==
  ASSUME Inv, ScanNext
  PROVE  Inv'
<1>0. ConnOk /\ IndOk /\ QueuesOk /\ ProcOk /\ NimOk /\ PlacesOk /\ UseOk
  BY TypesFlat DEF Inv
<1>1. CASE scan.q = <<>>
  <2>1. fg.at = "idle"
    BY <1>1, <1>0 DEF At, Calls, ScanNext, Inv
  <2>2. ScanNow(scan.st, scan.gen, scan.q, 0)
    BY <1>1, <1>0, ScanCur DEF Types, UseStates, QueuesOk, ScanNext, Inv
  <2>3. (scan.q = <<>>) BY <1>1
  <2>4. UNCHANGED <<fg, nim, cb, conn>>
    BY <1>1, <1>0 DEF ScanNext, Calls, LeaveRadio, KeepConn, flags, stack
  <2>5. UNCHANGED <<srv, cli>>
    BY <1>1, <1>0 DEF ScanNext, Calls, LeaveRadio, KeepConn, flags, stack
  <2>6. UNCHANGED <<roles, adv, heard, notices, host, radio>>
    BY <1>1, <1>0 DEF ScanNext, Calls, LeaveRadio, KeepConn, flags, stack
  <2>7. Types' BY <1>0, <2>1, <2>2, <2>3, <2>4, <2>5, <2>6 DEF Types, ScanNow, Inv
  <2>8. Aside BY <1>0, <2>1, <2>4, <2>5, <2>6 DEF Aside, NimKept, CbAside, HostAside, CallAside, LinkUp, ConnOk,
      IndOk, ProcOk, NimOk, PlacesOk, Inv
  <2> QED BY <2>7, <2>8, AsideKeeps
<1>2. CASE scan.q # <<>>
  <2>1. fg.at = "idle"
    BY <1>2, <1>0 DEF At, Calls, ScanNext, Inv
  <2>2. Head(scan.q) \in Nat /\ Tail(scan.q) \in Seq(Nat)
    BY <1>2, <1>0 DEF QueuesOk, Inv
  <2>3. ScanNow(scan.st, scan.gen, Tail(scan.q), Head(scan.q))
    BY <1>2, <1>0, <2>2, ScanTaken DEF Types, UseStates, QueuesOk, ScanNext, Inv
  <2>4. (scan.q # <<>>) BY <1>2
  <2>5. UNCHANGED <<fg, nim, cb, conn>>
    BY <1>2, <1>0 DEF ScanNext, Calls, LeaveRadio, KeepConn, flags, stack
  <2>6. UNCHANGED <<srv, cli>>
    BY <1>2, <1>0 DEF ScanNext, Calls, LeaveRadio, KeepConn, flags, stack
  <2>7. UNCHANGED <<roles, adv, heard, notices, host, radio>>
    BY <1>2, <1>0 DEF ScanNext, Calls, LeaveRadio, KeepConn, flags, stack
  <2>8. Types' BY <1>0, <2>1, <2>2, <2>3, <2>4, <2>5, <2>6, <2>7 DEF Types, ScanNow, Inv
  <2>9. Aside BY <1>0, <2>1, <2>5, <2>6, <2>7 DEF Aside, NimKept, CbAside, HostAside, CallAside, LinkUp, ConnOk,
      IndOk, ProcOk, NimOk, PlacesOk, Inv
  <2> QED BY <2>8, <2>9, AsideKeeps
<1> QED BY <1>0, <1>1, <1>2 DEF ScanNext

LEMMA ReportHeardKeeps ==
  ASSUME Inv, ReportHeard
  PROVE  Inv' /\ QueuesQuiet
<1>0. ConnOk /\ IndOk /\ QueuesOk /\ ProcOk /\ NimOk /\ PlacesOk /\ UseOk
  BY TypesFlat DEF Inv
<1>1. CASE scan.st = "ACTIVE" /\ nim.scan = scan.gen
  <2>1. heard + 1 \in Nat /\ heard + 1 # 0
    BY <1>1, <1>0 DEF UseOk, Inv
  <2>2. heard' = heard + 1
    BY <1>1, <1>0, <2>1 DEF ReportHeard, Inv
  <2>3. nim.scan \in Nat
    BY <1>1, <1>0, <2>1 DEF NimOk, Inv
  <2>4. cb.kind = "none" /\ host = "running"
    BY <1>1, <1>0, <2>1, <2>3 DEF Callback, NoCb, ReportHeard, Inv
  <2>5. CbNow("report", nim.scan)
    BY <1>1, <1>0, <2>1, <2>3, CbIs DEF CbKinds, ReportHeard, Inv
  <2>6. scan.st = "ACTIVE" /\ nim.scan = scan.gen BY <1>1
  <2>7. UNCHANGED <<fg, nim, conn>>
    BY <1>1, <1>0 DEF ReportHeard, Callback, KeepConn, flags, stack
  <2>8. UNCHANGED <<srv, cli>>
    BY <1>1, <1>0 DEF ReportHeard, Callback, KeepConn, flags, stack
  <2>9. UNCHANGED <<roles, scan, adv, notices, host, radio>>
    BY <1>1, <1>0 DEF ReportHeard, Callback, KeepConn, flags, stack
  <2>10. Types' BY <1>0, <2>1, <2>2, <2>3, <2>4, <2>5, <2>6, <2>7, <2>8, <2>9 DEF Types, CbNow, Inv
  <2>11. Aside BY <1>0, <2>3, <2>4, <2>5, <2>6, <2>7, <2>8, <2>9 DEF Aside, NimKept, CbAside, HostAside, CallAside,
      CbNow, LinkUp, ConnOk, IndOk, ProcOk, NimOk, PlacesOk, Inv
  <2>12. QueuesQuiet BY <1>0, <2>1, <2>2, <2>3, <2>6, <2>8, <2>9 DEF QueuesQuiet, GattQuiet, Inv
  <2> QED BY <2>10, <2>11, <2>12, AsideKeeps
<1>2. CASE ~(scan.st = "ACTIVE" /\ nim.scan = scan.gen)
  <2>1. heard + 1 \in Nat /\ heard + 1 # 0
    BY <1>2, <1>0 DEF UseOk, Inv
  <2>2. heard' = heard + 1
    BY <1>2, <1>0, <2>1 DEF ReportHeard, Inv
  <2>3. cb.kind = "none" /\ host = "running"
    BY <1>2, <1>0, <2>1 DEF Callback, NoCb, ReportHeard, Inv
  <2>4. CbNow("none", 0)
    BY <1>2, <1>0, <2>1, CbEnds DEF CbKinds, ReportHeard, Inv
  <2>5. ~(scan.st = "ACTIVE" /\ nim.scan = scan.gen) BY <1>2
  <2>6. UNCHANGED <<fg, nim, conn>>
    BY <1>2, <1>0 DEF ReportHeard, Callback, KeepConn, flags, stack
  <2>7. UNCHANGED <<srv, cli>>
    BY <1>2, <1>0 DEF ReportHeard, Callback, KeepConn, flags, stack
  <2>8. UNCHANGED <<roles, scan, adv, notices, host, radio>>
    BY <1>2, <1>0 DEF ReportHeard, Callback, KeepConn, flags, stack
  <2>9. Types' BY <1>0, <2>1, <2>2, <2>3, <2>4, <2>5, <2>6, <2>7, <2>8 DEF Types, CbNow, Inv
  <2>10. Aside BY <1>0, <2>3, <2>4, <2>5, <2>6, <2>7, <2>8 DEF Aside, NimKept, CbAside, HostAside, CallAside, CbNow,
      LinkUp, ConnOk, IndOk, ProcOk, NimOk, PlacesOk, Inv
  <2>11. QueuesQuiet BY <1>0, <2>1, <2>2, <2>5, <2>7, <2>8 DEF QueuesQuiet, GattQuiet, Inv
  <2> QED BY <2>9, <2>10, <2>11, AsideKeeps
<1> QED BY <1>0, <1>1, <1>2 DEF ReportHeard

LEMMA ReportQueuedKeeps ==
  ASSUME Inv, ReportQueued
  PROVE  Inv'
<1>0. ConnOk /\ IndOk /\ QueuesOk /\ ProcOk /\ NimOk /\ PlacesOk /\ UseOk
  BY TypesFlat DEF Inv
<1>1. CASE scan.st # "ACTIVE" \/ cb.arg # scan.gen
  <2>1. cb.kind = "report"
    BY <1>1, <1>0 DEF ReportQueued, Inv
  <2>2. CbNow("none", 0)
    BY <1>1, <1>0, CbEnds DEF CbKinds, ReportQueued, Inv
  <2>3. (scan.st # "ACTIVE" \/ cb.arg # scan.gen) BY <1>1
  <2>4. UNCHANGED <<fg, nim, conn>>
    BY <1>1, <1>0 DEF ReportQueued, LeaveRadio, KeepConn, flags, stack
  <2>5. UNCHANGED <<srv, cli>>
    BY <1>1, <1>0 DEF ReportQueued, LeaveRadio, KeepConn, flags, stack
  <2>6. UNCHANGED <<roles, scan, adv, heard, notices, host, radio>>
    BY <1>1, <1>0 DEF ReportQueued, LeaveRadio, KeepConn, flags, stack
  <2>7. Types' BY <1>0, <2>1, <2>2, <2>3, <2>4, <2>5, <2>6 DEF Types, CbNow, Inv
  <2>8. Aside BY <1>0, <2>1, <2>2, <2>3, <2>4, <2>5, <2>6 DEF Aside, NimKept, CbAside, HostAside, CallAside, CbNow,
      LinkUp, ConnOk, IndOk, ProcOk, NimOk, PlacesOk, Inv
  <2> QED BY <2>7, <2>8, AsideKeeps
<1>2. CASE ~(scan.st # "ACTIVE" \/ cb.arg # scan.gen)
  <2>1. cb.kind = "report"
    BY <1>2, <1>0 DEF ReportQueued, Inv
  <2>2. CbNow("none", 0)
    BY <1>2, <1>0, CbEnds DEF CbKinds, ReportQueued, Inv
  <2>3. ScanNow(scan.st, scan.gen, Pushed(scan.q), scan.cur) /\ Pushed(scan.q) \in Seq(Nat)
    BY <1>2, <1>0, ScanQueued, PushedIs DEF Types, Pushed, QueuesOk, UseOk, ReportQueued, Inv
  <2>4. (~(scan.st # "ACTIVE" \/ cb.arg # scan.gen)) BY <1>2
  <2>5. UNCHANGED <<fg, nim, conn>>
    BY <1>2, <1>0 DEF ReportQueued, LeaveRadio, KeepConn, flags, stack
  <2>6. UNCHANGED <<srv, cli>>
    BY <1>2, <1>0 DEF ReportQueued, LeaveRadio, KeepConn, flags, stack
  <2>7. UNCHANGED <<roles, adv, heard, notices, host, radio>>
    BY <1>2, <1>0 DEF ReportQueued, LeaveRadio, KeepConn, flags, stack
  <2>8. Types' BY <1>0, <2>1, <2>2, <2>3, <2>4, <2>5, <2>6, <2>7 DEF Types, CbNow, ScanNow, Inv
  <2>9. Aside BY <1>0, <2>1, <2>2, <2>4, <2>5, <2>6, <2>7 DEF Aside, NimKept, CbAside, HostAside, CallAside, CbNow,
      LinkUp, ConnOk, IndOk, ProcOk, NimOk, PlacesOk, Inv
  <2> QED BY <2>8, <2>9, AsideKeeps
<1> QED BY <1>0, <1>1, <1>2 DEF ReportQueued

LEMMA ReportFilteredKeeps ==
  ASSUME Inv, ReportFiltered
  PROVE  Inv' /\ QueuesQuiet
<1>0. ConnOk /\ IndOk /\ QueuesOk /\ ProcOk /\ NimOk /\ PlacesOk /\ UseOk
  BY TypesFlat DEF Inv
<1>1. cb.kind = "report"
  BY <1>0 DEF ReportFiltered, Inv
<1>2. CbNow("none", 0)
  BY <1>0, CbEnds DEF CbKinds, ReportFiltered, Inv
<1>3. UNCHANGED <<fg, nim, conn>>
  BY <1>0 DEF ReportFiltered, LeaveRadio, KeepConn, flags, stack
<1>4. UNCHANGED <<srv, cli>>
  BY <1>0 DEF ReportFiltered, LeaveRadio, KeepConn, flags, stack
<1>5. UNCHANGED <<roles, scan, adv, heard, notices, host, radio>>
  BY <1>0 DEF ReportFiltered, LeaveRadio, KeepConn, flags, stack
<1>6. Types' BY <1>0, <1>1, <1>2, <1>3, <1>4, <1>5 DEF Types, CbNow, Inv
<1>7. Aside BY <1>0, <1>1, <1>2, <1>3, <1>4, <1>5 DEF Aside, NimKept, CbAside, HostAside, CallAside, CbNow, LinkUp,
    ConnOk, IndOk, ProcOk, NimOk, PlacesOk, Inv
<1>8. QueuesQuiet BY <1>0, <1>4, <1>5 DEF QueuesQuiet, GattQuiet, Inv
<1> QED BY <1>6, <1>7, <1>8, AsideKeeps

LEMMA DiscCompleteKeeps ==
  ASSUME Inv, DiscComplete
  PROVE  Inv' /\ QueuesQuiet
<1>0. ConnOk /\ IndOk /\ QueuesOk /\ ProcOk /\ NimOk /\ PlacesOk /\ UseOk
  BY TypesFlat DEF Inv
<1>1. CASE nim.scan = scan.gen
  <2>1. cb.kind = "none" /\ host = "running"
    BY <1>1, <1>0 DEF Callback, NoCb, DiscComplete, Inv
  <2>2. nim.scan # 0
    BY <1>1, <1>0 DEF DiscComplete, Inv
  <2>3. NimNow(0, nim.adv, nim.conn, nim.link, nim.links, nim.mtu, nim.ind, nim.proc)
    BY <1>1, <1>0, NimScan DEF Types, DiscComplete, Inv
  <2>4. ScanNow("IDLE", scan.gen, scan.q, scan.cur)
    BY <1>1, <1>0, ScanSt DEF Types, UseStates, QueuesOk, DiscComplete, Inv
  <2>5. (nim.scan = scan.gen) BY <1>1
  <2>6. UNCHANGED <<fg, cb, conn>>
    BY <1>1, <1>0 DEF DiscComplete, Callback, KeepConn, flags, stack
  <2>7. UNCHANGED <<srv, cli>>
    BY <1>1, <1>0 DEF DiscComplete, Callback, KeepConn, flags, stack
  <2>8. UNCHANGED <<roles, adv, heard, notices, host, radio>>
    BY <1>1, <1>0 DEF DiscComplete, Callback, KeepConn, flags, stack
  <2>9. Types' BY <1>0, <2>1, <2>2, <2>3, <2>4, <2>5, <2>6, <2>7, <2>8 DEF Types, NimNow, ScanNow, Inv
  <2>10. Aside BY <1>0, <2>1, <2>2, <2>3, <2>5, <2>6, <2>7, <2>8 DEF Aside, NimKept, CbAside, HostAside, CallAside,
      NimNow, LinkUp, ConnOk, IndOk, ProcOk, NimOk, PlacesOk, Inv
  <2>11. QueuesQuiet BY <1>0, <2>2, <2>4, <2>5, <2>7, <2>8 DEF QueuesQuiet, GattQuiet, ScanNow, Inv
  <2> QED BY <2>9, <2>10, <2>11, AsideKeeps
<1>2. CASE nim.scan # scan.gen
  <2>1. cb.kind = "none" /\ host = "running"
    BY <1>2, <1>0 DEF Callback, NoCb, DiscComplete, Inv
  <2>2. nim.scan # 0
    BY <1>2, <1>0 DEF DiscComplete, Inv
  <2>3. NimNow(0, nim.adv, nim.conn, nim.link, nim.links, nim.mtu, nim.ind, nim.proc)
    BY <1>2, <1>0, NimScan DEF Types, DiscComplete, Inv
  <2>4. (nim.scan # scan.gen) BY <1>2
  <2>5. UNCHANGED <<fg, cb, conn>>
    BY <1>2, <1>0 DEF DiscComplete, Callback, KeepConn, flags, stack
  <2>6. UNCHANGED <<srv, cli>>
    BY <1>2, <1>0 DEF DiscComplete, Callback, KeepConn, flags, stack
  <2>7. UNCHANGED <<roles, scan, adv, heard, notices, host, radio>>
    BY <1>2, <1>0 DEF DiscComplete, Callback, KeepConn, flags, stack
  <2>8. Types' BY <1>0, <2>1, <2>2, <2>3, <2>4, <2>5, <2>6, <2>7 DEF Types, NimNow, Inv
  <2>9. Aside BY <1>0, <2>1, <2>2, <2>3, <2>4, <2>5, <2>6, <2>7 DEF Aside, NimKept, CbAside, HostAside, CallAside,
      NimNow, LinkUp, ConnOk, IndOk, ProcOk, NimOk, PlacesOk, Inv
  <2>10. QueuesQuiet BY <1>0, <2>2, <2>4, <2>6, <2>7 DEF QueuesQuiet, GattQuiet, Inv
  <2> QED BY <2>8, <2>9, <2>10, AsideKeeps
<1> QED BY <1>0, <1>1, <1>2 DEF DiscComplete

LEMMA AdvertiseStartKeeps ==
  ASSUME Inv, AdvertiseStart
  PROVE  Inv' /\ QueuesQuiet
<1>0. ConnOk /\ IndOk /\ QueuesOk /\ ProcOk /\ NimOk /\ PlacesOk /\ UseOk
  BY TypesFlat DEF Inv
<1>1. fg.at = "idle"
  BY <1>0 DEF At, Calls, AdvertiseStart, Inv
<1>2. adv.gen + 1 \in Nat
  BY <1>0 DEF UseOk, Inv
<1>3. AdvNow("ACTIVE", adv.gen + 1)
  BY <1>0, <1>2, AdvIs DEF Types, UseStates, AdvertiseStart, Inv
<1>4. FgNow("adv", "adv.call", adv.gen + 1)
  BY <1>0, <1>2, FgDoes DEF Ops, GattPhases, Holding, Closing, Clearing, AdvertiseStart, Inv
<1>5. UNCHANGED <<nim, cb, conn>>
  BY <1>0 DEF AdvertiseStart, Calls, LeaveRadio, KeepConn, flags, stack
<1>6. UNCHANGED <<srv, cli>>
  BY <1>0 DEF AdvertiseStart, Calls, LeaveRadio, KeepConn, flags, stack
<1>7. UNCHANGED <<roles, scan, heard, notices, host, radio>>
  BY <1>0 DEF AdvertiseStart, Calls, LeaveRadio, KeepConn, flags, stack
<1>8. Types' BY <1>0, <1>1, <1>2, <1>3, <1>4, <1>5, <1>6, <1>7 DEF Types, FgNow, AdvNow, Inv
<1>9. Aside BY <1>0, <1>1, <1>2, <1>3, <1>4, <1>5, <1>6, <1>7 DEF Aside, NimKept, CbAside, HostAside, CallAside,
    FgNow, AdvNow, LinkUp, Excused, Bound, Holding, Closing, Clearing, ConnOk, IndOk, ProcOk, NimOk, PlacesOk, Inv
<1>10. QueuesQuiet BY <1>0, <1>6, <1>7 DEF QueuesQuiet, GattQuiet, Inv
<1> QED BY <1>8, <1>9, <1>10, AsideKeeps

LEMMA AdvertiseCallKeeps ==
  ASSUME Inv, AdvertiseCall
  PROVE  Inv' /\ QueuesQuiet
<1>0. ConnOk /\ IndOk /\ QueuesOk /\ ProcOk /\ NimOk /\ PlacesOk /\ UseOk
  BY TypesFlat DEF Inv
<1>1. CASE /\ host = "running" /\ enabled /\ nim.adv = 0
           /\ nim' = [nim EXCEPT !.adv = fg.gen] /\ Go("adv.check") /\ UNCHANGED adv
  <2>1. fg.at = "adv.call"
    BY <1>1, <1>0 DEF At, Calls, AdvertiseCall, Inv
  <2>2. fg.gen \in Nat
    BY <1>1, <1>0 DEF PlacesOk, Inv
  <2>3. NimNow(nim.scan, fg.gen, nim.conn, nim.link, nim.links, nim.mtu, nim.ind, nim.proc)
    BY <1>1, <1>0, <2>2, NimAdv DEF Types, AdvertiseCall, Inv
  <2>4. FgNow(fg.op, "adv.check", fg.gen)
    BY <1>1, <1>0, <2>2, FgGoes DEF GattPhases, RadioPhases, Holding, Closing, Clearing, Types, AdvertiseCall, Inv
  <2>5. host = "running" /\ enabled /\ nim.adv = 0 BY <1>1
  <2>6. UNCHANGED <<cb, conn>>
    BY <1>1, <1>0 DEF AdvertiseCall, LeaveRadio, KeepConn, flags, stack
  <2>7. UNCHANGED <<srv, cli>>
    BY <1>1, <1>0 DEF AdvertiseCall, LeaveRadio, KeepConn, flags, stack
  <2>8. UNCHANGED <<roles, scan, adv, heard, notices, host, radio>>
    BY <1>1, <1>0 DEF AdvertiseCall, LeaveRadio, KeepConn, flags, stack
  <2>9. Types' BY <1>0, <2>1, <2>2, <2>3, <2>4, <2>5, <2>6, <2>7, <2>8 DEF Types, NimNow, FgNow, Inv
  <2>10. Aside BY <1>0, <2>1, <2>2, <2>3, <2>4, <2>5, <2>6, <2>7, <2>8 DEF Aside, NimKept, CbAside, HostAside,
      CallAside, NimNow, FgNow, LinkUp, Excused, Bound, Holding, Closing, Clearing, ConnOk, IndOk, ProcOk, NimOk,
      PlacesOk, Inv
  <2>11. QueuesQuiet BY <1>0, <2>7, <2>8 DEF QueuesQuiet, GattQuiet, Inv
  <2> QED BY <2>9, <2>10, <2>11, AsideKeeps
<1>2. CASE /\ adv' = IF fg.gen = adv.gen THEN [adv EXCEPT !.st = "IDLE"] ELSE adv
           /\ Answer /\ UNCHANGED nim
  <2>1. fg.at = "adv.call"
    BY <1>2, <1>0 DEF At, Calls, AdvertiseCall, Inv
  <2>2. AdvNow((IF fg.gen = adv.gen THEN "IDLE" ELSE adv.st), adv.gen)
    BY <1>2, <1>0, AdvCallEnds DEF Types, UseStates, AdvertiseCall, Inv
  <2>3. FgNow("none", "idle", 0)
    BY <1>2, <1>0, FgAnswers DEF AdvertiseCall, Inv
  <2>4. UNCHANGED <<nim, cb, conn>>
    BY <1>2, <1>0 DEF AdvertiseCall, LeaveRadio, KeepConn, flags, stack
  <2>5. UNCHANGED <<srv, cli>>
    BY <1>2, <1>0 DEF AdvertiseCall, LeaveRadio, KeepConn, flags, stack
  <2>6. UNCHANGED <<roles, scan, heard, notices, host, radio>>
    BY <1>2, <1>0 DEF AdvertiseCall, LeaveRadio, KeepConn, flags, stack
  <2>7. Types' BY <1>0, <2>1, <2>2, <2>3, <2>4, <2>5, <2>6 DEF Types, FgNow, AdvNow, Inv
  <2>8. Aside BY <1>0, <2>1, <2>2, <2>3, <2>4, <2>5, <2>6 DEF Aside, NimKept, CbAside, HostAside, CallAside, FgNow,
      AdvNow, LinkUp, Excused, Bound, Holding, Closing, Clearing, ConnOk, IndOk, ProcOk, NimOk, PlacesOk, Inv
  <2>9. QueuesQuiet BY <1>0, <2>5, <2>6 DEF QueuesQuiet, GattQuiet, Inv
  <2> QED BY <2>7, <2>8, <2>9, AsideKeeps
<1> QED BY <1>0, <1>1, <1>2 DEF AdvertiseCall

LEMMA AdvertiseCheckKeeps ==
  ASSUME Inv, AdvertiseCheck
  PROVE  Inv' /\ QueuesQuiet
<1>0. ConnOk /\ IndOk /\ QueuesOk /\ ProcOk /\ NimOk /\ PlacesOk /\ UseOk
  BY TypesFlat DEF Inv
<1>1. CASE fg.gen = adv.gen /\ adv.st = "ACTIVE" /\ radio = "READY"
  <2>1. fg.at = "adv.check"
    BY <1>1, <1>0 DEF At, Calls, AdvertiseCheck, Inv
  <2>2. FgNow("none", "idle", 0)
    BY <1>1, <1>0, FgAnswers DEF AdvertiseCheck, Inv
  <2>3. fg.gen = adv.gen /\ adv.st = "ACTIVE" /\ radio = "READY" BY <1>1
  <2>4. UNCHANGED <<nim, cb, conn>>
    BY <1>1, <1>0 DEF AdvertiseCheck, LeaveRadio, KeepConn, flags, stack
  <2>5. UNCHANGED <<srv, cli>>
    BY <1>1, <1>0 DEF AdvertiseCheck, LeaveRadio, KeepConn, flags, stack
  <2>6. UNCHANGED <<roles, scan, adv, heard, notices, host, radio>>
    BY <1>1, <1>0 DEF AdvertiseCheck, LeaveRadio, KeepConn, flags, stack
  <2>7. Types' BY <1>0, <2>1, <2>2, <2>3, <2>4, <2>5, <2>6 DEF Types, FgNow, Inv
  <2>8. Aside BY <1>0, <2>1, <2>2, <2>3, <2>4, <2>5, <2>6 DEF Aside, NimKept, CbAside, HostAside, CallAside, FgNow,
      LinkUp, Excused, Bound, Holding, Closing, Clearing, ConnOk, IndOk, ProcOk, NimOk, PlacesOk, Inv
  <2>9. QueuesQuiet BY <1>0, <2>5, <2>6 DEF QueuesQuiet, GattQuiet, Inv
  <2> QED BY <2>7, <2>8, <2>9, AsideKeeps
<1>2. CASE ~(fg.gen = adv.gen /\ adv.st = "ACTIVE" /\ radio = "READY")
  <2>1. fg.at = "adv.check"
    BY <1>2, <1>0 DEF At, Calls, AdvertiseCheck, Inv
  <2>2. NimNow(nim.scan, 0, nim.conn, nim.link, nim.links, nim.mtu, nim.ind, nim.proc)
    BY <1>2, <1>0, NimAdv DEF Types, AdvertiseCheck, Inv
  <2>3. FgNow("none", "idle", 0)
    BY <1>2, <1>0, FgAnswers DEF AdvertiseCheck, Inv
  <2>4. ~(fg.gen = adv.gen /\ adv.st = "ACTIVE" /\ radio = "READY") BY <1>2
  <2>5. UNCHANGED <<cb, conn>>
    BY <1>2, <1>0 DEF AdvertiseCheck, LeaveRadio, KeepConn, flags, stack
  <2>6. UNCHANGED <<srv, cli>>
    BY <1>2, <1>0 DEF AdvertiseCheck, LeaveRadio, KeepConn, flags, stack
  <2>7. UNCHANGED <<roles, scan, adv, heard, notices, host, radio>>
    BY <1>2, <1>0 DEF AdvertiseCheck, LeaveRadio, KeepConn, flags, stack
  <2>8. Types' BY <1>0, <2>1, <2>2, <2>3, <2>4, <2>5, <2>6, <2>7 DEF Types, NimNow, FgNow, Inv
  <2>9. Aside BY <1>0, <2>1, <2>2, <2>3, <2>4, <2>5, <2>6, <2>7 DEF Aside, NimKept, CbAside, HostAside, CallAside,
      NimNow, FgNow, LinkUp, Excused, Bound, Holding, Closing, Clearing, ConnOk, IndOk, ProcOk, NimOk, PlacesOk, Inv
  <2>10. QueuesQuiet BY <1>0, <2>6, <2>7 DEF QueuesQuiet, GattQuiet, Inv
  <2> QED BY <2>8, <2>9, <2>10, AsideKeeps
<1> QED BY <1>0, <1>1, <1>2 DEF AdvertiseCheck

LEMMA AdvertiseStopKeeps ==
  ASSUME Inv, AdvertiseStop
  PROVE  Inv' /\ QueuesQuiet
<1>0. ConnOk /\ IndOk /\ QueuesOk /\ ProcOk /\ NimOk /\ PlacesOk /\ UseOk
  BY TypesFlat DEF Inv
<1>1. fg.at = "idle"
  BY <1>0 DEF At, Calls, AdvertiseStop, Inv
<1>2. adv.gen \in Nat
  BY <1>0 DEF UseOk, Inv
<1>3. AdvNow("STOPPING", adv.gen)
  BY <1>0, <1>2, AdvSt DEF Types, UseStates, AdvertiseStop, Inv
<1>4. FgNow("adv", "adv.cancel", adv.gen)
  BY <1>0, <1>2, FgDoes DEF Ops, GattPhases, Holding, Closing, Clearing, AdvertiseStop, Inv
<1>5. UNCHANGED <<nim, cb, conn>>
  BY <1>0 DEF AdvertiseStop, Calls, LeaveRadio, KeepConn, flags, stack
<1>6. UNCHANGED <<srv, cli>>
  BY <1>0 DEF AdvertiseStop, Calls, LeaveRadio, KeepConn, flags, stack
<1>7. UNCHANGED <<roles, scan, heard, notices, host, radio>>
  BY <1>0 DEF AdvertiseStop, Calls, LeaveRadio, KeepConn, flags, stack
<1>8. Types' BY <1>0, <1>1, <1>2, <1>3, <1>4, <1>5, <1>6, <1>7 DEF Types, FgNow, AdvNow, Inv
<1>9. Aside BY <1>0, <1>1, <1>2, <1>3, <1>4, <1>5, <1>6, <1>7 DEF Aside, NimKept, CbAside, HostAside, CallAside,
    FgNow, AdvNow, LinkUp, Excused, Bound, Holding, Closing, Clearing, ConnOk, IndOk, ProcOk, NimOk, PlacesOk, Inv
<1>10. QueuesQuiet BY <1>0, <1>6, <1>7 DEF QueuesQuiet, GattQuiet, Inv
<1> QED BY <1>8, <1>9, <1>10, AsideKeeps

LEMMA AdvertiseCancelKeeps ==
  ASSUME Inv, AdvertiseCancel
  PROVE  Inv' /\ QueuesQuiet
<1>0. ConnOk /\ IndOk /\ QueuesOk /\ ProcOk /\ NimOk /\ PlacesOk /\ UseOk
  BY TypesFlat DEF Inv
<1>1. CASE nim' = [nim EXCEPT !.adv = 0] /\ Go("adv.stopped")
  <2>1. fg.at = "adv.cancel"
    BY <1>1, <1>0 DEF At, Calls, AdvertiseCancel, Inv
  <2>2. NimNow(nim.scan, 0, nim.conn, nim.link, nim.links, nim.mtu, nim.ind, nim.proc)
    BY <1>1, <1>0, NimAdv DEF Types, AdvertiseCancel, Inv
  <2>3. FgNow(fg.op, "adv.stopped", fg.gen)
    BY <1>1, <1>0, FgGoes DEF GattPhases, RadioPhases, Holding, Closing, Clearing, Types, AdvertiseCancel, Inv
  <2>4. UNCHANGED <<cb, conn>>
    BY <1>1, <1>0 DEF AdvertiseCancel, LeaveRadio, KeepConn, flags, stack
  <2>5. UNCHANGED <<srv, cli>>
    BY <1>1, <1>0 DEF AdvertiseCancel, LeaveRadio, KeepConn, flags, stack
  <2>6. UNCHANGED <<roles, scan, adv, heard, notices, host, radio>>
    BY <1>1, <1>0 DEF AdvertiseCancel, LeaveRadio, KeepConn, flags, stack
  <2>7. Types' BY <1>0, <2>1, <2>2, <2>3, <2>4, <2>5, <2>6 DEF Types, NimNow, FgNow, Inv
  <2>8. Aside BY <1>0, <2>1, <2>2, <2>3, <2>4, <2>5, <2>6 DEF Aside, NimKept, CbAside, HostAside, CallAside, NimNow,
      FgNow, LinkUp, Excused, Bound, Holding, Closing, Clearing, ConnOk, IndOk, ProcOk, NimOk, PlacesOk, Inv
  <2>9. QueuesQuiet BY <1>0, <2>5, <2>6 DEF QueuesQuiet, GattQuiet, Inv
  <2> QED BY <2>7, <2>8, <2>9, AsideKeeps
<1>2. CASE nim.adv # 0 /\ Answer /\ UNCHANGED nim
  <2>1. fg.at = "adv.cancel"
    BY <1>2, <1>0 DEF At, Calls, AdvertiseCancel, Inv
  <2>2. FgNow("none", "idle", 0)
    BY <1>2, <1>0, FgAnswers DEF AdvertiseCancel, Inv
  <2>3. nim.adv # 0 BY <1>2
  <2>4. UNCHANGED <<nim, cb, conn>>
    BY <1>2, <1>0 DEF AdvertiseCancel, LeaveRadio, KeepConn, flags, stack
  <2>5. UNCHANGED <<srv, cli>>
    BY <1>2, <1>0 DEF AdvertiseCancel, LeaveRadio, KeepConn, flags, stack
  <2>6. UNCHANGED <<roles, scan, adv, heard, notices, host, radio>>
    BY <1>2, <1>0 DEF AdvertiseCancel, LeaveRadio, KeepConn, flags, stack
  <2>7. Types' BY <1>0, <2>1, <2>2, <2>3, <2>4, <2>5, <2>6 DEF Types, FgNow, Inv
  <2>8. Aside BY <1>0, <2>1, <2>2, <2>3, <2>4, <2>5, <2>6 DEF Aside, NimKept, CbAside, HostAside, CallAside, FgNow,
      LinkUp, Excused, Bound, Holding, Closing, Clearing, ConnOk, IndOk, ProcOk, NimOk, PlacesOk, Inv
  <2>9. QueuesQuiet BY <1>0, <2>5, <2>6 DEF QueuesQuiet, GattQuiet, Inv
  <2> QED BY <2>7, <2>8, <2>9, AsideKeeps
<1> QED BY <1>0, <1>1, <1>2 DEF AdvertiseCancel

LEMMA AdvertiseStoppedKeeps ==
  ASSUME Inv, AdvertiseStopped
  PROVE  Inv' /\ QueuesQuiet
<1>0. ConnOk /\ IndOk /\ QueuesOk /\ ProcOk /\ NimOk /\ PlacesOk /\ UseOk
  BY TypesFlat DEF Inv
<1>1. CASE fg.gen = adv.gen /\ radio = "READY" /\ adv.st # "ACTIVE"
  <2>1. fg.at = "adv.stopped"
    BY <1>1, <1>0 DEF At, Calls, AdvertiseStopped, Inv
  <2>2. AdvNow("IDLE", adv.gen)
    BY <1>1, <1>0, AdvSt DEF Types, UseStates, AdvertiseStopped, Inv
  <2>3. FgNow("none", "idle", 0)
    BY <1>1, <1>0, FgAnswers DEF AdvertiseStopped, Inv
  <2>4. fg.gen = adv.gen /\ radio = "READY" /\ adv.st # "ACTIVE" BY <1>1
  <2>5. UNCHANGED <<nim, cb, conn>>
    BY <1>1, <1>0 DEF AdvertiseStopped, LeaveRadio, KeepConn, flags, stack
  <2>6. UNCHANGED <<srv, cli>>
    BY <1>1, <1>0 DEF AdvertiseStopped, LeaveRadio, KeepConn, flags, stack
  <2>7. UNCHANGED <<roles, scan, heard, notices, host, radio>>
    BY <1>1, <1>0 DEF AdvertiseStopped, LeaveRadio, KeepConn, flags, stack
  <2>8. Types' BY <1>0, <2>1, <2>2, <2>3, <2>4, <2>5, <2>6, <2>7 DEF Types, FgNow, AdvNow, Inv
  <2>9. Aside BY <1>0, <2>1, <2>2, <2>3, <2>4, <2>5, <2>6, <2>7 DEF Aside, NimKept, CbAside, HostAside, CallAside,
      FgNow, AdvNow, LinkUp, Excused, Bound, Holding, Closing, Clearing, ConnOk, IndOk, ProcOk, NimOk, PlacesOk, Inv
  <2>10. QueuesQuiet BY <1>0, <2>6, <2>7 DEF QueuesQuiet, GattQuiet, Inv
  <2> QED BY <2>8, <2>9, <2>10, AsideKeeps
<1>2. CASE ~(fg.gen = adv.gen /\ radio = "READY" /\ adv.st # "ACTIVE")
  <2>1. fg.at = "adv.stopped"
    BY <1>2, <1>0 DEF At, Calls, AdvertiseStopped, Inv
  <2>2. FgNow("none", "idle", 0)
    BY <1>2, <1>0, FgAnswers DEF AdvertiseStopped, Inv
  <2>3. ~(fg.gen = adv.gen /\ radio = "READY" /\ adv.st # "ACTIVE") BY <1>2
  <2>4. UNCHANGED <<nim, cb, conn>>
    BY <1>2, <1>0 DEF AdvertiseStopped, LeaveRadio, KeepConn, flags, stack
  <2>5. UNCHANGED <<srv, cli>>
    BY <1>2, <1>0 DEF AdvertiseStopped, LeaveRadio, KeepConn, flags, stack
  <2>6. UNCHANGED <<roles, scan, adv, heard, notices, host, radio>>
    BY <1>2, <1>0 DEF AdvertiseStopped, LeaveRadio, KeepConn, flags, stack
  <2>7. Types' BY <1>0, <2>1, <2>2, <2>3, <2>4, <2>5, <2>6 DEF Types, FgNow, Inv
  <2>8. Aside BY <1>0, <2>1, <2>2, <2>3, <2>4, <2>5, <2>6 DEF Aside, NimKept, CbAside, HostAside, CallAside, FgNow,
      LinkUp, Excused, Bound, Holding, Closing, Clearing, ConnOk, IndOk, ProcOk, NimOk, PlacesOk, Inv
  <2>9. QueuesQuiet BY <1>0, <2>5, <2>6 DEF QueuesQuiet, GattQuiet, Inv
  <2> QED BY <2>7, <2>8, <2>9, AsideKeeps
<1> QED BY <1>0, <1>1, <1>2 DEF AdvertiseStopped

LEMMA AdvertiseOverKeeps ==
  ASSUME Inv, AdvertiseOver
  PROVE  Inv' /\ QueuesQuiet
<1>0. ConnOk /\ IndOk /\ QueuesOk /\ ProcOk /\ NimOk /\ PlacesOk /\ UseOk
  BY TypesFlat DEF Inv
<1>1. CASE nim.adv = adv.gen
  <2>1. cb.kind = "none" /\ host = "running"
    BY <1>1, <1>0 DEF Callback, NoCb, AdvertiseOver, Inv
  <2>2. nim.adv # 0
    BY <1>1, <1>0 DEF AdvertiseOver, Inv
  <2>3. NimNow(nim.scan, 0, nim.conn, nim.link, nim.links, nim.mtu, nim.ind, nim.proc)
    BY <1>1, <1>0, NimAdv DEF Types, AdvertiseOver, Inv
  <2>4. AdvNow("IDLE", adv.gen)
    BY <1>1, <1>0, AdvSt DEF Types, UseStates, AdvertiseOver, Inv
  <2>5. (nim.adv = adv.gen) BY <1>1
  <2>6. UNCHANGED <<fg, cb, conn>>
    BY <1>1, <1>0 DEF AdvertiseOver, Callback, KeepConn, flags, stack
  <2>7. UNCHANGED <<srv, cli>>
    BY <1>1, <1>0 DEF AdvertiseOver, Callback, KeepConn, flags, stack
  <2>8. UNCHANGED <<roles, scan, heard, notices, host, radio>>
    BY <1>1, <1>0 DEF AdvertiseOver, Callback, KeepConn, flags, stack
  <2>9. Types' BY <1>0, <2>1, <2>2, <2>3, <2>4, <2>5, <2>6, <2>7, <2>8 DEF Types, NimNow, AdvNow, Inv
  <2>10. Aside BY <1>0, <2>1, <2>2, <2>3, <2>4, <2>5, <2>6, <2>7, <2>8 DEF Aside, NimKept, CbAside, HostAside,
      CallAside, NimNow, AdvNow, LinkUp, ConnOk, IndOk, ProcOk, NimOk, PlacesOk, Inv
  <2>11. QueuesQuiet BY <1>0, <2>7, <2>8 DEF QueuesQuiet, GattQuiet, Inv
  <2> QED BY <2>9, <2>10, <2>11, AsideKeeps
<1>2. CASE nim.adv # adv.gen
  <2>1. cb.kind = "none" /\ host = "running"
    BY <1>2, <1>0 DEF Callback, NoCb, AdvertiseOver, Inv
  <2>2. nim.adv # 0
    BY <1>2, <1>0 DEF AdvertiseOver, Inv
  <2>3. NimNow(nim.scan, 0, nim.conn, nim.link, nim.links, nim.mtu, nim.ind, nim.proc)
    BY <1>2, <1>0, NimAdv DEF Types, AdvertiseOver, Inv
  <2>4. (nim.adv # adv.gen) BY <1>2
  <2>5. UNCHANGED <<fg, cb, conn>>
    BY <1>2, <1>0 DEF AdvertiseOver, Callback, KeepConn, flags, stack
  <2>6. UNCHANGED <<srv, cli>>
    BY <1>2, <1>0 DEF AdvertiseOver, Callback, KeepConn, flags, stack
  <2>7. UNCHANGED <<roles, scan, adv, heard, notices, host, radio>>
    BY <1>2, <1>0 DEF AdvertiseOver, Callback, KeepConn, flags, stack
  <2>8. Types' BY <1>0, <2>1, <2>2, <2>3, <2>4, <2>5, <2>6, <2>7 DEF Types, NimNow, Inv
  <2>9. Aside BY <1>0, <2>1, <2>2, <2>3, <2>4, <2>5, <2>6, <2>7 DEF Aside, NimKept, CbAside, HostAside, CallAside,
      NimNow, LinkUp, ConnOk, IndOk, ProcOk, NimOk, PlacesOk, Inv
  <2>10. QueuesQuiet BY <1>0, <2>6, <2>7 DEF QueuesQuiet, GattQuiet, Inv
  <2> QED BY <2>8, <2>9, <2>10, AsideKeeps
<1> QED BY <1>0, <1>1, <1>2 DEF AdvertiseOver

LEMMA IncomingKeeps ==
  ASSUME Inv, Incoming
  PROVE  Inv' /\ QueuesQuiet
<1>0. ConnOk /\ IndOk /\ QueuesOk /\ ProcOk /\ NimOk /\ PlacesOk /\ UseOk
  BY TypesFlat DEF Inv
<1>1. CASE (nim.adv # adv.gen \/ adv.st = "IDLE")
  <2>1. cb.kind = "none" /\ host = "running"
    BY <1>1, <1>0 DEF Callback, NoCb, Incoming, Inv
  <2>2. nim.links + 1 \in Nat /\ nim.links + 1 # 0
    BY <1>1, <1>0 DEF NimOk, Inv
  <2>3. ~LinkUp /\ nim.adv # 0
    BY <1>1, <1>0, <2>2 DEF ConnectionNew, Incoming, Inv
  <2>4. NimNow(nim.scan, 0, nim.conn, nim'.link, nim.links + 1, nim.mtu, nim.ind, nim.proc)
        /\ nim'.link.id = nim.links + 1 /\ nim'.link.cb = 0 /\ nim'.link.term = "no"
    BY <1>1, <1>0, <2>2, NimIncoming DEF Types, Incoming, Inv
  <2>5. CbNow("refuse", 0)
    BY <1>1, <1>0, <2>2, CbIs DEF CbKinds, Incoming, Inv
  <2>6. ((nim.adv # adv.gen \/ adv.st = "IDLE")) BY <1>1
  <2>7. UNCHANGED <<fg, conn>>
    BY <1>1, <1>0 DEF Incoming, Callback, KeepConn, flags, stack
  <2>8. UNCHANGED <<srv, cli>>
    BY <1>1, <1>0 DEF Incoming, Callback, KeepConn, flags, stack
  <2>9. UNCHANGED <<roles, scan, adv, heard, notices, host, radio>>
    BY <1>1, <1>0 DEF Incoming, Callback, KeepConn, flags, stack
  <2>10. Types' BY <1>0, <2>1, <2>2, <2>3, <2>4, <2>5, <2>6, <2>7, <2>8, <2>9 DEF Types, NimNow, CbNow, Inv
  <2>11. CallInv' BY <1>0, <2>7 DEF CallInv, Inv
  <2>12. LinkInv' BY <1>0, <2>1, <2>2, <2>3, <2>4, <2>5, <2>6, <2>7, <2>9, NothingAsked DEF LinkInv, NimNow, CbNow,
      LinkUp, ConnOk, NimOk, PlacesOk, Inv
  <2>13. PlaceInv' BY <1>0, <2>2, <2>3, <2>4, <2>6, <2>7, <2>8, <2>9 DEF PlaceInv, NimNow, LinkUp, Holding, Closing,
      Clearing, ConnOk, IndOk, NimOk, PlacesOk, Inv
  <2>14. SubInv' BY <1>0, <2>7, <2>8 DEF SubInv, ConnOk, IndOk, ProcOk, Inv
  <2>15. IndInv' BY <1>0, <2>1, <2>2, <2>3, <2>4, <2>5, <2>6, <2>7, <2>8, <2>9, NothingAsked DEF IndInv, NimNow,
      CbNow, LinkUp, ConnOk, IndOk, NimOk, PlacesOk, LinkInv, PlaceInv, Holding, Closing, Clearing, Inv
  <2>16. ProcA' BY <1>0, <2>2, <2>3, <2>4, <2>6, <2>7, <2>8, NothingAsked DEF ProcInv, ProcA, NimNow, LinkUp, ConnOk,
      ProcOk, NimOk, Inv
  <2>17. ProcB' BY <1>0, <2>1, <2>2, <2>3, <2>4, <2>5, <2>6, <2>7, <2>8, <2>9, NothingAsked DEF ProcInv, ProcB,
      NimNow, CbNow, LinkUp, ConnOk, ProcOk, NimOk, PlacesOk, Inv
  <2>18. ProcC' BY <1>0, <2>1, <2>2, <2>3, <2>4, <2>5, <2>6, <2>7, <2>8, <2>9, NothingAsked DEF ProcInv, ProcC,
      NimNow, CbNow, LinkUp, ConnOk, ProcOk, NimOk, PlacesOk, LinkInv, PlaceInv, Holding, Closing, Clearing, Inv
  <2>19. MtuInv' BY <1>0, <2>1, <2>2, <2>3, <2>4, <2>5, <2>6, <2>7, NothingAsked DEF MtuInv, NimNow, CbNow, LinkUp,
      ConnOk, NimOk, PlacesOk, LinkInv, PlaceInv, Holding, Closing, Clearing, Inv
  <2>20. QueuesQuiet BY <1>0, <2>8, <2>9 DEF QueuesQuiet, GattQuiet, Inv
  <2>21. ConnGrows BY <1>0, <2>2, <2>3, <2>4, <2>6, <2>7 DEF ConnGrows, NimNow, LinkUp, ConnOk, NimOk, Inv
  <2> QED BY <2>10, <2>11, <2>12, <2>13, <2>14, <2>15, <2>16, <2>17, <2>18, <2>19, <2>20, <2>21, DataKept DEF Inv,
      ProcInv, QueuesQuiet
<1>2. CASE /\ ~(nim.adv # adv.gen \/ adv.st = "IDLE")
           /\ conn.st = "FREE" /\ Len(notices') < NoticeQueue
           /\ conn' = [Reserved("peripheral", FALSE) EXCEPT !.h = TRUE, !.link = nim.links + 1]
           /\ cb' = [kind |-> "accept", arg |-> conn.gen + 1]
  <2>1. cb.kind = "none" /\ host = "running"
    BY <1>2, <1>0 DEF Callback, NoCb, Incoming, Inv
  <2>2. nim.links + 1 \in Nat /\ nim.links + 1 # 0
    BY <1>2, <1>0 DEF NimOk, Inv
  <2>3. ~LinkUp /\ nim.adv # 0
    BY <1>2, <1>0, <2>2 DEF ConnectionNew, Incoming, Inv
  <2>4. NimNow(nim.scan, 0, nim.conn, nim'.link, nim.links + 1, nim.mtu, nim.ind, nim.proc)
        /\ nim'.link.id = nim.links + 1 /\ nim'.link.cb = 0 /\ nim'.link.term = "no"
    BY <1>2, <1>0, <2>2, NimIncoming DEF Types, Incoming, Inv
  <2>5. notices' \in Seq(Nat) /\ notices' = Found(notices)
    BY <1>2, <1>0, <2>2, FoundIs DEF QueuesOk, Incoming, Inv
  <2>6. AdvNow("IDLE", adv.gen)
    BY <1>2, <1>0, <2>2, <2>5, AdvSt DEF Types, UseStates, Incoming, Inv
  <2>7. conn.gen + 1 \in Nat
    BY <1>2, <1>0, <2>2, <2>5 DEF ConnOk, Inv
  <2>8. ConnNow("CONNECTING", "peripheral", conn.gen + 1, TRUE, FALSE, FALSE, FALSE, FALSE, nim.links + 1)
    BY <1>2, <1>0, <2>2, <2>5, <2>7, ConnIncoming DEF Types, ConnStates, ConnRoles, Incoming, Inv
  <2>9. CbNow("accept", conn.gen + 1)
    BY <1>2, <1>0, <2>2, <2>5, <2>7, CbIs DEF CbKinds, Incoming, Inv
  <2>10. ~(nim.adv # adv.gen \/ adv.st = "IDLE") /\ conn.st = "FREE" BY <1>2
  <2>11. UNCHANGED <<fg>>
    BY <1>2, <1>0 DEF Incoming, Callback, KeepConn, flags, stack
  <2>12. UNCHANGED <<srv, cli>>
    BY <1>2, <1>0 DEF Incoming, Callback, KeepConn, flags, stack
  <2>13. UNCHANGED <<roles, scan, heard, host, radio>>
    BY <1>2, <1>0 DEF Incoming, Callback, KeepConn, flags, stack
  <2>14. Types' BY <1>0, <2>1, <2>2, <2>3, <2>4, <2>5, <2>6, <2>7, <2>8, <2>9, <2>10, <2>11, <2>12, <2>13 DEF Types,
      ConnNow, NimNow, CbNow, AdvNow, Inv
  <2>15. CallInv' BY <1>0, <2>11 DEF CallInv, Inv
  <2>16. LinkInv' BY <1>0, <2>1, <2>2, <2>3, <2>4, <2>7, <2>8, <2>9, <2>10, <2>13, NothingAsked DEF LinkInv, ConnNow,
      NimNow, CbNow, LinkUp, ConnOk, NimOk, PlacesOk, Inv
  <2>17. PlaceInv' BY <1>0, <2>2, <2>3, <2>4, <2>5, <2>6, <2>7, <2>8, <2>10, <2>11, <2>12, SMTT(30) DEF PlaceInv, ConnNow,
      NimNow, AdvNow, LinkUp, Holding, Closing, Clearing, ConnOk, IndOk, NimOk, PlacesOk, Inv
  <2>18. SubInv' BY <1>0, <2>7, <2>8, <2>10, <2>12 DEF SubInv, ConnNow, ConnOk, IndOk, ProcOk, LinkInv, LinkUp,
      PlaceInv, Holding, Closing, Clearing, Inv
  <2>19. IndInv' BY <1>0, <2>1, <2>2, <2>3, <2>4, <2>6, <2>7, <2>8, <2>9, <2>10, <2>11, <2>12,
      NothingAsked DEF IndInv, ConnNow, NimNow, CbNow, AdvNow, LinkUp, ConnOk, IndOk, NimOk, PlacesOk, LinkInv,
      PlaceInv, Holding, Closing, Clearing, Inv
  <2>20. ProcA' BY <1>0, <2>2, <2>3, <2>4, <2>7, <2>8, <2>10, <2>12, NothingAsked DEF ProcInv, ProcA, ConnNow, NimNow,
      LinkUp, ConnOk, ProcOk, NimOk, Inv
  <2>21. ProcB' BY <1>0, <2>1, <2>2, <2>3, <2>4, <2>6, <2>7, <2>8, <2>9, <2>10, <2>11, <2>12,
      NothingAsked DEF ProcInv, ProcB, ConnNow, NimNow, CbNow, AdvNow, LinkUp, ConnOk, ProcOk, NimOk, PlacesOk,
      LinkInv, PlaceInv, Holding, Closing, Clearing, Inv
  <2>22. ProcC' BY <1>0, <2>1, <2>2, <2>3, <2>4, <2>6, <2>7, <2>8, <2>9, <2>10, <2>11, <2>12,
      NothingAsked DEF ProcInv, ProcC, ConnNow, NimNow, CbNow, AdvNow, LinkUp, ConnOk, ProcOk, NimOk, PlacesOk,
      LinkInv, PlaceInv, Holding, Closing, Clearing, Inv
  <2>23. MtuInv' BY <1>0, <2>1, <2>2, <2>3, <2>4, <2>7, <2>8, <2>9, <2>10, <2>11, NothingAsked DEF MtuInv, ConnNow,
      NimNow, CbNow, LinkUp, ConnOk, NimOk, PlacesOk, Inv
  <2>24. QueuesQuiet BY <1>0, <2>12, <2>13 DEF QueuesQuiet, GattQuiet, Inv
  <2>25. ConnGrows BY <1>0, <2>2, <2>3, <2>4, <2>7, <2>8, <2>10 DEF ConnGrows, ConnNow, NimNow, LinkUp, ConnOk, NimOk,
      Inv
  <2> QED BY <2>14, <2>15, <2>16, <2>17, <2>18, <2>19, <2>20, <2>21, <2>22, <2>23, <2>24, <2>25, DataKept DEF Inv,
      ProcInv, QueuesQuiet
<1>3. CASE /\ ~(nim.adv # adv.gen \/ adv.st = "IDLE")
           /\ conn' = conn /\ cb' = [kind |-> "refuse", arg |-> 0]
  <2>1. cb.kind = "none" /\ host = "running"
    BY <1>3, <1>0 DEF Callback, NoCb, Incoming, Inv
  <2>2. nim.links + 1 \in Nat /\ nim.links + 1 # 0
    BY <1>3, <1>0 DEF NimOk, Inv
  <2>3. ~LinkUp /\ nim.adv # 0
    BY <1>3, <1>0, <2>2 DEF ConnectionNew, Incoming, Inv
  <2>4. NimNow(nim.scan, 0, nim.conn, nim'.link, nim.links + 1, nim.mtu, nim.ind, nim.proc)
        /\ nim'.link.id = nim.links + 1 /\ nim'.link.cb = 0 /\ nim'.link.term = "no"
    BY <1>3, <1>0, <2>2, NimIncoming DEF Types, Incoming, Inv
  <2>5. notices' \in Seq(Nat) /\ notices' = Found(notices)
    BY <1>3, <1>0, <2>2, FoundIs DEF QueuesOk, Incoming, Inv
  <2>6. AdvNow("IDLE", adv.gen)
    BY <1>3, <1>0, <2>2, <2>5, AdvSt DEF Types, UseStates, Incoming, Inv
  <2>7. CbNow("refuse", 0)
    BY <1>3, <1>0, <2>2, <2>5, CbIs DEF CbKinds, Incoming, Inv
  <2>8. ~(nim.adv # adv.gen \/ adv.st = "IDLE") BY <1>3
  <2>9. UNCHANGED <<fg, conn>>
    BY <1>3, <1>0 DEF Incoming, Callback, KeepConn, flags, stack
  <2>10. UNCHANGED <<srv, cli>>
    BY <1>3, <1>0 DEF Incoming, Callback, KeepConn, flags, stack
  <2>11. UNCHANGED <<roles, scan, heard, host, radio>>
    BY <1>3, <1>0 DEF Incoming, Callback, KeepConn, flags, stack
  <2>12. Types' BY <1>0, <2>1, <2>2, <2>3, <2>4, <2>5, <2>6, <2>7, <2>8, <2>9, <2>10, <2>11 DEF Types, NimNow, CbNow,
      AdvNow, Inv
  <2>13. CallInv' BY <1>0, <2>9 DEF CallInv, Inv
  <2>14. LinkInv' BY <1>0, <2>1, <2>2, <2>3, <2>4, <2>7, <2>8, <2>9, <2>11, NothingAsked DEF LinkInv, NimNow, CbNow,
      LinkUp, ConnOk, NimOk, PlacesOk, Inv
  <2>15. PlaceInv' BY <1>0, <2>2, <2>3, <2>4, <2>5, <2>6, <2>8, <2>9, <2>10 DEF PlaceInv, NimNow, AdvNow, LinkUp,
      Holding, Closing, Clearing, ConnOk, IndOk, NimOk, PlacesOk, Inv
  <2>16. SubInv' BY <1>0, <2>9, <2>10 DEF SubInv, ConnOk, IndOk, ProcOk, Inv
  <2>17. IndInv' BY <1>0, <2>1, <2>2, <2>3, <2>4, <2>6, <2>7, <2>8, <2>9, <2>10, NothingAsked DEF IndInv, NimNow,
      CbNow, AdvNow, LinkUp, ConnOk, IndOk, NimOk, PlacesOk, LinkInv, PlaceInv, Holding, Closing, Clearing, Inv
  <2>18. ProcA' BY <1>0, <2>2, <2>3, <2>4, <2>8, <2>9, <2>10, NothingAsked DEF ProcInv, ProcA, NimNow, LinkUp, ConnOk,
      ProcOk, NimOk, Inv
  <2>19. ProcB' BY <1>0, <2>1, <2>2, <2>3, <2>4, <2>6, <2>7, <2>8, <2>9, <2>10, NothingAsked DEF ProcInv, ProcB,
      NimNow, CbNow, AdvNow, LinkUp, ConnOk, ProcOk, NimOk, PlacesOk, Inv
  <2>20. ProcC' BY <1>0, <2>1, <2>2, <2>3, <2>4, <2>6, <2>7, <2>8, <2>9, <2>10, NothingAsked DEF ProcInv, ProcC,
      NimNow, CbNow, AdvNow, LinkUp, ConnOk, ProcOk, NimOk, PlacesOk, LinkInv, PlaceInv, Holding, Closing, Clearing,
      Inv
  <2>21. MtuInv' BY <1>0, <2>1, <2>2, <2>3, <2>4, <2>7, <2>8, <2>9, NothingAsked DEF MtuInv, NimNow, CbNow, LinkUp,
      ConnOk, NimOk, PlacesOk, LinkInv, PlaceInv, Holding, Closing, Clearing, Inv
  <2>22. QueuesQuiet BY <1>0, <2>10, <2>11 DEF QueuesQuiet, GattQuiet, Inv
  <2>23. ConnGrows BY <1>0, <2>2, <2>3, <2>4, <2>8, <2>9 DEF ConnGrows, NimNow, LinkUp, ConnOk, NimOk, Inv
  <2> QED BY <2>12, <2>13, <2>14, <2>15, <2>16, <2>17, <2>18, <2>19, <2>20, <2>21, <2>22, <2>23, DataKept DEF Inv,
      ProcInv, QueuesQuiet
<1>4. CASE /\ ~(nim.adv # adv.gen \/ adv.st = "IDLE")
           /\ conn.st = "FREE" /\ conn' = FreeConn(conn.gen + 1) /\ cb' = [kind |-> "refuse", arg |-> 0]
  <2>1. cb.kind = "none" /\ host = "running"
    BY <1>4, <1>0 DEF Callback, NoCb, Incoming, Inv
  <2>2. nim.links + 1 \in Nat /\ nim.links + 1 # 0
    BY <1>4, <1>0 DEF NimOk, Inv
  <2>3. ~LinkUp /\ nim.adv # 0
    BY <1>4, <1>0, <2>2 DEF ConnectionNew, Incoming, Inv
  <2>4. NimNow(nim.scan, 0, nim.conn, nim'.link, nim.links + 1, nim.mtu, nim.ind, nim.proc)
        /\ nim'.link.id = nim.links + 1 /\ nim'.link.cb = 0 /\ nim'.link.term = "no"
    BY <1>4, <1>0, <2>2, NimIncoming DEF Types, Incoming, Inv
  <2>5. notices' \in Seq(Nat) /\ notices' = Found(notices)
    BY <1>4, <1>0, <2>2, FoundIs DEF QueuesOk, Incoming, Inv
  <2>6. AdvNow("IDLE", adv.gen)
    BY <1>4, <1>0, <2>2, <2>5, AdvSt DEF Types, UseStates, Incoming, Inv
  <2>7. conn.gen + 1 \in Nat
    BY <1>4, <1>0, <2>2, <2>5 DEF ConnOk, Inv
  <2>8. ConnNow("FREE", "none", conn.gen + 1, FALSE, FALSE, FALSE, FALSE, FALSE, 0)
    BY <1>4, <1>0, <2>2, <2>5, <2>7, ConnFree DEF Types, ConnStates, ConnRoles, Incoming, Free, Inv
  <2>9. CbNow("refuse", 0)
    BY <1>4, <1>0, <2>2, <2>5, <2>7, CbIs DEF CbKinds, Incoming, Inv
  <2>10. ~(nim.adv # adv.gen \/ adv.st = "IDLE") /\ conn.st = "FREE" BY <1>4
  <2>11. UNCHANGED <<fg>>
    BY <1>4, <1>0 DEF Incoming, Callback, KeepConn, flags, stack
  <2>12. UNCHANGED <<srv, cli>>
    BY <1>4, <1>0 DEF Incoming, Callback, KeepConn, flags, stack
  <2>13. UNCHANGED <<roles, scan, heard, host, radio>>
    BY <1>4, <1>0 DEF Incoming, Callback, KeepConn, flags, stack
  <2>14. Types' BY <1>0, <2>1, <2>2, <2>3, <2>4, <2>5, <2>6, <2>7, <2>8, <2>9, <2>10, <2>11, <2>12, <2>13 DEF Types,
      ConnNow, NimNow, CbNow, AdvNow, Inv
  <2>15. CallInv' BY <1>0, <2>11 DEF CallInv, Inv
  <2>16. LinkInv' BY <1>0, <2>1, <2>2, <2>3, <2>4, <2>7, <2>8, <2>9, <2>10, <2>13, NothingAsked DEF LinkInv, ConnNow,
      NimNow, CbNow, LinkUp, ConnOk, NimOk, PlacesOk, Inv
  <2>17. PlaceInv' BY <1>0, <2>2, <2>3, <2>4, <2>5, <2>6, <2>7, <2>8, <2>10, <2>11, <2>12, SMTT(30) DEF PlaceInv, ConnNow,
      NimNow, AdvNow, LinkUp, Holding, Closing, Clearing, ConnOk, IndOk, NimOk, PlacesOk, Inv
  <2>18. SubInv' BY <1>0, <2>7, <2>8, <2>10, <2>12 DEF SubInv, ConnNow, ConnOk, IndOk, ProcOk, LinkInv, LinkUp,
      PlaceInv, Holding, Closing, Clearing, Inv
  <2>19. IndInv' BY <1>0, <2>1, <2>2, <2>3, <2>4, <2>6, <2>7, <2>8, <2>9, <2>10, <2>11, <2>12,
      NothingAsked DEF IndInv, ConnNow, NimNow, CbNow, AdvNow, LinkUp, ConnOk, IndOk, NimOk, PlacesOk, LinkInv,
      PlaceInv, Holding, Closing, Clearing, Inv
  <2>20. ProcA' BY <1>0, <2>2, <2>3, <2>4, <2>7, <2>8, <2>10, <2>12, NothingAsked DEF ProcInv, ProcA, ConnNow, NimNow,
      LinkUp, ConnOk, ProcOk, NimOk, Inv
  <2>21. ProcB' BY <1>0, <2>1, <2>2, <2>3, <2>4, <2>6, <2>7, <2>8, <2>9, <2>10, <2>11, <2>12,
      NothingAsked DEF ProcInv, ProcB, ConnNow, NimNow, CbNow, AdvNow, LinkUp, ConnOk, ProcOk, NimOk, PlacesOk, Inv
  <2>22. ProcC' BY <1>0, <2>1, <2>2, <2>3, <2>4, <2>6, <2>7, <2>8, <2>9, <2>10, <2>11, <2>12,
      NothingAsked DEF ProcInv, ProcC, ConnNow, NimNow, CbNow, AdvNow, LinkUp, ConnOk, ProcOk, NimOk, PlacesOk,
      LinkInv, PlaceInv, Holding, Closing, Clearing, Inv
  <2>23. MtuInv' BY <1>0, <2>1, <2>2, <2>3, <2>4, <2>7, <2>8, <2>9, <2>10, <2>11, NothingAsked DEF MtuInv, ConnNow,
      NimNow, CbNow, LinkUp, ConnOk, NimOk, PlacesOk, Inv
  <2>24. QueuesQuiet BY <1>0, <2>12, <2>13 DEF QueuesQuiet, GattQuiet, Inv
  <2>25. ConnGrows BY <1>0, <2>2, <2>3, <2>4, <2>7, <2>8, <2>10 DEF ConnGrows, ConnNow, NimNow, LinkUp, ConnOk, NimOk,
      Inv
  <2> QED BY <2>14, <2>15, <2>16, <2>17, <2>18, <2>19, <2>20, <2>21, <2>22, <2>23, <2>24, <2>25, DataKept DEF Inv,
      ProcInv, QueuesQuiet
<1> QED BY <1>0, <1>1, <1>2, <1>3, <1>4 DEF Incoming

LEMMA IncomingPendingKeeps ==
  ASSUME Inv, IncomingPending
  PROVE  Inv' /\ QueuesQuiet
<1>0. ConnOk /\ IndOk /\ QueuesOk /\ ProcOk /\ NimOk /\ PlacesOk /\ UseOk
  BY TypesFlat DEF Inv
<1>1. CASE /\ cb.arg = conn.gen /\ conn.st = "CONNECTING"
           /\ conn' = [conn EXCEPT !.st = "PENDING"] /\ notices' = Append(notices, cb.arg)
           /\ nim' = [nim EXCEPT !.link.cb = cb.arg]
           /\ cb' = NoCb /\ UNCHANGED <<srv, cli>>
  <2>1. cb.kind = "accept"
    BY <1>1, <1>0 DEF IncomingPending, Inv
  <2>2. ConnNow("PENDING", conn.role, conn.gen, conn.h, conn.ref, conn.done, conn.mtu, conn.par, conn.link)
    BY <1>1, <1>0, ConnSt DEF Types, ConnStates, ConnRoles, IncomingPending, Inv
  <2>3. cb.arg \in Nat
    BY <1>1, <1>0 DEF PlacesOk, Inv
  <2>4. notices' = Append(notices, cb.arg) /\ notices' \in Seq(Nat)
    BY <1>1, <1>0, <2>3 DEF QueuesOk, Inv
  <2>5. NimNow(nim.scan, nim.adv, nim.conn, nim'.link, nim.links, nim.mtu, nim.ind, nim.proc)
        /\ nim'.link.id = nim.link.id /\ nim'.link.cb = cb.arg /\ nim'.link.term = nim.link.term
    BY <1>1, <1>0, <2>3, <2>4, NimLinkCb DEF Types, IncomingPending, Inv
  <2>6. CbNow("none", 0)
    BY <1>1, <1>0, <2>3, <2>4, CbEnds DEF CbKinds, IncomingPending, Inv
  <2>7. cb.arg = conn.gen /\ conn.st = "CONNECTING" BY <1>1
  <2>8. UNCHANGED <<fg>>
    BY <1>1, <1>0 DEF IncomingPending, LeaveRadio, KeepConn, flags, stack, Free
  <2>9. UNCHANGED <<srv, cli>>
    BY <1>1, <1>0 DEF IncomingPending, LeaveRadio, KeepConn, flags, stack, Free
  <2>10. UNCHANGED <<roles, scan, adv, heard, host, radio>>
    BY <1>1, <1>0 DEF IncomingPending, LeaveRadio, KeepConn, flags, stack, Free
  <2>11. Types' BY <1>0, <2>1, <2>2, <2>3, <2>4, <2>5, <2>6, <2>7, <2>8, <2>9, <2>10 DEF Types, ConnNow, NimNow,
      CbNow, Inv
  <2>12. CallInv' BY <1>0, <2>8 DEF CallInv, Inv
  <2>13. LinkInv' BY <1>0, <2>1, <2>2, <2>3, <2>4, <2>5, <2>6, <2>7, <2>10, NothingAsked DEF LinkInv, ConnNow, NimNow,
      CbNow, LinkUp, ConnOk, NimOk, PlacesOk, Inv
  <2>14. PlaceInv' BY <1>0, <2>1, <2>2, <2>3, <2>4, <2>5, <2>6, <2>7, <2>8, <2>9, <2>10 DEF PlaceInv, ConnNow, NimNow,
      CbNow, Holding, Closing, Clearing, ConnOk, IndOk, NimOk, PlacesOk, LinkInv, LinkUp, Inv
  <2>15. SubInv' BY <1>0, <2>2, <2>7, <2>9 DEF SubInv, ConnNow, ConnOk, IndOk, ProcOk, Inv
  <2>16. IndInv' BY <1>0, <2>1, <2>2, <2>3, <2>4, <2>5, <2>6, <2>7, <2>8, <2>9, <2>10, NothingAsked DEF IndInv,
      ConnNow, NimNow, CbNow, LinkUp, ConnOk, IndOk, NimOk, PlacesOk, Inv
  <2>17. ProcA' BY <1>0, <2>2, <2>5, <2>7, <2>9, NothingAsked DEF ProcInv, ProcA, ConnNow, NimNow, ConnOk, ProcOk,
      NimOk, Inv
  <2>18. ProcB' BY <1>0, <2>1, <2>2, <2>3, <2>4, <2>5, <2>6, <2>7, <2>8, <2>9, <2>10, NothingAsked DEF ProcInv, ProcB,
      ConnNow, NimNow, CbNow, LinkUp, ConnOk, ProcOk, NimOk, PlacesOk, Inv
  <2>19. ProcC' BY <1>0, <2>1, <2>2, <2>3, <2>4, <2>5, <2>6, <2>7, <2>8, <2>9, <2>10, NothingAsked DEF ProcInv, ProcC,
      ConnNow, NimNow, CbNow, LinkUp, ConnOk, ProcOk, NimOk, PlacesOk, Inv
  <2>20. MtuInv' BY <1>0, <2>1, <2>2, <2>3, <2>4, <2>5, <2>6, <2>7, <2>8, NothingAsked DEF MtuInv, ConnNow, NimNow,
      CbNow, LinkUp, ConnOk, NimOk, PlacesOk, Inv
  <2>21. QueuesQuiet BY <1>0, <2>9, <2>10 DEF QueuesQuiet, GattQuiet, Inv
  <2>22. ConnGrows BY <1>0, <2>2, <2>5, <2>7 DEF ConnGrows, ConnNow, NimNow, ConnOk, NimOk, Inv
  <2> QED BY <2>11, <2>12, <2>13, <2>14, <2>15, <2>16, <2>17, <2>18, <2>19, <2>20, <2>21, <2>22, DataKept DEF Inv,
      ProcInv, QueuesQuiet
<1>2. CASE /\ cb.arg = conn.gen /\ conn.st = "CONNECTING"
           /\ Free /\ cb' = [kind |-> "refuse", arg |-> 0] /\ UNCHANGED <<notices, nim>>
  <2>1. cb.kind = "accept"
    BY <1>2, <1>0 DEF IncomingPending, Inv
  <2>2. conn.gen \in Nat
    BY <1>2, <1>0 DEF ConnOk, Inv
  <2>3. ConnNow("FREE", "none", conn.gen, FALSE, FALSE, FALSE, FALSE, FALSE, 0)
    BY <1>2, <1>0, <2>2, ConnFree DEF Types, ConnStates, ConnRoles, IncomingPending, Free, Inv
  <2>4. SrvNow(NoSub, srv.q, srv.cur, srv'.ind) /\ IndKept(srv.ind.pending /\ srv.ind.gen # conn.gen)
    BY <1>2, <1>0, <2>2, SrvClosed DEF Types, ConnOk, Free, MarkDisconnected, IncomingPending, Inv
  <2>5. CliNow(Unknown, cli.q, cli.cur, cli'.proc)
        /\ ProcNow(cli.proc.pending /\ cli.proc.gen # conn.gen, cli.proc.abandoned, cli.proc.complete, cli.proc.stage,
             cli.proc.gen, cli.proc.id, cli.proc.mode, cli.proc.answer)
    BY <1>2, <1>0, <2>2, CliClosed DEF Types, ConnOk, Free, MarkDisconnected, IncomingPending, Inv
  <2>6. CbNow("refuse", 0)
    BY <1>2, <1>0, <2>2, CbIs DEF CbKinds, IncomingPending, Inv
  <2>7. cb.arg = conn.gen /\ conn.st = "CONNECTING" BY <1>2
  <2>8. UNCHANGED <<fg, nim>>
    BY <1>2, <1>0 DEF IncomingPending, LeaveRadio, KeepConn, flags, stack, Free
  <2>9. UNCHANGED <<roles, scan, adv, heard, notices, host, radio>>
    BY <1>2, <1>0 DEF IncomingPending, LeaveRadio, KeepConn, flags, stack, Free
  <2>10. Types' BY <1>0, <2>1, <2>2, <2>3, <2>4, <2>5, <2>6, <2>7, <2>8, <2>9 DEF Types, ConnNow, SrvNow, CliNow,
      CbNow, IndKept, ProcNow, Inv
  <2>11. CallInv' BY <1>0, <2>8 DEF CallInv, Inv
  <2>12. LinkInv' BY <1>0, <2>1, <2>2, <2>3, <2>6, <2>7, <2>8, <2>9 DEF LinkInv, ConnNow, CbNow, LinkUp, ConnOk,
      NimOk, PlacesOk, Inv
  <2>13. PlaceInv' BY <1>0, <2>1, <2>2, <2>3, <2>4, <2>6, <2>7, <2>8, <2>9, Constants DEF PlaceInv, ConnNow, SrvNow,
      CbNow, Holding, Closing, Clearing, ConnOk, IndOk, NimOk, PlacesOk, LinkInv, LinkUp, Inv
  <2>14. SubInv' BY <1>0, <2>2, <2>3, <2>4, <2>5, <2>7, Constants, ClearedClient DEF SubInv, ConnNow, SrvNow, CliNow,
      ConnOk, IndOk, ProcOk, Inv
  <2>15. IndInv' BY <1>0, <2>1, <2>2, <2>3, <2>4, <2>6, <2>7, <2>8, <2>9 DEF IndInv, ConnNow, SrvNow, CbNow, IndKept,
      LinkUp, ConnOk, IndOk, NimOk, PlacesOk, Inv
  <2>16. ProcA' BY <1>0, <2>2, <2>3, <2>5, <2>7, <2>8 DEF ProcInv, ProcA, ConnNow, CliNow, ProcNow, ConnOk, ProcOk,
      NimOk, Inv
  <2>17. ProcB' BY <1>0, <2>1, <2>2, <2>3, <2>5, <2>6, <2>7, <2>8, <2>9 DEF ProcInv, ProcB, ConnNow, CliNow, CbNow,
      ProcNow, LinkUp, ConnOk, ProcOk, NimOk, PlacesOk, Inv
  <2>18. ProcC' BY <1>0, <2>1, <2>2, <2>3, <2>5, <2>6, <2>7, <2>8, <2>9 DEF ProcInv, ProcC, ConnNow, CliNow, CbNow,
      ProcNow, LinkUp, ConnOk, ProcOk, NimOk, PlacesOk, Inv
  <2>19. MtuInv' BY <1>0, <2>1, <2>2, <2>3, <2>6, <2>7, <2>8 DEF MtuInv, ConnNow, CbNow, LinkUp, ConnOk, NimOk,
      PlacesOk, Inv
  <2>20. QueuesQuiet BY <1>0, <2>4, <2>5, <2>9 DEF QueuesQuiet, GattQuiet, SrvNow, CliNow, Inv
  <2>21. ConnGrows BY <1>0, <2>2, <2>3, <2>7, <2>8 DEF ConnGrows, ConnNow, ConnOk, NimOk, Inv
  <2> QED BY <2>10, <2>11, <2>12, <2>13, <2>14, <2>15, <2>16, <2>17, <2>18, <2>19, <2>20, <2>21, DataKept DEF Inv,
      ProcInv, QueuesQuiet
<1>3. CASE /\ ~(cb.arg = conn.gen /\ conn.st = "CONNECTING")
           /\ cb' = [kind |-> "refuse", arg |-> 0]
           /\ nim' = [nim EXCEPT !.link.cb = cb.arg] /\ KeepConn
  <2>1. cb.kind = "accept"
    BY <1>3, <1>0 DEF IncomingPending, Inv
  <2>2. cb.arg \in Nat
    BY <1>3, <1>0 DEF PlacesOk, Inv
  <2>3. NimNow(nim.scan, nim.adv, nim.conn, nim'.link, nim.links, nim.mtu, nim.ind, nim.proc)
        /\ nim'.link.id = nim.link.id /\ nim'.link.cb = cb.arg /\ nim'.link.term = nim.link.term
    BY <1>3, <1>0, <2>2, NimLinkCb DEF Types, IncomingPending, Inv
  <2>4. CbNow("refuse", 0)
    BY <1>3, <1>0, <2>2, CbIs DEF CbKinds, IncomingPending, Inv
  <2>5. ~(cb.arg = conn.gen /\ conn.st = "CONNECTING") BY <1>3
  <2>6. UNCHANGED <<fg, conn>>
    BY <1>3, <1>0 DEF IncomingPending, LeaveRadio, KeepConn, flags, stack, Free
  <2>7. UNCHANGED <<srv, cli>>
    BY <1>3, <1>0 DEF IncomingPending, LeaveRadio, KeepConn, flags, stack, Free
  <2>8. UNCHANGED <<roles, scan, adv, heard, notices, host, radio>>
    BY <1>3, <1>0 DEF IncomingPending, LeaveRadio, KeepConn, flags, stack, Free
  <2>9. Types' BY <1>0, <2>1, <2>2, <2>3, <2>4, <2>5, <2>6, <2>7, <2>8 DEF Types, NimNow, CbNow, Inv
  <2>10. CallInv' BY <1>0, <2>6 DEF CallInv, Inv
  <2>11. LinkInv' BY <1>0, <2>1, <2>2, <2>3, <2>4, <2>5, <2>6, <2>8, NothingAsked DEF LinkInv, NimNow, CbNow, LinkUp,
      ConnOk, NimOk, PlacesOk, Inv
  <2>12. PlaceInv' BY <1>0, <2>3, <2>5, <2>6, <2>7, <2>8 DEF PlaceInv, NimNow, Holding, Closing, Clearing, ConnOk,
      IndOk, NimOk, PlacesOk, Inv
  <2>13. SubInv' BY <1>0, <2>5, <2>6, <2>7 DEF SubInv, ConnOk, IndOk, ProcOk, Inv
  <2>14. IndInv' BY <1>0, <2>1, <2>2, <2>3, <2>4, <2>5, <2>6, <2>7, <2>8, NothingAsked DEF IndInv, NimNow, CbNow,
      LinkUp, ConnOk, IndOk, NimOk, PlacesOk, Inv
  <2>15. ProcA' BY <1>0, <2>3, <2>5, <2>6, <2>7, NothingAsked DEF ProcInv, ProcA, NimNow, ConnOk, ProcOk, NimOk, Inv
  <2>16. ProcB' BY <1>0, <2>1, <2>2, <2>3, <2>4, <2>5, <2>6, <2>7, <2>8, NothingAsked DEF ProcInv, ProcB, NimNow,
      CbNow, LinkUp, ConnOk, ProcOk, NimOk, PlacesOk, Inv
  <2>17. ProcC' BY <1>0, <2>1, <2>2, <2>3, <2>4, <2>5, <2>6, <2>7, <2>8, NothingAsked DEF ProcInv, ProcC, NimNow,
      CbNow, LinkUp, ConnOk, ProcOk, NimOk, PlacesOk, Inv
  <2>18. MtuInv' BY <1>0, <2>1, <2>2, <2>3, <2>4, <2>5, <2>6, NothingAsked DEF MtuInv, NimNow, CbNow, LinkUp, ConnOk,
      NimOk, PlacesOk, Inv
  <2>19. QueuesQuiet BY <1>0, <2>7, <2>8 DEF QueuesQuiet, GattQuiet, Inv
  <2>20. ConnGrows BY <1>0, <2>3, <2>5, <2>6 DEF ConnGrows, NimNow, ConnOk, NimOk, Inv
  <2> QED BY <2>9, <2>10, <2>11, <2>12, <2>13, <2>14, <2>15, <2>16, <2>17, <2>18, <2>19, <2>20, DataKept DEF Inv,
      ProcInv, QueuesQuiet
<1> QED BY <1>0, <1>1, <1>2, <1>3 DEF IncomingPending

LEMMA RefuseLinkKeeps ==
  ASSUME Inv, RefuseLink
  PROVE  Inv' /\ QueuesQuiet
<1>0. ConnOk /\ IndOk /\ QueuesOk /\ ProcOk /\ NimOk /\ PlacesOk /\ UseOk
  BY TypesFlat DEF Inv
<1>1. cb.kind = "refuse"
  BY <1>0 DEF RefuseLink, Inv
<1>2. CbNow("none", 0)
  BY <1>0, CbEnds DEF CbKinds, RefuseLink, Inv
<1>3. NimNow(nim.scan, nim.adv, nim.conn, nim'.link, nim.links, nim.mtu, nim.ind, nim.proc)
      /\ nim'.link.id = nim.link.id /\ nim'.link.cb = nim.link.cb /\ (LinkUp => nim'.link.term # "no")
  BY <1>0, Terminates DEF RefuseLink, Inv
<1>4. UNCHANGED <<fg, conn>>
  BY <1>0 DEF RefuseLink, LeaveRadio, flags, stack, bleVars
<1>5. UNCHANGED <<srv, cli>>
  BY <1>0 DEF RefuseLink, LeaveRadio, flags, stack, bleVars
<1>6. UNCHANGED <<roles, scan, adv, heard, notices, host, radio>>
  BY <1>0 DEF RefuseLink, LeaveRadio, flags, stack, bleVars
<1>7. Types' BY <1>0, <1>1, <1>2, <1>3, <1>4, <1>5, <1>6 DEF Types, NimNow, CbNow, Inv
<1>8. Aside BY <1>0, <1>1, <1>2, <1>3, <1>4, <1>5, <1>6 DEF Aside, NimKept, CbAside, HostAside, CallAside, NimNow,
    CbNow, LinkUp, ConnOk, IndOk, ProcOk, NimOk, PlacesOk, Inv
<1>9. QueuesQuiet BY <1>0, <1>5, <1>6 DEF QueuesQuiet, GattQuiet, Inv
<1> QED BY <1>7, <1>8, <1>9, AsideKeeps

LEMMA ConnectKeeps ==
  ASSUME Inv, Connect
  PROVE  Inv' /\ QueuesQuiet
<1>0. ConnOk /\ IndOk /\ QueuesOk /\ ProcOk /\ NimOk /\ PlacesOk /\ UseOk
  BY TypesFlat DEF Inv
<1>1. fg.at = "idle"
  BY <1>0 DEF At, Calls, Connect, Inv
<1>2. conn.st = "FREE" /\ radio = "READY"
  BY <1>0 DEF Quiet, Connect, Inv
<1>3. conn.gen + 1 \in Nat
  BY <1>0 DEF ConnOk, Inv
<1>4. ConnNow("CONNECTING", "central", conn.gen + 1, FALSE, TRUE, FALSE, FALSE, FALSE, 0)
  BY <1>0, <1>3, ConnReserved DEF Types, ConnStates, ConnRoles, Connect, Inv
<1>5. FgNow("connect", "connect.call", conn.gen + 1)
  BY <1>0, <1>3, FgDoes DEF Ops, GattPhases, Holding, Closing, Clearing, Connect, Inv
<1>6. UNCHANGED <<nim, cb>>
  BY <1>0 DEF Connect, Calls, LeaveRadio, flags, stack
<1>7. UNCHANGED <<srv, cli>>
  BY <1>0 DEF Connect, Calls, LeaveRadio, flags, stack
<1>8. UNCHANGED <<roles, scan, adv, notices, heard, host, radio>>
  BY <1>0 DEF Connect, Calls, LeaveRadio, flags, stack
<1>9. Types' BY <1>0, <1>1, <1>2, <1>3, <1>4, <1>5, <1>6, <1>7, <1>8 DEF Types, ConnNow, FgNow, Inv
<1>10. CallInv' BY <1>0, <1>1, <1>5 DEF CallInv, FgNow, Clearing, Inv
<1>11. LinkInv' BY <1>0, <1>2, <1>3, <1>4, <1>6, <1>8 DEF LinkInv, ConnNow, LinkUp, ConnOk, NimOk, PlacesOk, Inv
<1>12. PlaceInv' BY <1>0, <1>1, <1>2, <1>3, <1>4, <1>5, <1>6, <1>7, <1>8 DEF PlaceInv, ConnNow, FgNow, Holding,
    Closing, Clearing, ConnOk, IndOk, NimOk, PlacesOk, LinkInv, LinkUp, Inv
<1>13. SubInv' BY <1>0, <1>2, <1>3, <1>4, <1>7 DEF SubInv, ConnNow, ConnOk, IndOk, ProcOk, LinkInv, LinkUp, PlaceInv,
    Holding, Closing, Clearing, Inv
<1>14. IndInv' BY <1>0, <1>1, <1>2, <1>3, <1>4, <1>5, <1>6, <1>7, <1>8 DEF IndInv, ConnNow, FgNow, LinkUp, ConnOk,
    IndOk, NimOk, PlacesOk, LinkInv, PlaceInv, Holding, Closing, Clearing, Inv
<1>15. ProcA' BY <1>0, <1>2, <1>3, <1>4, <1>6, <1>7 DEF ProcInv, ProcA, ConnNow, ConnOk, ProcOk, NimOk, Inv
<1>16. ProcB' BY <1>0, <1>1, <1>2, <1>3, <1>4, <1>5, <1>6, <1>7, <1>8 DEF ProcInv, ProcB, ConnNow, FgNow, LinkUp,
    ConnOk, ProcOk, NimOk, PlacesOk, Inv
<1>17. ProcC' BY <1>0, <1>1, <1>2, <1>3, <1>4, <1>5, <1>6, <1>7, <1>8 DEF ProcInv, ProcC, ConnNow, FgNow, LinkUp,
    ConnOk, ProcOk, NimOk, PlacesOk, Inv
<1>18. MtuInv' BY <1>0, <1>1, <1>2, <1>3, <1>4, <1>5, <1>6 DEF MtuInv, ConnNow, FgNow, LinkUp, ConnOk, NimOk,
    PlacesOk, Inv
<1>19. QueuesQuiet BY <1>0, <1>7, <1>8 DEF QueuesQuiet, GattQuiet, Inv
<1>20. ConnGrows BY <1>0, <1>2, <1>3, <1>4, <1>6 DEF ConnGrows, ConnNow, ConnOk, NimOk, Inv
<1> QED BY <1>9, <1>10, <1>11, <1>12, <1>13, <1>14, <1>15, <1>16, <1>17, <1>18, <1>19, <1>20, DataKept DEF Inv,
    ProcInv, QueuesQuiet

LEMMA ConnectCallKeeps ==
  ASSUME Inv, ConnectCall
  PROVE  Inv' /\ QueuesQuiet
<1>0. ConnOk /\ IndOk /\ QueuesOk /\ ProcOk /\ NimOk /\ PlacesOk /\ UseOk
  BY TypesFlat DEF Inv
<1>1. CASE /\ host = "running" /\ enabled /\ nim.conn = 0 /\ ~LinkUp
           /\ nim' = [nim EXCEPT !.conn = fg.gen] /\ Go("connect.wait")
           /\ UNCHANGED <<conn, srv, cli>>
  <2>1. fg.at = "connect.call"
    BY <1>1, <1>0 DEF At, Calls, ConnectCall, Inv
  <2>2. fg.gen \in Nat
    BY <1>1, <1>0 DEF PlacesOk, Inv
  <2>3. NimNow(nim.scan, nim.adv, fg.gen, nim.link, nim.links, nim.mtu, nim.ind, nim.proc)
    BY <1>1, <1>0, <2>2, NimConn DEF Types, ConnectCall, Inv
  <2>4. FgNow(fg.op, "connect.wait", fg.gen)
    BY <1>1, <1>0, <2>2, FgGoes DEF GattPhases, RadioPhases, Holding, Closing, Clearing, Types, ConnectCall, Inv
  <2>5. host = "running" /\ enabled /\ nim.conn = 0 /\ ~LinkUp BY <1>1
  <2>6. UNCHANGED <<cb, conn>>
    BY <1>1, <1>0 DEF ConnectCall, LeaveRadio, flags, stack, Free
  <2>7. UNCHANGED <<srv, cli>>
    BY <1>1, <1>0 DEF ConnectCall, LeaveRadio, flags, stack, Free
  <2>8. UNCHANGED <<roles, scan, adv, heard, notices, host, radio>>
    BY <1>1, <1>0 DEF ConnectCall, LeaveRadio, flags, stack, Free
  <2>9. Types' BY <1>0, <2>1, <2>2, <2>3, <2>4, <2>5, <2>6, <2>7, <2>8 DEF Types, NimNow, FgNow, Inv
  <2>10. CallInv' BY <1>0, <2>1, <2>2, <2>4 DEF CallInv, FgNow, Clearing, Inv
  <2>11. LinkInv' BY <1>0, <2>1, <2>2, <2>3, <2>4, <2>5, <2>6, <2>8, NothingAsked DEF LinkInv, NimNow, FgNow, LinkUp,
      ConnOk, NimOk, PlacesOk, PlaceInv, Holding, Closing, Clearing, Inv
  <2>12. PlaceInv' BY <1>0, <2>1, <2>2, <2>3, <2>4, <2>5, <2>6, <2>7, <2>8 DEF PlaceInv, NimNow, FgNow, LinkUp,
      Holding, Closing, Clearing, ConnOk, IndOk, NimOk, PlacesOk, Inv
  <2>13. SubInv' BY <1>0, <2>5, <2>6, <2>7 DEF SubInv, LinkUp, ConnOk, IndOk, ProcOk, Inv
  <2>14. IndInv' BY <1>0, <2>1, <2>2, <2>3, <2>4, <2>5, <2>6, <2>7, <2>8, NothingAsked DEF IndInv, NimNow, FgNow,
      LinkUp, ConnOk, IndOk, NimOk, PlacesOk, Inv
  <2>15. ProcA' BY <1>0, <2>3, <2>5, <2>6, <2>7, NothingAsked DEF ProcInv, ProcA, NimNow, LinkUp, ConnOk, ProcOk,
      NimOk, Inv
  <2>16. ProcB' BY <1>0, <2>1, <2>2, <2>3, <2>4, <2>5, <2>6, <2>7, <2>8, NothingAsked DEF ProcInv, ProcB, NimNow,
      FgNow, LinkUp, ConnOk, ProcOk, NimOk, PlacesOk, Inv
  <2>17. ProcC' BY <1>0, <2>1, <2>2, <2>3, <2>4, <2>5, <2>6, <2>7, <2>8, NothingAsked DEF ProcInv, ProcC, NimNow,
      FgNow, LinkUp, ConnOk, ProcOk, NimOk, PlacesOk, Inv
  <2>18. MtuInv' BY <1>0, <2>1, <2>2, <2>3, <2>4, <2>5, <2>6, NothingAsked DEF MtuInv, NimNow, FgNow, LinkUp, ConnOk,
      NimOk, PlacesOk, Inv
  <2>19. QueuesQuiet BY <1>0, <2>7, <2>8 DEF QueuesQuiet, GattQuiet, Inv
  <2>20. ConnGrows BY <1>0, <2>3, <2>5, <2>6 DEF ConnGrows, NimNow, LinkUp, ConnOk, NimOk, Inv
  <2> QED BY <2>9, <2>10, <2>11, <2>12, <2>13, <2>14, <2>15, <2>16, <2>17, <2>18, <2>19, <2>20, DataKept DEF Inv,
      ProcInv, QueuesQuiet
<1>2. CASE /\ fg.gen = conn.gen /\ conn.st = "CONNECTING" /\ Free
           /\ Answer /\ UNCHANGED nim
  <2>1. fg.at = "connect.call"
    BY <1>2, <1>0 DEF At, Calls, ConnectCall, Inv
  <2>2. conn.gen \in Nat
    BY <1>2, <1>0 DEF ConnOk, Inv
  <2>3. ConnNow("FREE", "none", conn.gen, FALSE, FALSE, FALSE, FALSE, FALSE, 0)
    BY <1>2, <1>0, <2>2, ConnFree DEF Types, ConnStates, ConnRoles, ConnectCall, Free, Inv
  <2>4. SrvNow(NoSub, srv.q, srv.cur, srv'.ind) /\ IndKept(srv.ind.pending /\ srv.ind.gen # conn.gen)
    BY <1>2, <1>0, <2>2, SrvClosed DEF Types, ConnOk, Free, MarkDisconnected, ConnectCall, Inv
  <2>5. CliNow(Unknown, cli.q, cli.cur, cli'.proc)
        /\ ProcNow(cli.proc.pending /\ cli.proc.gen # conn.gen, cli.proc.abandoned, cli.proc.complete, cli.proc.stage,
             cli.proc.gen, cli.proc.id, cli.proc.mode, cli.proc.answer)
    BY <1>2, <1>0, <2>2, CliClosed DEF Types, ConnOk, Free, MarkDisconnected, ConnectCall, Inv
  <2>6. FgNow("none", "idle", 0)
    BY <1>2, <1>0, <2>2, FgAnswers DEF ConnectCall, Inv
  <2>7. fg.gen = conn.gen /\ conn.st = "CONNECTING" BY <1>2
  <2>8. UNCHANGED <<nim, cb>>
    BY <1>2, <1>0 DEF ConnectCall, LeaveRadio, flags, stack, Free
  <2>9. UNCHANGED <<roles, scan, adv, notices, heard, host, radio>>
    BY <1>2, <1>0 DEF ConnectCall, LeaveRadio, flags, stack, Free
  <2>10. Types' BY <1>0, <2>1, <2>2, <2>3, <2>4, <2>5, <2>6, <2>7, <2>8, <2>9 DEF Types, ConnNow, SrvNow, CliNow,
      FgNow, IndKept, ProcNow, Inv
  <2>11. CallInv' BY <1>0, <2>1, <2>6, <2>7 DEF CallInv, FgNow, Clearing, Inv
  <2>12. LinkInv' BY <1>0, <2>2, <2>3, <2>7, <2>8, <2>9 DEF LinkInv, ConnNow, LinkUp, ConnOk, NimOk, PlacesOk, Inv
  <2>13. PlaceInv' BY <1>0, <2>1, <2>2, <2>3, <2>4, <2>6, <2>7, <2>8, <2>9, Constants DEF PlaceInv, ConnNow, SrvNow,
      FgNow, Holding, Closing, Clearing, ConnOk, IndOk, NimOk, PlacesOk, Inv
  <2>14. SubInv' BY <1>0, <2>2, <2>3, <2>4, <2>5, <2>7, Constants, ClearedClient DEF SubInv, ConnNow, SrvNow, CliNow,
      ConnOk, IndOk, ProcOk, Inv
  <2>15. IndInv' BY <1>0, <2>1, <2>2, <2>3, <2>4, <2>6, <2>7, <2>8, <2>9 DEF IndInv, ConnNow, SrvNow, FgNow, IndKept,
      LinkUp, ConnOk, IndOk, NimOk, PlacesOk, Inv
  <2>16. ProcA' BY <1>0, <2>2, <2>3, <2>5, <2>7, <2>8 DEF ProcInv, ProcA, ConnNow, CliNow, ProcNow, ConnOk, ProcOk,
      NimOk, Inv
  <2>17. ProcB' BY <1>0, <2>1, <2>2, <2>3, <2>5, <2>6, <2>7, <2>8, <2>9 DEF ProcInv, ProcB, ConnNow, CliNow, FgNow,
      ProcNow, LinkUp, ConnOk, ProcOk, NimOk, PlacesOk, Inv
  <2>18. ProcC' BY <1>0, <2>1, <2>2, <2>3, <2>5, <2>6, <2>7, <2>8, <2>9 DEF ProcInv, ProcC, ConnNow, CliNow, FgNow,
      ProcNow, LinkUp, ConnOk, ProcOk, NimOk, PlacesOk, Inv
  <2>19. MtuInv' BY <1>0, <2>1, <2>2, <2>3, <2>6, <2>7, <2>8 DEF MtuInv, ConnNow, FgNow, LinkUp, ConnOk, NimOk,
      PlacesOk, Inv
  <2>20. QueuesQuiet BY <1>0, <2>4, <2>5, <2>9 DEF QueuesQuiet, GattQuiet, SrvNow, CliNow, Inv
  <2>21. ConnGrows BY <1>0, <2>2, <2>3, <2>7, <2>8 DEF ConnGrows, ConnNow, ConnOk, NimOk, Inv
  <2> QED BY <2>10, <2>11, <2>12, <2>13, <2>14, <2>15, <2>16, <2>17, <2>18, <2>19, <2>20, <2>21, DataKept DEF Inv,
      ProcInv, QueuesQuiet
<1>3. CASE /\ ~(fg.gen = conn.gen /\ conn.st = "CONNECTING") /\ UNCHANGED <<conn, srv, cli>>
           /\ Answer /\ UNCHANGED nim
  <2>1. fg.at = "connect.call"
    BY <1>3, <1>0 DEF At, Calls, ConnectCall, Inv
  <2>2. FgNow("none", "idle", 0)
    BY <1>3, <1>0, FgAnswers DEF ConnectCall, Inv
  <2>3. ~(fg.gen = conn.gen /\ conn.st = "CONNECTING") BY <1>3
  <2>4. UNCHANGED <<nim, cb, conn>>
    BY <1>3, <1>0 DEF ConnectCall, LeaveRadio, flags, stack, Free
  <2>5. UNCHANGED <<srv, cli>>
    BY <1>3, <1>0 DEF ConnectCall, LeaveRadio, flags, stack, Free
  <2>6. UNCHANGED <<roles, scan, adv, heard, notices, host, radio>>
    BY <1>3, <1>0 DEF ConnectCall, LeaveRadio, flags, stack, Free
  <2>7. Types' BY <1>0, <2>1, <2>2, <2>3, <2>4, <2>5, <2>6 DEF Types, FgNow, Inv
  <2>8. CallInv' BY <1>0, <2>1, <2>2, <2>3 DEF CallInv, FgNow, Clearing, Inv
  <2>9. LinkInv' BY <1>0, <2>3, <2>4, <2>6 DEF LinkInv, LinkUp, ConnOk, NimOk, PlacesOk, Inv
  <2>10. PlaceInv' BY <1>0, <2>1, <2>2, <2>3, <2>4, <2>5, <2>6 DEF PlaceInv, FgNow, Holding, Closing, Clearing,
      ConnOk, IndOk, NimOk, PlacesOk, Inv
  <2>11. SubInv' BY <1>0, <2>3, <2>4, <2>5 DEF SubInv, ConnOk, IndOk, ProcOk, Inv
  <2>12. IndInv' BY <1>0, <2>1, <2>2, <2>3, <2>4, <2>5, <2>6 DEF IndInv, FgNow, LinkUp, ConnOk, IndOk, NimOk,
      PlacesOk, Inv
  <2>13. ProcA' BY <1>0, <2>3, <2>4, <2>5 DEF ProcInv, ProcA, ConnOk, ProcOk, NimOk, Inv
  <2>14. ProcB' BY <1>0, <2>1, <2>2, <2>3, <2>4, <2>5, <2>6 DEF ProcInv, ProcB, FgNow, LinkUp, ConnOk, ProcOk, NimOk,
      PlacesOk, Inv
  <2>15. ProcC' BY <1>0, <2>1, <2>2, <2>3, <2>4, <2>5, <2>6 DEF ProcInv, ProcC, FgNow, LinkUp, ConnOk, ProcOk, NimOk,
      PlacesOk, Inv
  <2>16. MtuInv' BY <1>0, <2>1, <2>2, <2>3, <2>4 DEF MtuInv, FgNow, LinkUp, ConnOk, NimOk, PlacesOk, Inv
  <2>17. QueuesQuiet BY <1>0, <2>5, <2>6 DEF QueuesQuiet, GattQuiet, Inv
  <2>18. ConnGrows BY <1>0, <2>3, <2>4 DEF ConnGrows, ConnOk, NimOk, Inv
  <2> QED BY <2>7, <2>8, <2>9, <2>10, <2>11, <2>12, <2>13, <2>14, <2>15, <2>16, <2>17, <2>18, DataKept DEF Inv,
      ProcInv, QueuesQuiet
<1> QED BY <1>0, <1>1, <1>2, <1>3 DEF ConnectCall

LEMMA ConnectWaitKeeps ==
  ASSUME Inv, ConnectWait
  PROVE  Inv' /\ QueuesQuiet
<1>0. ConnOk /\ IndOk /\ QueuesOk /\ ProcOk /\ NimOk /\ PlacesOk /\ UseOk
  BY TypesFlat DEF Inv
<1>1. CASE fg.gen = conn.gen /\ conn.done /\ conn.st \notin {"LIVE", "CLOSING"}
  <2>1. fg.at = "connect.wait"
    BY <1>1, <1>0 DEF At, Calls, ConnectWait, Inv
  <2>2. conn.gen \in Nat
    BY <1>1, <1>0 DEF ConnOk, Inv
  <2>3. ConnNow("FREE", "none", conn.gen, FALSE, FALSE, FALSE, FALSE, FALSE, 0)
    BY <1>1, <1>0, <2>2, ConnFree DEF Types, ConnStates, ConnRoles, ConnectWait, Free, Inv
  <2>4. SrvNow(NoSub, srv.q, srv.cur, srv'.ind) /\ IndKept(srv.ind.pending /\ srv.ind.gen # conn.gen)
    BY <1>1, <1>0, <2>2, SrvClosed DEF Types, ConnOk, Free, MarkDisconnected, ConnectWait, Inv
  <2>5. CliNow(Unknown, cli.q, cli.cur, cli'.proc)
        /\ ProcNow(cli.proc.pending /\ cli.proc.gen # conn.gen, cli.proc.abandoned, cli.proc.complete, cli.proc.stage,
             cli.proc.gen, cli.proc.id, cli.proc.mode, cli.proc.answer)
    BY <1>1, <1>0, <2>2, CliClosed DEF Types, ConnOk, Free, MarkDisconnected, ConnectWait, Inv
  <2>6. FgNow("none", "idle", 0)
    BY <1>1, <1>0, <2>2, FgAnswers DEF ConnectWait, Inv
  <2>7. fg.gen = conn.gen /\ conn.done /\ conn.st \notin {"LIVE", "CLOSING"} BY <1>1
  <2>8. UNCHANGED <<nim, cb>>
    BY <1>1, <1>0 DEF ConnectWait, LeaveRadio, flags, stack, Free
  <2>9. UNCHANGED <<roles, scan, adv, notices, heard, host, radio>>
    BY <1>1, <1>0 DEF ConnectWait, LeaveRadio, flags, stack, Free
  <2>10. Types' BY <1>0, <2>1, <2>2, <2>3, <2>4, <2>5, <2>6, <2>7, <2>8, <2>9 DEF Types, ConnNow, SrvNow, CliNow,
      FgNow, IndKept, ProcNow, Inv
  <2>11. CallInv' BY <1>0, <2>1, <2>6, <2>7 DEF CallInv, FgNow, Clearing, Inv
  <2>12. LinkInv' BY <1>0, <2>2, <2>3, <2>7, <2>8, <2>9 DEF LinkInv, ConnNow, LinkUp, ConnOk, NimOk, PlacesOk, Inv
  <2>13. PlaceInv' BY <1>0, <2>1, <2>2, <2>3, <2>4, <2>6, <2>7, <2>8, <2>9, Constants DEF PlaceInv, ConnNow, SrvNow,
      FgNow, Holding, Closing, Clearing, ConnOk, IndOk, NimOk, PlacesOk, Inv
  <2>14. SubInv' BY <1>0, <2>2, <2>3, <2>4, <2>5, <2>7, Constants, ClearedClient DEF SubInv, ConnNow, SrvNow, CliNow,
      ConnOk, IndOk, ProcOk, Inv
  <2>15. IndInv' BY <1>0, <2>1, <2>2, <2>3, <2>4, <2>6, <2>7, <2>8, <2>9 DEF IndInv, ConnNow, SrvNow, FgNow, IndKept,
      LinkUp, ConnOk, IndOk, NimOk, PlacesOk, Inv
  <2>16. ProcA' BY <1>0, <2>2, <2>3, <2>5, <2>7, <2>8 DEF ProcInv, ProcA, ConnNow, CliNow, ProcNow, ConnOk, ProcOk,
      NimOk, Inv
  <2>17. ProcB' BY <1>0, <2>1, <2>2, <2>3, <2>5, <2>6, <2>7, <2>8, <2>9 DEF ProcInv, ProcB, ConnNow, CliNow, FgNow,
      ProcNow, LinkUp, ConnOk, ProcOk, NimOk, PlacesOk, Inv
  <2>18. ProcC' BY <1>0, <2>1, <2>2, <2>3, <2>5, <2>6, <2>7, <2>8, <2>9 DEF ProcInv, ProcC, ConnNow, CliNow, FgNow,
      ProcNow, LinkUp, ConnOk, ProcOk, NimOk, PlacesOk, Inv
  <2>19. MtuInv' BY <1>0, <2>1, <2>2, <2>3, <2>6, <2>7, <2>8 DEF MtuInv, ConnNow, FgNow, LinkUp, ConnOk, NimOk,
      PlacesOk, Inv
  <2>20. QueuesQuiet BY <1>0, <2>4, <2>5, <2>9 DEF QueuesQuiet, GattQuiet, SrvNow, CliNow, Inv
  <2>21. ConnGrows BY <1>0, <2>2, <2>3, <2>7, <2>8 DEF ConnGrows, ConnNow, ConnOk, NimOk, Inv
  <2> QED BY <2>10, <2>11, <2>12, <2>13, <2>14, <2>15, <2>16, <2>17, <2>18, <2>19, <2>20, <2>21, DataKept DEF Inv,
      ProcInv, QueuesQuiet
<1>2. CASE ~(fg.gen = conn.gen /\ conn.done /\ conn.st \notin {"LIVE", "CLOSING"})
  <2>1. fg.at = "connect.wait"
    BY <1>2, <1>0 DEF At, Calls, ConnectWait, Inv
  <2>2. fg.gen = conn.gen => conn.st = "FREE" \/ conn.done
    BY <1>2, <1>0 DEF ConnectWait, Inv
  <2>3. FgNow("none", "idle", 0)
    BY <1>2, <1>0, FgAnswers DEF ConnectWait, Inv
  <2>4. ~(fg.gen = conn.gen /\ conn.done /\ conn.st \notin {"LIVE", "CLOSING"}) BY <1>2
  <2>5. UNCHANGED <<nim, cb, conn>>
    BY <1>2, <1>0 DEF ConnectWait, LeaveRadio, flags, stack, Free
  <2>6. UNCHANGED <<srv, cli>>
    BY <1>2, <1>0 DEF ConnectWait, LeaveRadio, flags, stack, Free
  <2>7. UNCHANGED <<roles, scan, adv, heard, notices, host, radio>>
    BY <1>2, <1>0 DEF ConnectWait, LeaveRadio, flags, stack, Free
  <2>8. Types' BY <1>0, <2>1, <2>2, <2>3, <2>4, <2>5, <2>6, <2>7 DEF Types, FgNow, Inv
  <2>9. CallInv' BY <1>0, <2>1, <2>2, <2>3, <2>4 DEF CallInv, FgNow, Clearing, Inv
  <2>10. LinkInv' BY <1>0, <2>2, <2>4, <2>5, <2>7 DEF LinkInv, LinkUp, ConnOk, NimOk, PlacesOk, Inv
  <2>11. PlaceInv' BY <1>0, <2>1, <2>2, <2>3, <2>4, <2>5, <2>6, <2>7 DEF PlaceInv, FgNow, Holding, Closing, Clearing,
      ConnOk, IndOk, NimOk, PlacesOk, Inv
  <2>12. SubInv' BY <1>0, <2>2, <2>4, <2>5, <2>6 DEF SubInv, ConnOk, IndOk, ProcOk, Inv
  <2>13. IndInv' BY <1>0, <2>1, <2>2, <2>3, <2>4, <2>5, <2>6, <2>7 DEF IndInv, FgNow, LinkUp, ConnOk, IndOk, NimOk,
      PlacesOk, Inv
  <2>14. ProcA' BY <1>0, <2>2, <2>4, <2>5, <2>6 DEF ProcInv, ProcA, ConnOk, ProcOk, NimOk, Inv
  <2>15. ProcB' BY <1>0, <2>1, <2>2, <2>3, <2>4, <2>5, <2>6, <2>7 DEF ProcInv, ProcB, FgNow, LinkUp, ConnOk, ProcOk,
      NimOk, PlacesOk, Inv
  <2>16. ProcC' BY <1>0, <2>1, <2>2, <2>3, <2>4, <2>5, <2>6, <2>7 DEF ProcInv, ProcC, FgNow, LinkUp, ConnOk, ProcOk,
      NimOk, PlacesOk, Inv
  <2>17. MtuInv' BY <1>0, <2>1, <2>2, <2>3, <2>4, <2>5 DEF MtuInv, FgNow, LinkUp, ConnOk, NimOk, PlacesOk, Inv
  <2>18. QueuesQuiet BY <1>0, <2>6, <2>7 DEF QueuesQuiet, GattQuiet, Inv
  <2>19. ConnGrows BY <1>0, <2>2, <2>4, <2>5 DEF ConnGrows, ConnOk, NimOk, Inv
  <2> QED BY <2>8, <2>9, <2>10, <2>11, <2>12, <2>13, <2>14, <2>15, <2>16, <2>17, <2>18, <2>19, DataKept DEF Inv,
      ProcInv, QueuesQuiet
<1> QED BY <1>0, <1>1, <1>2 DEF ConnectWait

LEMMA ConnectAbortKeeps ==
  ASSUME Inv, ConnectAbort
  PROVE  Inv' /\ QueuesQuiet
<1>0. ConnOk /\ IndOk /\ QueuesOk /\ ProcOk /\ NimOk /\ PlacesOk /\ UseOk
  BY TypesFlat DEF Inv
<1>1. fg.at = "connect.wait"
  BY <1>0 DEF At, Calls, ConnectAbort, Inv
<1>2. fg.gen = conn.gen /\ conn.st = "CONNECTING" /\ ~conn.done
  BY <1>0 DEF ConnectAbort, Inv
<1>3. ConnNow("CLOSING", conn.role, conn.gen, conn.h, conn.ref, conn.done, conn.mtu, conn.par, conn.link)
  BY <1>0, ConnSt DEF Types, ConnStates, ConnRoles, ConnectAbort, Inv
<1>4. FgNow(fg.op, "connect.cancel", fg.gen)
  BY <1>0, FgGoes DEF GattPhases, RadioPhases, Holding, Closing, Clearing, Types, ConnectAbort, Inv
<1>5. UNCHANGED <<nim, cb>>
  BY <1>0 DEF ConnectAbort, LeaveRadio, flags, stack
<1>6. UNCHANGED <<srv, cli>>
  BY <1>0 DEF ConnectAbort, LeaveRadio, flags, stack
<1>7. UNCHANGED <<roles, scan, adv, notices, heard, host, radio>>
  BY <1>0 DEF ConnectAbort, LeaveRadio, flags, stack
<1>8. Types' BY <1>0, <1>1, <1>2, <1>3, <1>4, <1>5, <1>6, <1>7 DEF Types, ConnNow, FgNow, Inv
<1>9. CallInv' BY <1>0, <1>1, <1>2, <1>4 DEF CallInv, FgNow, Clearing, Inv
<1>10. LinkInv' BY <1>0, <1>1, <1>2, <1>3, <1>4, <1>5, <1>7 DEF LinkInv, ConnNow, FgNow, LinkUp, ConnOk, NimOk,
    PlacesOk, PlaceInv, Holding, Closing, Clearing, Inv
<1>11. PlaceInv' BY <1>0, <1>1, <1>2, <1>3, <1>4, <1>5, <1>6, <1>7 DEF PlaceInv, ConnNow, FgNow, Holding, Closing,
    Clearing, ConnOk, IndOk, NimOk, PlacesOk, Inv
<1>12. SubInv' BY <1>0, <1>2, <1>3, <1>6 DEF SubInv, ConnNow, ConnOk, IndOk, ProcOk, Inv
<1>13. IndInv' BY <1>0, <1>1, <1>2, <1>3, <1>4, <1>5, <1>6, <1>7 DEF IndInv, ConnNow, FgNow, LinkUp, ConnOk, IndOk,
    NimOk, PlacesOk, Inv
<1>14. ProcA' BY <1>0, <1>2, <1>3, <1>5, <1>6 DEF ProcInv, ProcA, ConnNow, ConnOk, ProcOk, NimOk, Inv
<1>15. ProcB' BY <1>0, <1>1, <1>2, <1>3, <1>4, <1>5, <1>6, <1>7 DEF ProcInv, ProcB, ConnNow, FgNow, LinkUp, ConnOk,
    ProcOk, NimOk, PlacesOk, Inv
<1>16. ProcC' BY <1>0, <1>1, <1>2, <1>3, <1>4, <1>5, <1>6, <1>7 DEF ProcInv, ProcC, ConnNow, FgNow, LinkUp, ConnOk,
    ProcOk, NimOk, PlacesOk, Inv
<1>17. MtuInv' BY <1>0, <1>1, <1>2, <1>3, <1>4, <1>5 DEF MtuInv, ConnNow, FgNow, LinkUp, ConnOk, NimOk, PlacesOk, Inv
<1>18. QueuesQuiet BY <1>0, <1>6, <1>7 DEF QueuesQuiet, GattQuiet, Inv
<1>19. ConnGrows BY <1>0, <1>2, <1>3, <1>5 DEF ConnGrows, ConnNow, ConnOk, NimOk, Inv
<1> QED BY <1>8, <1>9, <1>10, <1>11, <1>12, <1>13, <1>14, <1>15, <1>16, <1>17, <1>18, <1>19, DataKept DEF Inv,
    ProcInv, QueuesQuiet

LEMMA ConnectCancelKeeps ==
  ASSUME Inv, ConnectCancel
  PROVE  Inv' /\ QueuesQuiet
<1>0. ConnOk /\ IndOk /\ QueuesOk /\ ProcOk /\ NimOk /\ PlacesOk /\ UseOk
  BY TypesFlat DEF Inv
<1>1. fg.at = "connect.cancel"
  BY <1>0 DEF At, Calls, ConnectCancel, Inv
<1>2. FgNow("none", "idle", 0)
  BY <1>0, FgAnswers DEF ConnectCancel, Inv
<1>3. UNCHANGED <<nim, cb, conn>>
  BY <1>0 DEF ConnectCancel, LeaveRadio, flags, stack, bleVars, lvars
<1>4. UNCHANGED <<srv, cli>>
  BY <1>0 DEF ConnectCancel, LeaveRadio, flags, stack, bleVars, lvars
<1>5. UNCHANGED <<roles, scan, adv, heard, notices, host, radio>>
  BY <1>0 DEF ConnectCancel, LeaveRadio, flags, stack, bleVars, lvars
<1>6. Types' BY <1>0, <1>1, <1>2, <1>3, <1>4, <1>5 DEF Types, FgNow, Inv
<1>7. Aside BY <1>0, <1>1, <1>2, <1>3, <1>4, <1>5 DEF Aside, NimKept, CbAside, HostAside, CallAside, FgNow, LinkUp,
    Excused, Bound, Holding, Closing, Clearing, ConnOk, IndOk, ProcOk, NimOk, PlacesOk, Inv
<1>8. QueuesQuiet BY <1>0, <1>4, <1>5 DEF QueuesQuiet, GattQuiet, Inv
<1> QED BY <1>6, <1>7, <1>8, AsideKeeps

LEMMA ConnectFailedKeeps ==
  ASSUME Inv, ConnectFailed
  PROVE  Inv' /\ QueuesQuiet
<1>0. ConnOk /\ IndOk /\ QueuesOk /\ ProcOk /\ NimOk /\ PlacesOk /\ UseOk
  BY TypesFlat DEF Inv
<1>1. CASE ~ConnectIsCurrent(nim.conn)
  <2>1. cb.kind = "none" /\ host = "running"
    BY <1>1, <1>0 DEF Callback, NoCb, ConnectFailed, Inv
  <2>2. nim.conn # 0
    BY <1>1, <1>0 DEF ConnectFailed, Inv
  <2>3. NimNow(nim.scan, nim.adv, 0, nim.link, nim.links, nim.mtu, nim.ind, nim.proc)
    BY <1>1, <1>0, NimConn DEF Types, ConnectFailed, Inv
  <2>4. (~ConnectIsCurrent(nim.conn)) BY <1>1
  <2>5. UNCHANGED <<fg, cb, conn>>
    BY <1>1, <1>0 DEF ConnectFailed, Callback, flags, stack, Free
  <2>6. UNCHANGED <<srv, cli>>
    BY <1>1, <1>0 DEF ConnectFailed, Callback, flags, stack, Free
  <2>7. UNCHANGED <<roles, scan, adv, heard, notices, host, radio>>
    BY <1>1, <1>0 DEF ConnectFailed, Callback, flags, stack, Free
  <2>8. Types' BY <1>0, <2>1, <2>2, <2>3, <2>4, <2>5, <2>6, <2>7 DEF Types, NimNow, Inv
  <2>9. CallInv' BY <1>0, <2>5 DEF CallInv, Inv
  <2>10. LinkInv' BY <1>0, <2>1, <2>2, <2>3, <2>4, <2>5, <2>7, NothingAsked DEF LinkInv, NimNow, LinkUp,
      ConnectIsCurrent, ConnOk, NimOk, PlacesOk, Inv
  <2>11. PlaceInv' BY <1>0, <2>2, <2>3, <2>4, <2>5, <2>6, <2>7 DEF PlaceInv, NimNow, ConnectIsCurrent, Holding,
      Closing, Clearing, ConnOk, IndOk, NimOk, PlacesOk, LinkInv, LinkUp, Inv
  <2>12. SubInv' BY <1>0, <2>2, <2>4, <2>5, <2>6 DEF SubInv, ConnectIsCurrent, ConnOk, IndOk, ProcOk, Inv
  <2>13. IndInv' BY <1>0, <2>1, <2>2, <2>3, <2>4, <2>5, <2>6, <2>7, NothingAsked DEF IndInv, NimNow, LinkUp,
      ConnectIsCurrent, ConnOk, IndOk, NimOk, PlacesOk, Inv
  <2>14. ProcA' BY <1>0, <2>2, <2>3, <2>4, <2>5, <2>6, NothingAsked DEF ProcInv, ProcA, NimNow, ConnectIsCurrent,
      ConnOk, ProcOk, NimOk, Inv
  <2>15. ProcB' BY <1>0, <2>1, <2>2, <2>3, <2>4, <2>5, <2>6, <2>7, NothingAsked DEF ProcInv, ProcB, NimNow, LinkUp,
      ConnectIsCurrent, ConnOk, ProcOk, NimOk, PlacesOk, Inv
  <2>16. ProcC' BY <1>0, <2>1, <2>2, <2>3, <2>4, <2>5, <2>6, <2>7, NothingAsked DEF ProcInv, ProcC, NimNow, LinkUp,
      ConnectIsCurrent, ConnOk, ProcOk, NimOk, PlacesOk, Inv
  <2>17. MtuInv' BY <1>0, <2>1, <2>2, <2>3, <2>4, <2>5, NothingAsked DEF MtuInv, NimNow, LinkUp, ConnectIsCurrent,
      ConnOk, NimOk, PlacesOk, Inv
  <2>18. QueuesQuiet BY <1>0, <2>6, <2>7 DEF QueuesQuiet, GattQuiet, Inv
  <2>19. ConnGrows BY <1>0, <2>2, <2>3, <2>4, <2>5 DEF ConnGrows, NimNow, ConnectIsCurrent, ConnOk, NimOk, Inv
  <2> QED BY <2>8, <2>9, <2>10, <2>11, <2>12, <2>13, <2>14, <2>15, <2>16, <2>17, <2>18, <2>19, DataKept DEF Inv,
      ProcInv, QueuesQuiet
<1>2. CASE ConnectIsCurrent(nim.conn) /\ conn.st = "CLOSING"
  <2>1. cb.kind = "none" /\ host = "running"
    BY <1>2, <1>0 DEF Callback, NoCb, ConnectFailed, Inv
  <2>2. nim.conn # 0
    BY <1>2, <1>0 DEF ConnectFailed, Inv
  <2>3. NimNow(nim.scan, nim.adv, 0, nim.link, nim.links, nim.mtu, nim.ind, nim.proc)
    BY <1>2, <1>0, NimConn DEF Types, ConnectFailed, Inv
  <2>4. conn.gen \in Nat
    BY <1>2, <1>0 DEF ConnOk, Inv
  <2>5. ConnNow("FREE", "none", conn.gen, FALSE, FALSE, FALSE, FALSE, FALSE, 0)
    BY <1>2, <1>0, <2>4, ConnFree DEF Types, ConnStates, ConnRoles, ConnectFailed, Free, Inv
  <2>6. SrvNow(NoSub, srv.q, srv.cur, srv'.ind) /\ IndKept(srv.ind.pending /\ srv.ind.gen # conn.gen)
    BY <1>2, <1>0, <2>4, SrvClosed DEF Types, ConnOk, Free, MarkDisconnected, ConnectFailed, Inv
  <2>7. CliNow(Unknown, cli.q, cli.cur, cli'.proc)
        /\ ProcNow(cli.proc.pending /\ cli.proc.gen # conn.gen, cli.proc.abandoned, cli.proc.complete, cli.proc.stage,
             cli.proc.gen, cli.proc.id, cli.proc.mode, cli.proc.answer)
    BY <1>2, <1>0, <2>4, CliClosed DEF Types, ConnOk, Free, MarkDisconnected, ConnectFailed, Inv
  <2>8. ConnectIsCurrent(nim.conn) /\ conn.st = "CLOSING" BY <1>2
  <2>9. UNCHANGED <<fg, cb>>
    BY <1>2, <1>0 DEF ConnectFailed, Callback, flags, stack, Free
  <2>10. UNCHANGED <<roles, scan, adv, heard, notices, host, radio>>
    BY <1>2, <1>0 DEF ConnectFailed, Callback, flags, stack, Free
  <2>11. Types' BY <1>0, <2>1, <2>2, <2>3, <2>4, <2>5, <2>6, <2>7, <2>8, <2>9, <2>10 DEF Types, ConnNow, SrvNow,
      CliNow, NimNow, IndKept, ProcNow, Inv
  <2>12. CallInv' BY <1>0, <2>9 DEF CallInv, Inv
  <2>13. LinkInv' BY <1>0, <2>1, <2>2, <2>3, <2>4, <2>5, <2>8, <2>9, <2>10, NothingAsked DEF LinkInv, ConnNow, NimNow,
      LinkUp, ConnectIsCurrent, ConnOk, NimOk, PlacesOk, Inv
  <2>14. PlaceInv' BY <1>0, <2>2, <2>3, <2>4, <2>5, <2>6, <2>8, <2>9, <2>10, Constants DEF PlaceInv, ConnNow, SrvNow,
      NimNow, ConnectIsCurrent, Holding, Closing, Clearing, ConnOk, IndOk, NimOk, PlacesOk, Inv
  <2>15. SubInv' BY <1>0, <2>2, <2>4, <2>5, <2>6, <2>7, <2>8, Constants, ClearedClient DEF SubInv, ConnNow, SrvNow,
      CliNow, ConnectIsCurrent, ConnOk, IndOk, ProcOk, Inv
  <2>16. IndInv' BY <1>0, <2>1, <2>2, <2>3, <2>4, <2>5, <2>6, <2>8, <2>9, <2>10, NothingAsked DEF IndInv, ConnNow,
      SrvNow, NimNow, IndKept, LinkUp, ConnectIsCurrent, ConnOk, IndOk, NimOk, PlacesOk, Inv
  <2>17. ProcA' BY <1>0, <2>2, <2>3, <2>4, <2>5, <2>7, <2>8, NothingAsked DEF ProcInv, ProcA, ConnNow, CliNow, NimNow,
      ProcNow, ConnectIsCurrent, ConnOk, ProcOk, NimOk, Inv
  <2>18. ProcB' BY <1>0, <2>1, <2>2, <2>3, <2>4, <2>5, <2>7, <2>8, <2>9, <2>10, NothingAsked DEF ProcInv, ProcB,
      ConnNow, CliNow, NimNow, ProcNow, LinkUp, ConnectIsCurrent, ConnOk, ProcOk, NimOk, PlacesOk, Inv
  <2>19. ProcC' BY <1>0, <2>1, <2>2, <2>3, <2>4, <2>5, <2>7, <2>8, <2>9, <2>10, NothingAsked DEF ProcInv, ProcC,
      ConnNow, CliNow, NimNow, ProcNow, LinkUp, ConnectIsCurrent, ConnOk, ProcOk, NimOk, PlacesOk, Inv
  <2>20. MtuInv' BY <1>0, <2>1, <2>2, <2>3, <2>4, <2>5, <2>8, <2>9, NothingAsked DEF MtuInv, ConnNow, NimNow, LinkUp,
      ConnectIsCurrent, ConnOk, NimOk, PlacesOk, Inv
  <2>21. QueuesQuiet BY <1>0, <2>6, <2>7, <2>10 DEF QueuesQuiet, GattQuiet, SrvNow, CliNow, Inv
  <2>22. ConnGrows BY <1>0, <2>2, <2>3, <2>4, <2>5, <2>8 DEF ConnGrows, ConnNow, NimNow, ConnectIsCurrent, ConnOk,
      NimOk, Inv
  <2> QED BY <2>11, <2>12, <2>13, <2>14, <2>15, <2>16, <2>17, <2>18, <2>19, <2>20, <2>21, <2>22, DataKept DEF Inv,
      ProcInv, QueuesQuiet
<1>3. CASE ConnectIsCurrent(nim.conn) /\ conn.st # "CLOSING"
  <2>1. cb.kind = "none" /\ host = "running"
    BY <1>3, <1>0 DEF Callback, NoCb, ConnectFailed, Inv
  <2>2. nim.conn # 0
    BY <1>3, <1>0 DEF ConnectFailed, Inv
  <2>3. NimNow(nim.scan, nim.adv, 0, nim.link, nim.links, nim.mtu, nim.ind, nim.proc)
    BY <1>3, <1>0, NimConn DEF Types, ConnectFailed, Inv
  <2>4. ConnNow(conn.st, conn.role, conn.gen, conn.h, conn.ref, TRUE, conn.mtu, conn.par, conn.link)
    BY <1>3, <1>0, ConnDone DEF Types, ConnStates, ConnRoles, ConnectFailed, Inv
  <2>5. ConnectIsCurrent(nim.conn) /\ conn.st # "CLOSING" BY <1>3
  <2>6. UNCHANGED <<fg, cb>>
    BY <1>3, <1>0 DEF ConnectFailed, Callback, flags, stack, Free
  <2>7. UNCHANGED <<srv, cli>>
    BY <1>3, <1>0 DEF ConnectFailed, Callback, flags, stack, Free
  <2>8. UNCHANGED <<roles, scan, adv, heard, notices, host, radio>>
    BY <1>3, <1>0 DEF ConnectFailed, Callback, flags, stack, Free
  <2>9. Types' BY <1>0, <2>1, <2>2, <2>3, <2>4, <2>5, <2>6, <2>7, <2>8 DEF Types, ConnNow, NimNow, Inv
  <2>10. CallInv' BY <1>0, <2>6 DEF CallInv, Inv
  <2>11. LinkInv' BY <1>0, <2>1, <2>2, <2>3, <2>4, <2>5, <2>6, <2>8, NothingAsked DEF LinkInv, ConnNow, NimNow,
      LinkUp, ConnectIsCurrent, ConnOk, NimOk, PlacesOk, Inv
  <2>12. PlaceInv' BY <1>0, <2>2, <2>3, <2>4, <2>5, <2>6, <2>7, <2>8 DEF PlaceInv, ConnNow, NimNow, ConnectIsCurrent,
      Holding, Closing, Clearing, ConnOk, IndOk, NimOk, PlacesOk, Inv
  <2>13. SubInv' BY <1>0, <2>2, <2>4, <2>5, <2>7 DEF SubInv, ConnNow, ConnectIsCurrent, ConnOk, IndOk, ProcOk, Inv
  <2>14. IndInv' BY <1>0, <2>1, <2>2, <2>3, <2>4, <2>5, <2>6, <2>7, <2>8, NothingAsked DEF IndInv, ConnNow, NimNow,
      LinkUp, ConnectIsCurrent, ConnOk, IndOk, NimOk, PlacesOk, Inv
  <2>15. ProcA' BY <1>0, <2>2, <2>3, <2>4, <2>5, <2>7, NothingAsked DEF ProcInv, ProcA, ConnNow, NimNow,
      ConnectIsCurrent, ConnOk, ProcOk, NimOk, Inv
  <2>16. ProcB' BY <1>0, <2>1, <2>2, <2>3, <2>4, <2>5, <2>6, <2>7, <2>8, NothingAsked DEF ProcInv, ProcB, ConnNow,
      NimNow, LinkUp, ConnectIsCurrent, ConnOk, ProcOk, NimOk, PlacesOk, Inv
  <2>17. ProcC' BY <1>0, <2>1, <2>2, <2>3, <2>4, <2>5, <2>6, <2>7, <2>8, NothingAsked DEF ProcInv, ProcC, ConnNow,
      NimNow, LinkUp, ConnectIsCurrent, ConnOk, ProcOk, NimOk, PlacesOk, Inv
  <2>18. MtuInv' BY <1>0, <2>1, <2>2, <2>3, <2>4, <2>5, <2>6, NothingAsked DEF MtuInv, ConnNow, NimNow, LinkUp,
      ConnectIsCurrent, ConnOk, NimOk, PlacesOk, Inv
  <2>19. QueuesQuiet BY <1>0, <2>7, <2>8 DEF QueuesQuiet, GattQuiet, Inv
  <2>20. ConnGrows BY <1>0, <2>2, <2>3, <2>4, <2>5 DEF ConnGrows, ConnNow, NimNow, ConnectIsCurrent, ConnOk, NimOk,
      Inv
  <2> QED BY <2>9, <2>10, <2>11, <2>12, <2>13, <2>14, <2>15, <2>16, <2>17, <2>18, <2>19, <2>20, DataKept DEF Inv,
      ProcInv, QueuesQuiet
<1> QED BY <1>0, <1>1, <1>2, <1>3 DEF ConnectFailed

LEMMA ConnectedKeeps ==
  ASSUME Inv, Connected
  PROVE  Inv' /\ QueuesQuiet
<1>0. ConnOk /\ IndOk /\ QueuesOk /\ ProcOk /\ NimOk /\ PlacesOk /\ UseOk
  BY TypesFlat DEF Inv
<1>1. CASE ~ConnectIsCurrent(nim.conn)
  <2>1. cb.kind = "none" /\ host = "running"
    BY <1>1, <1>0 DEF Callback, NoCb, Connected, Inv
  <2>2. nim.links + 1 \in Nat /\ nim.links + 1 # 0
    BY <1>1, <1>0 DEF NimOk, Inv
  <2>3. ~LinkUp /\ nim.conn # 0
    BY <1>1, <1>0, <2>2 DEF ConnectionNew, Connected, Inv
  <2>4. NimNow(nim.scan, nim.adv, 0, nim'.link, nim.links + 1, nim.mtu, nim.ind, nim.proc)
        /\ nim'.link.id = nim.links + 1 /\ nim'.link.cb = nim.conn /\ nim'.link.term = "no"
    BY <1>1, <1>0, <2>2, NimConnected DEF Types, Connected, Inv
  <2>5. (~ConnectIsCurrent(nim.conn)) BY <1>1
  <2>6. UNCHANGED <<fg, cb, conn>>
    BY <1>1, <1>0 DEF Connected, Callback, flags, stack
  <2>7. UNCHANGED <<srv, cli>>
    BY <1>1, <1>0 DEF Connected, Callback, flags, stack
  <2>8. UNCHANGED <<roles, scan, adv, heard, notices, host, radio>>
    BY <1>1, <1>0 DEF Connected, Callback, flags, stack
  <2>9. Types' BY <1>0, <2>1, <2>2, <2>3, <2>4, <2>5, <2>6, <2>7, <2>8 DEF Types, NimNow, Inv
  <2>10. CallInv' BY <1>0, <2>6 DEF CallInv, Inv
  <2>11. LinkInv' BY <1>0, <2>1, <2>2, <2>3, <2>4, <2>5, <2>6, <2>8, NothingAsked DEF LinkInv, NimNow, LinkUp,
      ConnectIsCurrent, ConnOk, NimOk, PlacesOk, Inv
  <2>12. PlaceInv' BY <1>0, <2>2, <2>3, <2>4, <2>5, <2>6, <2>7, <2>8 DEF PlaceInv, NimNow, LinkUp, ConnectIsCurrent,
      Holding, Closing, Clearing, ConnOk, IndOk, NimOk, PlacesOk, LinkInv, Inv
  <2>13. SubInv' BY <1>0, <2>3, <2>5, <2>6, <2>7 DEF SubInv, LinkUp, ConnectIsCurrent, ConnOk, IndOk, ProcOk, Inv
  <2>14. IndInv' BY <1>0, <2>1, <2>2, <2>3, <2>4, <2>5, <2>6, <2>7, <2>8, NothingAsked DEF IndInv, NimNow, LinkUp,
      ConnectIsCurrent, ConnOk, IndOk, NimOk, PlacesOk, LinkInv, PlaceInv, Holding, Closing, Clearing, Inv
  <2>15. ProcA' BY <1>0, <2>2, <2>3, <2>4, <2>5, <2>6, <2>7, NothingAsked DEF ProcInv, ProcA, NimNow, LinkUp,
      ConnectIsCurrent, ConnOk, ProcOk, NimOk, Inv
  <2>16. ProcB' BY <1>0, <2>1, <2>2, <2>3, <2>4, <2>5, <2>6, <2>7, <2>8, NothingAsked DEF ProcInv, ProcB, NimNow,
      LinkUp, ConnectIsCurrent, ConnOk, ProcOk, NimOk, PlacesOk, Inv
  <2>17. ProcC' BY <1>0, <2>1, <2>2, <2>3, <2>4, <2>5, <2>6, <2>7, <2>8, NothingAsked DEF ProcInv, ProcC, NimNow,
      LinkUp, ConnectIsCurrent, ConnOk, ProcOk, NimOk, PlacesOk, LinkInv, PlaceInv, Holding, Closing, Clearing, Inv
  <2>18. MtuInv' BY <1>0, <2>1, <2>2, <2>3, <2>4, <2>5, <2>6, NothingAsked DEF MtuInv, NimNow, LinkUp,
      ConnectIsCurrent, ConnOk, NimOk, PlacesOk, LinkInv, PlaceInv, Holding, Closing, Clearing, Inv
  <2>19. QueuesQuiet BY <1>0, <2>7, <2>8 DEF QueuesQuiet, GattQuiet, Inv
  <2>20. ConnGrows BY <1>0, <2>2, <2>3, <2>4, <2>5, <2>6 DEF ConnGrows, NimNow, LinkUp, ConnectIsCurrent, ConnOk,
      NimOk, Inv
  <2> QED BY <2>9, <2>10, <2>11, <2>12, <2>13, <2>14, <2>15, <2>16, <2>17, <2>18, <2>19, <2>20, DataKept DEF Inv,
      ProcInv, QueuesQuiet
<1>2. CASE /\ ConnectIsCurrent(nim.conn) /\ conn' = [[conn EXCEPT !.h = TRUE, !.done = TRUE,
                !.link = nim.links + 1] EXCEPT !.st = "CLOSING"]
           /\ cb' = [kind |-> "refuse", arg |-> 0]
  <2>1. cb.kind = "none" /\ host = "running"
    BY <1>2, <1>0 DEF Callback, NoCb, Connected, Inv
  <2>2. nim.links + 1 \in Nat /\ nim.links + 1 # 0
    BY <1>2, <1>0 DEF NimOk, Inv
  <2>3. ~LinkUp /\ nim.conn # 0
    BY <1>2, <1>0, <2>2 DEF ConnectionNew, Connected, Inv
  <2>4. NimNow(nim.scan, nim.adv, 0, nim'.link, nim.links + 1, nim.mtu, nim.ind, nim.proc)
        /\ nim'.link.id = nim.links + 1 /\ nim'.link.cb = nim.conn /\ nim'.link.term = "no"
    BY <1>2, <1>0, <2>2, NimConnected DEF Types, Connected, Inv
  <2>5. ConnNow("CLOSING", conn.role, conn.gen, TRUE, conn.ref, TRUE, conn.mtu, conn.par, nim.links + 1)
    BY <1>2, <1>0, <2>2, ConnUp DEF Types, ConnStates, ConnRoles, Connected, Inv
  <2>6. CbNow("refuse", 0)
    BY <1>2, <1>0, <2>2, CbIs DEF CbKinds, Connected, Inv
  <2>7. ConnectIsCurrent(nim.conn) BY <1>2
  <2>8. UNCHANGED <<fg>>
    BY <1>2, <1>0 DEF Connected, Callback, flags, stack
  <2>9. UNCHANGED <<srv, cli>>
    BY <1>2, <1>0 DEF Connected, Callback, flags, stack
  <2>10. UNCHANGED <<roles, scan, adv, heard, notices, host, radio>>
    BY <1>2, <1>0 DEF Connected, Callback, flags, stack
  <2>11. Types' BY <1>0, <2>1, <2>2, <2>3, <2>4, <2>5, <2>6, <2>7, <2>8, <2>9, <2>10 DEF Types, ConnNow, NimNow,
      CbNow, Inv
  <2>12. CallInv' BY <1>0, <2>8 DEF CallInv, Inv
  <2>13. LinkInv' BY <1>0, <2>1, <2>2, <2>3, <2>4, <2>5, <2>6, <2>7, <2>10, NothingAsked DEF LinkInv, ConnNow, NimNow,
      CbNow, LinkUp, ConnectIsCurrent, ConnOk, NimOk, PlacesOk, Inv
  <2>14. PlaceInv' BY <1>0, <2>2, <2>3, <2>4, <2>5, <2>7, <2>8, <2>9, <2>10 DEF PlaceInv, ConnNow, NimNow, LinkUp,
      ConnectIsCurrent, Holding, Closing, Clearing, ConnOk, IndOk, NimOk, PlacesOk, Inv
  <2>15. SubInv' BY <1>0, <2>3, <2>5, <2>7, <2>9 DEF SubInv, ConnNow, LinkUp, ConnectIsCurrent, ConnOk, IndOk, ProcOk,
      Inv
  <2>16. IndInv' BY <1>0, <2>1, <2>2, <2>3, <2>4, <2>5, <2>6, <2>7, <2>8, <2>9, <2>10, NothingAsked DEF IndInv,
      ConnNow, NimNow, CbNow, LinkUp, ConnectIsCurrent, ConnOk, IndOk, NimOk, PlacesOk, LinkInv, PlaceInv, Holding,
      Closing, Clearing, Inv
  <2>17. ProcA' BY <1>0, <2>2, <2>3, <2>4, <2>5, <2>7, <2>9, NothingAsked DEF ProcInv, ProcA, ConnNow, NimNow, LinkUp,
      ConnectIsCurrent, ConnOk, ProcOk, NimOk, Inv
  <2>18. ProcB' BY <1>0, <2>1, <2>2, <2>3, <2>4, <2>5, <2>6, <2>7, <2>8, <2>9, <2>10, NothingAsked DEF ProcInv, ProcB,
      ConnNow, NimNow, CbNow, LinkUp, ConnectIsCurrent, ConnOk, ProcOk, NimOk, PlacesOk, LinkInv, PlaceInv, Holding,
      Closing, Clearing, Inv
  <2>19. ProcC' BY <1>0, <2>1, <2>2, <2>3, <2>4, <2>5, <2>6, <2>7, <2>8, <2>9, <2>10, NothingAsked DEF ProcInv, ProcC,
      ConnNow, NimNow, CbNow, LinkUp, ConnectIsCurrent, ConnOk, ProcOk, NimOk, PlacesOk, LinkInv, PlaceInv, Holding,
      Closing, Clearing, Inv
  <2>20. MtuInv' BY <1>0, <2>1, <2>2, <2>3, <2>4, <2>5, <2>6, <2>7, <2>8, NothingAsked DEF MtuInv, ConnNow, NimNow,
      CbNow, LinkUp, ConnectIsCurrent, ConnOk, NimOk, PlacesOk, LinkInv, PlaceInv, Holding, Closing, Clearing, Inv
  <2>21. QueuesQuiet BY <1>0, <2>9, <2>10 DEF QueuesQuiet, GattQuiet, Inv
  <2>22. ConnGrows BY <1>0, <2>2, <2>3, <2>4, <2>5, <2>7 DEF ConnGrows, ConnNow, NimNow, LinkUp, ConnectIsCurrent,
      ConnOk, NimOk, LinkInv, PlaceInv, Holding, Closing, Clearing, Inv
  <2> QED BY <2>11, <2>12, <2>13, <2>14, <2>15, <2>16, <2>17, <2>18, <2>19, <2>20, <2>21, <2>22, DataKept DEF Inv,
      ProcInv, QueuesQuiet
<1>3. CASE /\ ConnectIsCurrent(nim.conn) /\ conn.st = "CONNECTING"
           /\ conn' = [[conn EXCEPT !.h = TRUE, !.done = TRUE,
                !.link = nim.links + 1] EXCEPT !.st = "LIVE"] /\ UNCHANGED cb
  <2>1. cb.kind = "none" /\ host = "running"
    BY <1>3, <1>0 DEF Callback, NoCb, Connected, Inv
  <2>2. nim.links + 1 \in Nat /\ nim.links + 1 # 0
    BY <1>3, <1>0 DEF NimOk, Inv
  <2>3. ~LinkUp /\ nim.conn # 0
    BY <1>3, <1>0, <2>2 DEF ConnectionNew, Connected, Inv
  <2>4. NimNow(nim.scan, nim.adv, 0, nim'.link, nim.links + 1, nim.mtu, nim.ind, nim.proc)
        /\ nim'.link.id = nim.links + 1 /\ nim'.link.cb = nim.conn /\ nim'.link.term = "no"
    BY <1>3, <1>0, <2>2, NimConnected DEF Types, Connected, Inv
  <2>5. ConnNow("LIVE", conn.role, conn.gen, TRUE, conn.ref, TRUE, conn.mtu, conn.par, nim.links + 1)
    BY <1>3, <1>0, <2>2, ConnUp DEF Types, ConnStates, ConnRoles, Connected, Inv
  <2>6. ConnectIsCurrent(nim.conn) /\ conn.st = "CONNECTING" BY <1>3
  <2>7. UNCHANGED <<fg, cb>>
    BY <1>3, <1>0 DEF Connected, Callback, flags, stack
  <2>8. UNCHANGED <<srv, cli>>
    BY <1>3, <1>0 DEF Connected, Callback, flags, stack
  <2>9. UNCHANGED <<roles, scan, adv, heard, notices, host, radio>>
    BY <1>3, <1>0 DEF Connected, Callback, flags, stack
  <2>10. Types' BY <1>0, <2>1, <2>2, <2>3, <2>4, <2>5, <2>6, <2>7, <2>8, <2>9 DEF Types, ConnNow, NimNow, Inv
  <2>11. CallInv' BY <1>0, <2>7 DEF CallInv, Inv
  <2>12. LinkInv' BY <1>0, <2>1, <2>2, <2>3, <2>4, <2>5, <2>6, <2>7, <2>9, NothingAsked DEF LinkInv, ConnNow, NimNow,
      LinkUp, ConnectIsCurrent, ConnOk, NimOk, PlacesOk, Inv
  <2>13. PlaceInv' BY <1>0, <2>2, <2>3, <2>4, <2>5, <2>6, <2>7, <2>8, <2>9 DEF PlaceInv, ConnNow, NimNow, LinkUp,
      ConnectIsCurrent, Holding, Closing, Clearing, ConnOk, IndOk, NimOk, PlacesOk, Inv
  <2>14. SubInv' BY <1>0, <2>3, <2>5, <2>6, <2>8 DEF SubInv, ConnNow, LinkUp, ConnectIsCurrent, ConnOk, IndOk, ProcOk,
      Inv
  <2>15. IndInv' BY <1>0, <2>1, <2>2, <2>3, <2>4, <2>5, <2>6, <2>7, <2>8, <2>9, NothingAsked DEF IndInv, ConnNow,
      NimNow, LinkUp, ConnectIsCurrent, ConnOk, IndOk, NimOk, PlacesOk, LinkInv, PlaceInv, Holding, Closing, Clearing,
      Inv
  <2>16. ProcA' BY <1>0, <2>2, <2>3, <2>4, <2>5, <2>6, <2>8, NothingAsked DEF ProcInv, ProcA, ConnNow, NimNow, LinkUp,
      ConnectIsCurrent, ConnOk, ProcOk, NimOk, Inv
  <2>17. ProcB' BY <1>0, <2>1, <2>2, <2>3, <2>4, <2>5, <2>6, <2>7, <2>8, <2>9, NothingAsked DEF ProcInv, ProcB,
      ConnNow, NimNow, LinkUp, ConnectIsCurrent, ConnOk, ProcOk, NimOk, PlacesOk, LinkInv, PlaceInv, Holding, Closing,
      Clearing, Inv
  <2>18. ProcC' BY <1>0, <2>1, <2>2, <2>3, <2>4, <2>5, <2>6, <2>7, <2>8, <2>9, NothingAsked DEF ProcInv, ProcC,
      ConnNow, NimNow, LinkUp, ConnectIsCurrent, ConnOk, ProcOk, NimOk, PlacesOk, LinkInv, PlaceInv, Holding, Closing,
      Clearing, Inv
  <2>19. MtuInv' BY <1>0, <2>1, <2>2, <2>3, <2>4, <2>5, <2>6, <2>7, NothingAsked DEF MtuInv, ConnNow, NimNow, LinkUp,
      ConnectIsCurrent, ConnOk, NimOk, PlacesOk, LinkInv, PlaceInv, Holding, Closing, Clearing, Inv
  <2>20. QueuesQuiet BY <1>0, <2>8, <2>9 DEF QueuesQuiet, GattQuiet, Inv
  <2>21. ConnGrows BY <1>0, <2>2, <2>3, <2>4, <2>5, <2>6 DEF ConnGrows, ConnNow, NimNow, LinkUp, ConnectIsCurrent,
      ConnOk, NimOk, LinkInv, PlaceInv, Holding, Closing, Clearing, Inv
  <2> QED BY <2>10, <2>11, <2>12, <2>13, <2>14, <2>15, <2>16, <2>17, <2>18, <2>19, <2>20, <2>21, DataKept DEF Inv,
      ProcInv, QueuesQuiet
<1> QED BY <1>0, <1>1, <1>2, <1>3 DEF Connected

LEMMA LinkLostKeeps ==
  ASSUME Inv, LinkLost
  PROVE  Inv' /\ QueuesQuiet
<1>0. ConnOk /\ IndOk /\ QueuesOk /\ ProcOk /\ NimOk /\ PlacesOk /\ UseOk
  BY TypesFlat DEF Inv
<1>1. cb.kind = "none" /\ host = "running"
  BY <1>0 DEF Callback, NoCb, LinkLost, Inv
<1>2. LinkUp
  BY <1>0 DEF LinkLost, Inv
<1>3. NimNow(nim.scan, nim.adv, nim.conn, NoLink, nim.links, FALSE, 0, NoProc)
  BY <1>0, NimLost DEF Types, LinkLost, Inv
<1>4. nim.link.cb \in Nat
  BY <1>0 DEF NimOk, Inv
<1>5. CbNow("down", nim.link.cb)
  BY <1>0, <1>4, CbIs DEF CbKinds, LinkLost, Inv
<1>6. UNCHANGED <<fg, conn>>
  BY <1>0 DEF LinkLost, Callback, flags, stack, bleVars
<1>7. UNCHANGED <<srv, cli>>
  BY <1>0 DEF LinkLost, Callback, flags, stack, bleVars
<1>8. UNCHANGED <<roles, scan, adv, heard, notices, host, radio>>
  BY <1>0 DEF LinkLost, Callback, flags, stack, bleVars
<1>9. Types' BY <1>0, <1>1, <1>2, <1>3, <1>4, <1>5, <1>6, <1>7, <1>8 DEF Types, NimNow, CbNow, Inv
<1>10. CallInv' BY <1>0, <1>6 DEF CallInv, Inv
<1>11. LinkInv' BY <1>0, <1>1, <1>2, <1>3, <1>4, <1>5, <1>6, <1>8, NothingAsked DEF LinkInv, NimNow, CbNow, LinkUp,
    ConnOk, NimOk, PlacesOk, Inv
<1>12. PlaceInv' BY <1>0, <1>2, <1>3, <1>4, <1>6, <1>7, <1>8 DEF PlaceInv, NimNow, LinkUp, Holding, Closing, Clearing,
    ConnOk, IndOk, NimOk, PlacesOk, Inv
<1>13. SubInv' BY <1>0, <1>6, <1>7 DEF SubInv, ConnOk, IndOk, ProcOk, Inv
<1>14. IndInv' BY <1>0, <1>1, <1>2, <1>3, <1>4, <1>5, <1>6, <1>7, <1>8, NothingAsked DEF IndInv, NimNow, CbNow,
    LinkUp, ConnOk, IndOk, NimOk, PlacesOk, Inv
<1>15. ProcA' BY <1>0, <1>2, <1>3, <1>4, <1>6, <1>7, NothingAsked DEF ProcInv, ProcA, NimNow, LinkUp, ConnOk, ProcOk,
    NimOk, Inv
<1>16. ProcB' BY <1>0, <1>1, <1>2, <1>3, <1>4, <1>5, <1>6, <1>7, <1>8, NothingAsked DEF ProcInv, ProcB, NimNow, CbNow,
    LinkUp, ConnOk, ProcOk, NimOk, PlacesOk, Inv
<1>17. ProcC' BY <1>0, <1>1, <1>2, <1>3, <1>4, <1>5, <1>6, <1>7, <1>8, NothingAsked DEF ProcInv, ProcC, NimNow, CbNow,
    LinkUp, ConnOk, ProcOk, NimOk, PlacesOk, Inv
<1>18. MtuInv' BY <1>0, <1>1, <1>2, <1>3, <1>4, <1>5, <1>6, NothingAsked DEF MtuInv, NimNow, CbNow, LinkUp, ConnOk,
    NimOk, PlacesOk, Inv
<1>19. QueuesQuiet BY <1>0, <1>7, <1>8 DEF QueuesQuiet, GattQuiet, Inv
<1>20. ConnGrows BY <1>0, <1>2, <1>3, <1>4, <1>6 DEF ConnGrows, NimNow, LinkUp, ConnOk, NimOk, Inv
<1> QED BY <1>9, <1>10, <1>11, <1>12, <1>13, <1>14, <1>15, <1>16, <1>17, <1>18, <1>19, <1>20, DataKept DEF Inv,
    ProcInv, QueuesQuiet

LEMMA LinkDownKeeps ==
  ASSUME Inv, LinkDown
  PROVE  Inv' /\ QueuesQuiet
<1>0. ConnOk /\ IndOk /\ QueuesOk /\ ProcOk /\ NimOk /\ PlacesOk /\ UseOk
  BY TypesFlat DEF Inv
<1>1. CASE ~Current(cb.arg) \/ conn.st = "DISCONNECTED"
  <2>1. cb.kind = "down"
    BY <1>1, <1>0 DEF LinkDown, Inv
  <2>2. CbNow("none", 0)
    BY <1>1, <1>0, CbEnds DEF CbKinds, LinkDown, Inv
  <2>3. (~Current(cb.arg) \/ conn.st = "DISCONNECTED") BY <1>1
  <2>4. UNCHANGED <<fg, nim, conn>>
    BY <1>1, <1>0 DEF LinkDown, LeaveRadio, KeepConn, flags, stack, MarkDisconnected, Free
  <2>5. UNCHANGED <<srv, cli>>
    BY <1>1, <1>0 DEF LinkDown, LeaveRadio, KeepConn, flags, stack, MarkDisconnected, Free
  <2>6. UNCHANGED <<roles, scan, adv, heard, notices, host, radio>>
    BY <1>1, <1>0 DEF LinkDown, LeaveRadio, KeepConn, flags, stack, MarkDisconnected, Free
  <2>7. Types' BY <1>0, <2>1, <2>2, <2>3, <2>4, <2>5, <2>6 DEF Types, CbNow, Inv
  <2>8. CallInv' BY <1>0, <2>4 DEF CallInv, Inv
  <2>9. LinkInv' BY <1>0, <2>1, <2>2, <2>3, <2>4, <2>6 DEF LinkInv, CbNow, LinkUp, Current, ConnOk, NimOk, PlacesOk,
      Inv
  <2>10. PlaceInv' BY <1>0, <2>3, <2>4, <2>5, <2>6 DEF PlaceInv, Current, Holding, Closing, Clearing, ConnOk, IndOk,
      NimOk, PlacesOk, Inv
  <2>11. SubInv' BY <1>0, <2>3, <2>4, <2>5 DEF SubInv, Current, ConnOk, IndOk, ProcOk, Inv
  <2>12. IndInv' BY <1>0, <2>1, <2>2, <2>3, <2>4, <2>5, <2>6 DEF IndInv, CbNow, LinkUp, Current, ConnOk, IndOk, NimOk,
      PlacesOk, Inv
  <2>13. ProcA' BY <1>0, <2>3, <2>4, <2>5 DEF ProcInv, ProcA, Current, ConnOk, ProcOk, NimOk, Inv
  <2>14. ProcB' BY <1>0, <2>1, <2>2, <2>3, <2>4, <2>5, <2>6 DEF ProcInv, ProcB, CbNow, LinkUp, Current, ConnOk,
      ProcOk, NimOk, PlacesOk, Inv
  <2>15. ProcC' BY <1>0, <2>1, <2>2, <2>3, <2>4, <2>5, <2>6 DEF ProcInv, ProcC, CbNow, LinkUp, Current, ConnOk,
      ProcOk, NimOk, PlacesOk, Inv
  <2>16. MtuInv' BY <1>0, <2>1, <2>2, <2>3, <2>4 DEF MtuInv, CbNow, LinkUp, Current, ConnOk, NimOk, PlacesOk, Inv
  <2>17. QueuesQuiet BY <1>0, <2>5, <2>6 DEF QueuesQuiet, GattQuiet, Inv
  <2>18. ConnGrows BY <1>0, <2>3, <2>4 DEF ConnGrows, Current, ConnOk, NimOk, Inv
  <2> QED BY <2>7, <2>8, <2>9, <2>10, <2>11, <2>12, <2>13, <2>14, <2>15, <2>16, <2>17, <2>18, DataKept DEF Inv,
      ProcInv, QueuesQuiet
<1>2. CASE ~(~Current(cb.arg) \/ conn.st = "DISCONNECTED") /\ conn.st = "LIVE"
  <2>1. cb.kind = "down"
    BY <1>2, <1>0 DEF LinkDown, Inv
  <2>2. CbNow("none", 0)
    BY <1>2, <1>0, CbEnds DEF CbKinds, LinkDown, Inv
  <2>3. ConnNow("DISCONNECTED", conn.role, conn.gen, FALSE, conn.ref, conn.done, FALSE, FALSE, conn.link)
    BY <1>2, <1>0, ConnDown DEF Types, ConnStates, ConnRoles, LinkDown, MarkDisconnected, Inv
  <2>4. SrvNow(NoSub, srv.q, srv.cur, srv'.ind) /\ IndKept(srv.ind.pending /\ srv.ind.gen # conn.gen)
    BY <1>2, <1>0, SrvClosed DEF Types, ConnOk, Free, MarkDisconnected, LinkDown, Inv
  <2>5. CliNow(Unknown, cli.q, cli.cur, cli'.proc)
        /\ ProcNow(cli.proc.pending /\ cli.proc.gen # conn.gen, cli.proc.abandoned, cli.proc.complete, cli.proc.stage,
             cli.proc.gen, cli.proc.id, cli.proc.mode, cli.proc.answer)
    BY <1>2, <1>0, CliClosed DEF Types, ConnOk, Free, MarkDisconnected, LinkDown, Inv
  <2>6. ~(~Current(cb.arg) \/ conn.st = "DISCONNECTED") /\ conn.st = "LIVE" BY <1>2
  <2>7. UNCHANGED <<fg, nim>>
    BY <1>2, <1>0 DEF LinkDown, LeaveRadio, KeepConn, flags, stack, MarkDisconnected, Free
  <2>8. UNCHANGED <<roles, scan, adv, heard, notices, host, radio>>
    BY <1>2, <1>0 DEF LinkDown, LeaveRadio, KeepConn, flags, stack, MarkDisconnected, Free
  <2>9. Types' BY <1>0, <2>1, <2>2, <2>3, <2>4, <2>5, <2>6, <2>7, <2>8 DEF Types, ConnNow, SrvNow, CliNow, CbNow,
      IndKept, ProcNow, Inv
  <2>10. CallInv' BY <1>0, <2>7 DEF CallInv, Inv
  <2>11. LinkInv' BY <1>0, <2>1, <2>2, <2>3, <2>6, <2>7, <2>8 DEF LinkInv, ConnNow, CbNow, LinkUp, Current, ConnOk,
      NimOk, PlacesOk, Inv
  <2>12. PlaceInv' BY <1>0, <2>3, <2>4, <2>6, <2>7, <2>8, Constants DEF PlaceInv, ConnNow, SrvNow, Current, Holding,
      Closing, Clearing, ConnOk, IndOk, NimOk, PlacesOk, Inv
  <2>13. SubInv' BY <1>0, <2>3, <2>4, <2>5, <2>6, Constants, ClearedClient DEF SubInv, ConnNow, SrvNow, CliNow,
      Current, ConnOk, IndOk, ProcOk, Inv
  <2>14. IndInv' BY <1>0, <2>1, <2>2, <2>3, <2>4, <2>6, <2>7, <2>8 DEF IndInv, ConnNow, SrvNow, CbNow, IndKept,
      LinkUp, Current, ConnOk, IndOk, NimOk, PlacesOk, Inv
  <2>15. ProcA' BY <1>0, <2>3, <2>5, <2>6, <2>7 DEF ProcInv, ProcA, ConnNow, CliNow, ProcNow, Current, ConnOk, ProcOk,
      NimOk, Inv
  <2>16. ProcB' BY <1>0, <2>1, <2>2, <2>3, <2>5, <2>6, <2>7, <2>8 DEF ProcInv, ProcB, ConnNow, CliNow, CbNow, ProcNow,
      LinkUp, Current, ConnOk, ProcOk, NimOk, PlacesOk, Inv
  <2>17. ProcC' BY <1>0, <2>1, <2>2, <2>3, <2>5, <2>6, <2>7, <2>8 DEF ProcInv, ProcC, ConnNow, CliNow, CbNow, ProcNow,
      LinkUp, Current, ConnOk, ProcOk, NimOk, PlacesOk, Inv
  <2>18. MtuInv' BY <1>0, <2>1, <2>2, <2>3, <2>6, <2>7 DEF MtuInv, ConnNow, CbNow, LinkUp, Current, ConnOk, NimOk,
      PlacesOk, Inv
  <2>19. QueuesQuiet BY <1>0, <2>4, <2>5, <2>8 DEF QueuesQuiet, GattQuiet, SrvNow, CliNow, Inv
  <2>20. ConnGrows BY <1>0, <2>3, <2>6, <2>7 DEF ConnGrows, ConnNow, Current, ConnOk, NimOk, Inv
  <2> QED BY <2>9, <2>10, <2>11, <2>12, <2>13, <2>14, <2>15, <2>16, <2>17, <2>18, <2>19, <2>20, DataKept DEF Inv,
      ProcInv, QueuesQuiet
<1>3. CASE ~(~Current(cb.arg) \/ conn.st = "DISCONNECTED") /\ conn.st # "LIVE"
  <2>1. cb.kind = "down"
    BY <1>3, <1>0 DEF LinkDown, Inv
  <2>2. CbNow("none", 0)
    BY <1>3, <1>0, CbEnds DEF CbKinds, LinkDown, Inv
  <2>3. conn.gen \in Nat
    BY <1>3, <1>0 DEF ConnOk, Inv
  <2>4. ConnNow("FREE", "none", conn.gen, FALSE, FALSE, FALSE, FALSE, FALSE, 0)
    BY <1>3, <1>0, <2>3, ConnFree DEF Types, ConnStates, ConnRoles, LinkDown, Free, Inv
  <2>5. SrvNow(NoSub, srv.q, srv.cur, srv'.ind) /\ IndKept(srv.ind.pending /\ srv.ind.gen # conn.gen)
    BY <1>3, <1>0, <2>3, SrvClosed DEF Types, ConnOk, Free, MarkDisconnected, LinkDown, Inv
  <2>6. CliNow(Unknown, cli.q, cli.cur, cli'.proc)
        /\ ProcNow(cli.proc.pending /\ cli.proc.gen # conn.gen, cli.proc.abandoned, cli.proc.complete, cli.proc.stage,
             cli.proc.gen, cli.proc.id, cli.proc.mode, cli.proc.answer)
    BY <1>3, <1>0, <2>3, CliClosed DEF Types, ConnOk, Free, MarkDisconnected, LinkDown, Inv
  <2>7. ~(~Current(cb.arg) \/ conn.st = "DISCONNECTED") /\ conn.st # "LIVE" BY <1>3
  <2>8. UNCHANGED <<fg, nim>>
    BY <1>3, <1>0 DEF LinkDown, LeaveRadio, KeepConn, flags, stack, MarkDisconnected, Free
  <2>9. UNCHANGED <<roles, scan, adv, heard, notices, host, radio>>
    BY <1>3, <1>0 DEF LinkDown, LeaveRadio, KeepConn, flags, stack, MarkDisconnected, Free
  <2>10. Types' BY <1>0, <2>1, <2>2, <2>3, <2>4, <2>5, <2>6, <2>7, <2>8, <2>9 DEF Types, ConnNow, SrvNow, CliNow,
      CbNow, IndKept, ProcNow, Inv
  <2>11. CallInv' BY <1>0, <2>8 DEF CallInv, Inv
  <2>12. LinkInv' BY <1>0, <2>1, <2>2, <2>3, <2>4, <2>7, <2>8, <2>9 DEF LinkInv, ConnNow, CbNow, LinkUp, Current,
      ConnOk, NimOk, PlacesOk, Inv
  <2>13. PlaceInv' BY <1>0, <2>3, <2>4, <2>5, <2>7, <2>8, <2>9, Constants DEF PlaceInv, ConnNow, SrvNow, Current,
      Holding, Closing, Clearing, ConnOk, IndOk, NimOk, PlacesOk, LinkInv, LinkUp, Inv
  <2>14. SubInv' BY <1>0, <2>3, <2>4, <2>5, <2>6, <2>7, Constants, ClearedClient DEF SubInv, ConnNow, SrvNow, CliNow,
      Current, ConnOk, IndOk, ProcOk, Inv
  <2>15. IndInv' BY <1>0, <2>1, <2>2, <2>3, <2>4, <2>5, <2>7, <2>8, <2>9 DEF IndInv, ConnNow, SrvNow, CbNow, IndKept,
      LinkUp, Current, ConnOk, IndOk, NimOk, PlacesOk, Inv
  <2>16. ProcA' BY <1>0, <2>3, <2>4, <2>6, <2>7, <2>8 DEF ProcInv, ProcA, ConnNow, CliNow, ProcNow, Current, ConnOk,
      ProcOk, NimOk, Inv
  <2>17. ProcB' BY <1>0, <2>1, <2>2, <2>3, <2>4, <2>6, <2>7, <2>8, <2>9 DEF ProcInv, ProcB, ConnNow, CliNow, CbNow,
      ProcNow, LinkUp, Current, ConnOk, ProcOk, NimOk, PlacesOk, Inv
  <2>18. ProcC' BY <1>0, <2>1, <2>2, <2>3, <2>4, <2>6, <2>7, <2>8, <2>9 DEF ProcInv, ProcC, ConnNow, CliNow, CbNow,
      ProcNow, LinkUp, Current, ConnOk, ProcOk, NimOk, PlacesOk, Inv
  <2>19. MtuInv' BY <1>0, <2>1, <2>2, <2>3, <2>4, <2>7, <2>8 DEF MtuInv, ConnNow, CbNow, LinkUp, Current, ConnOk,
      NimOk, PlacesOk, Inv
  <2>20. QueuesQuiet BY <1>0, <2>5, <2>6, <2>9 DEF QueuesQuiet, GattQuiet, SrvNow, CliNow, Inv
  <2>21. ConnGrows BY <1>0, <2>3, <2>4, <2>7, <2>8 DEF ConnGrows, ConnNow, Current, ConnOk, NimOk, Inv
  <2> QED BY <2>10, <2>11, <2>12, <2>13, <2>14, <2>15, <2>16, <2>17, <2>18, <2>19, <2>20, <2>21, DataKept DEF Inv,
      ProcInv, QueuesQuiet
<1> QED BY <1>0, <1>1, <1>2, <1>3 DEF LinkDown

LEMMA TerminateFailsKeeps ==
  ASSUME Inv, TerminateFails
  PROVE  Inv' /\ QueuesQuiet
<1>0. ConnOk /\ IndOk /\ QueuesOk /\ ProcOk /\ NimOk /\ PlacesOk /\ UseOk
  BY TypesFlat DEF Inv
<1>1. cb.kind = "none" /\ host = "running"
  BY <1>0 DEF Callback, NoCb, TerminateFails, Inv
<1>2. nim.link.term = "sent"
  BY <1>0 DEF TerminateFails, Inv
<1>3. NimNow(nim.scan, nim.adv, nim.conn, nim'.link, nim.links, nim.mtu, nim.ind, nim.proc)
      /\ nim'.link.id = nim.link.id /\ nim'.link.cb = nim.link.cb /\ nim'.link.term = "refused"
  BY <1>0, NimLinkTerm DEF Types, TermT, TerminateFails, Inv
<1>4. UNCHANGED <<fg, cb, conn>>
  BY <1>0 DEF TerminateFails, Callback, flags, stack, bleVars
<1>5. UNCHANGED <<srv, cli>>
  BY <1>0 DEF TerminateFails, Callback, flags, stack, bleVars
<1>6. UNCHANGED <<roles, scan, adv, heard, notices, host, radio>>
  BY <1>0 DEF TerminateFails, Callback, flags, stack, bleVars
<1>7. Types' BY <1>0, <1>1, <1>2, <1>3, <1>4, <1>5, <1>6 DEF Types, NimNow, Inv
<1>8. Aside BY <1>0, <1>1, <1>2, <1>3, <1>4, <1>5, <1>6 DEF Aside, NimKept, CbAside, HostAside, CallAside, NimNow,
    LinkUp, ConnOk, IndOk, ProcOk, NimOk, PlacesOk, Inv
<1>9. QueuesQuiet BY <1>0, <1>5, <1>6 DEF QueuesQuiet, GattQuiet, Inv
<1> QED BY <1>7, <1>8, <1>9, AsideKeeps

LEMMA AcceptKeeps ==
  ASSUME Inv, Accept
  PROVE  Inv' /\ QueuesQuiet
<1>0. ConnOk /\ IndOk /\ QueuesOk /\ ProcOk /\ NimOk /\ PlacesOk /\ UseOk
  BY TypesFlat DEF Inv
<1>1. CASE Found(notices) = <<>>
  <2>1. fg.at = "idle"
    BY <1>1, <1>0 DEF At, Calls, Accept, Inv
  <2>2. notices' \in Seq(Nat) /\ notices' = Found(notices)
    BY <1>1, <1>0, FoundIs DEF QueuesOk, Accept, Inv
  <2>3. UNCHANGED <<fg, conn, nim, cb>>
    BY <1>1, <1>0 DEF Accept, Calls, LeaveRadio, flags, stack
  <2>4. UNCHANGED <<srv, cli>>
    BY <1>1, <1>0 DEF Accept, Calls, LeaveRadio, flags, stack
  <2>5. UNCHANGED <<roles, scan, adv, heard, host, radio>>
    BY <1>1, <1>0 DEF Accept, Calls, LeaveRadio, flags, stack
  <2>6. Types' BY <1>0, <2>1, <2>2, <2>3, <2>4, <2>5 DEF Types, Inv
  <2>7. CallInv' BY <1>0, <2>1, <2>3 DEF CallInv, Inv
  <2>8. LinkInv' BY <1>0, <2>3, <2>5 DEF LinkInv, LinkUp, ConnOk, NimOk, PlacesOk, Inv
  <2>9. PlaceInv' BY <2>1, <2>3 DEF PlaceInv, Holding, Closing, Clearing, Inv
  <2>10. SubInv' BY <1>0, <2>3, <2>4 DEF SubInv, ConnOk, IndOk, ProcOk, Inv
  <2>11. IndInv' BY <1>0, <2>1, <2>3, <2>4, <2>5 DEF IndInv, LinkUp, ConnOk, IndOk, NimOk, PlacesOk, Inv
  <2>12. ProcA' BY <1>0, <2>3, <2>4 DEF ProcInv, ProcA, ConnOk, ProcOk, NimOk, Inv
  <2>13. ProcB' BY <1>0, <2>1, <2>3, <2>4, <2>5 DEF ProcInv, ProcB, LinkUp, ConnOk, ProcOk, NimOk, PlacesOk, Inv
  <2>14. ProcC' BY <1>0, <2>1, <2>3, <2>4, <2>5 DEF ProcInv, ProcC, LinkUp, ConnOk, ProcOk, NimOk, PlacesOk, Inv
  <2>15. MtuInv' BY <1>0, <2>1, <2>3 DEF MtuInv, LinkUp, ConnOk, NimOk, PlacesOk, Inv
  <2>16. QueuesQuiet BY <1>0, <2>4, <2>5 DEF QueuesQuiet, GattQuiet, Inv
  <2>17. ConnGrows BY <1>0, <2>3 DEF ConnGrows, ConnOk, NimOk, Inv
  <2> QED BY <2>6, <2>7, <2>8, <2>9, <2>10, <2>11, <2>12, <2>13, <2>14, <2>15, <2>16, <2>17, DataKept DEF Inv,
      ProcInv, QueuesQuiet
<1>2. CASE Found(notices) # <<>>
  <2>1. fg.at = "idle"
    BY <1>2, <1>0 DEF At, Calls, Accept, Inv
  <2>2. notices' \in Seq(Nat) /\ notices' = Tail(Found(notices)) /\ conn.st = "PENDING"
    BY <1>2, <1>0, FoundIs DEF QueuesOk, Accept, Inv
  <2>3. ConnNow("LIVE", conn.role, conn.gen, conn.h, TRUE, conn.done, conn.mtu, conn.par, conn.link)
    BY <1>2, <1>0, <2>2, ConnAccepted DEF Types, ConnStates, ConnRoles, Accept, Inv
  <2>4. UNCHANGED <<fg, nim, cb>>
    BY <1>2, <1>0 DEF Accept, Calls, LeaveRadio, flags, stack
  <2>5. UNCHANGED <<srv, cli>>
    BY <1>2, <1>0 DEF Accept, Calls, LeaveRadio, flags, stack
  <2>6. UNCHANGED <<roles, scan, adv, heard, host, radio>>
    BY <1>2, <1>0 DEF Accept, Calls, LeaveRadio, flags, stack
  <2>7. Types' BY <1>0, <2>1, <2>2, <2>3, <2>4, <2>5, <2>6 DEF Types, ConnNow, Inv
  <2>8. CallInv' BY <1>0, <2>1, <2>4 DEF CallInv, Inv
  <2>9. LinkInv' BY <1>0, <2>2, <2>3, <2>4, <2>6 DEF LinkInv, ConnNow, LinkUp, ConnOk, NimOk, PlacesOk, Inv
  <2>10. PlaceInv' BY <2>1, <2>4 DEF PlaceInv, Holding, Closing, Clearing, Inv
  <2>11. SubInv' BY <1>0, <2>2, <2>3, <2>5 DEF SubInv, ConnNow, ConnOk, IndOk, ProcOk, Inv
  <2>12. IndInv' BY <1>0, <2>1, <2>2, <2>3, <2>4, <2>5, <2>6 DEF IndInv, ConnNow, LinkUp, ConnOk, IndOk, NimOk,
      PlacesOk, Inv
  <2>13. ProcA' BY <1>0, <2>2, <2>3, <2>4, <2>5 DEF ProcInv, ProcA, ConnNow, ConnOk, ProcOk, NimOk, Inv
  <2>14. ProcB' BY <1>0, <2>1, <2>2, <2>3, <2>4, <2>5, <2>6 DEF ProcInv, ProcB, ConnNow, LinkUp, ConnOk, ProcOk,
      NimOk, PlacesOk, Inv
  <2>15. ProcC' BY <1>0, <2>1, <2>2, <2>3, <2>4, <2>5, <2>6 DEF ProcInv, ProcC, ConnNow, LinkUp, ConnOk, ProcOk,
      NimOk, PlacesOk, Inv
  <2>16. MtuInv' BY <1>0, <2>1, <2>2, <2>3, <2>4 DEF MtuInv, ConnNow, LinkUp, ConnOk, NimOk, PlacesOk, Inv
  <2>17. QueuesQuiet BY <1>0, <2>5, <2>6 DEF QueuesQuiet, GattQuiet, Inv
  <2>18. ConnGrows BY <1>0, <2>2, <2>3, <2>4 DEF ConnGrows, ConnNow, ConnOk, NimOk, Inv
  <2> QED BY <2>7, <2>8, <2>9, <2>10, <2>11, <2>12, <2>13, <2>14, <2>15, <2>16, <2>17, <2>18, DataKept DEF Inv,
      ProcInv, QueuesQuiet
<1> QED BY <1>0, <1>1, <1>2 DEF Accept

LEMMA RejectPendingKeeps ==
  ASSUME Inv, RejectPending
  PROVE  Inv' /\ QueuesQuiet
<1>0. ConnOk /\ IndOk /\ QueuesOk /\ ProcOk /\ NimOk /\ PlacesOk /\ UseOk
  BY TypesFlat DEF Inv
<1>1. fg.at = "idle"
  BY <1>0 DEF At, Calls, RejectPending, Inv
<1>2. notices' \in Seq(Nat) /\ notices' = Tail(Found(notices)) /\ conn.st = "PENDING"
  BY <1>0, FoundIs DEF QueuesOk, RejectPending, Inv
<1>3. conn.gen \in Nat
  BY <1>0, <1>2 DEF ConnOk, Inv
<1>4. ConnNow("CLOSING", conn.role, conn.gen, conn.h, conn.ref, conn.done, conn.mtu, conn.par, conn.link)
  BY <1>0, <1>2, <1>3, ConnSt DEF Types, ConnStates, ConnRoles, RejectPending, Inv
<1>5. FgNow("reject", "reject.call", conn.gen)
  BY <1>0, <1>2, <1>3, FgDoes DEF Ops, GattPhases, Holding, Closing, Clearing, RejectPending, Inv
<1>6. UNCHANGED <<nim, cb>>
  BY <1>0 DEF RejectPending, Calls, LeaveRadio, flags, stack
<1>7. UNCHANGED <<srv, cli>>
  BY <1>0 DEF RejectPending, Calls, LeaveRadio, flags, stack
<1>8. UNCHANGED <<roles, scan, adv, heard, host, radio>>
  BY <1>0 DEF RejectPending, Calls, LeaveRadio, flags, stack
<1>9. Types' BY <1>0, <1>1, <1>2, <1>3, <1>4, <1>5, <1>6, <1>7, <1>8 DEF Types, ConnNow, FgNow, Inv
<1>10. CallInv' BY <1>0, <1>1, <1>5 DEF CallInv, FgNow, Clearing, Inv
<1>11. LinkInv' BY <1>0, <1>2, <1>3, <1>4, <1>6, <1>8 DEF LinkInv, ConnNow, LinkUp, ConnOk, NimOk, PlacesOk, Inv
<1>12. PlaceInv' BY <1>0, <1>1, <1>2, <1>3, <1>4, <1>5, <1>6, <1>7, <1>8 DEF PlaceInv, ConnNow, FgNow, Holding,
    Closing, Clearing, ConnOk, IndOk, NimOk, PlacesOk, LinkInv, LinkUp, Inv
<1>13. SubInv' BY <1>0, <1>2, <1>3, <1>4, <1>7 DEF SubInv, ConnNow, ConnOk, IndOk, ProcOk, Inv
<1>14. IndInv' BY <1>0, <1>1, <1>2, <1>3, <1>4, <1>5, <1>6, <1>7, <1>8 DEF IndInv, ConnNow, FgNow, LinkUp, ConnOk,
    IndOk, NimOk, PlacesOk, Inv
<1>15. ProcA' BY <1>0, <1>2, <1>3, <1>4, <1>6, <1>7 DEF ProcInv, ProcA, ConnNow, ConnOk, ProcOk, NimOk, Inv
<1>16. ProcB' BY <1>0, <1>1, <1>2, <1>3, <1>4, <1>5, <1>6, <1>7, <1>8 DEF ProcInv, ProcB, ConnNow, FgNow, LinkUp,
    ConnOk, ProcOk, NimOk, PlacesOk, Inv
<1>17. ProcC' BY <1>0, <1>1, <1>2, <1>3, <1>4, <1>5, <1>6, <1>7, <1>8 DEF ProcInv, ProcC, ConnNow, FgNow, LinkUp,
    ConnOk, ProcOk, NimOk, PlacesOk, Inv
<1>18. MtuInv' BY <1>0, <1>1, <1>2, <1>3, <1>4, <1>5, <1>6 DEF MtuInv, ConnNow, FgNow, LinkUp, ConnOk, NimOk,
    PlacesOk, Inv
<1>19. QueuesQuiet BY <1>0, <1>7, <1>8 DEF QueuesQuiet, GattQuiet, Inv
<1>20. ConnGrows BY <1>0, <1>2, <1>3, <1>4, <1>6 DEF ConnGrows, ConnNow, ConnOk, NimOk, Inv
<1> QED BY <1>9, <1>10, <1>11, <1>12, <1>13, <1>14, <1>15, <1>16, <1>17, <1>18, <1>19, <1>20, DataKept DEF Inv,
    ProcInv, QueuesQuiet

LEMMA CloseKeeps ==
  ASSUME Inv, Close
  PROVE  Inv' /\ QueuesQuiet
<1>0. ConnOk /\ IndOk /\ QueuesOk /\ ProcOk /\ NimOk /\ PlacesOk /\ UseOk
  BY TypesFlat DEF Inv
<1>1. CASE conn.st = "DISCONNECTED"
  <2>1. fg.at = "idle"
    BY <1>1, <1>0 DEF At, Calls, Close, Inv
  <2>2. conn.gen \in Nat
    BY <1>1, <1>0 DEF ConnOk, Inv
  <2>3. ConnNow("FREE", "none", conn.gen, FALSE, FALSE, FALSE, FALSE, FALSE, 0)
    BY <1>1, <1>0, <2>2, ConnFree DEF Types, ConnStates, ConnRoles, Close, Free, Inv
  <2>4. SrvNow(NoSub, srv.q, srv.cur, srv'.ind) /\ IndKept(srv.ind.pending /\ srv.ind.gen # conn.gen)
    BY <1>1, <1>0, <2>2, SrvClosed DEF Types, ConnOk, Free, MarkDisconnected, Close, Inv
  <2>5. CliNow(Unknown, cli.q, cli.cur, cli'.proc)
        /\ ProcNow(cli.proc.pending /\ cli.proc.gen # conn.gen, cli.proc.abandoned, cli.proc.complete, cli.proc.stage,
             cli.proc.gen, cli.proc.id, cli.proc.mode, cli.proc.answer)
    BY <1>1, <1>0, <2>2, CliClosed DEF Types, ConnOk, Free, MarkDisconnected, Close, Inv
  <2>6. (conn.st = "DISCONNECTED") BY <1>1
  <2>7. UNCHANGED <<fg, nim, cb>>
    BY <1>1, <1>0 DEF Close, LeaveRadio, flags, stack, Free
  <2>8. UNCHANGED <<roles, scan, adv, notices, heard, host, radio>>
    BY <1>1, <1>0 DEF Close, LeaveRadio, flags, stack, Free
  <2>9. Types' BY <1>0, <2>1, <2>2, <2>3, <2>4, <2>5, <2>6, <2>7, <2>8 DEF Types, ConnNow, SrvNow, CliNow, IndKept,
      ProcNow, Inv
  <2>10. CallInv' BY <1>0, <2>1, <2>7 DEF CallInv, Inv
  <2>11. LinkInv' BY <1>0, <2>2, <2>3, <2>6, <2>7, <2>8 DEF LinkInv, ConnNow, LinkUp, ConnOk, NimOk, PlacesOk, Inv
  <2>12. PlaceInv' BY <2>1, <2>7, Constants DEF PlaceInv, Holding, Closing, Clearing, Inv
  <2>13. SubInv' BY <1>0, <2>2, <2>3, <2>4, <2>5, <2>6, Constants, ClearedClient DEF SubInv, ConnNow, SrvNow, CliNow,
      ConnOk, IndOk, ProcOk, Inv
  <2>14. IndInv' BY <1>0, <2>1, <2>2, <2>3, <2>4, <2>6, <2>7, <2>8 DEF IndInv, ConnNow, SrvNow, IndKept, LinkUp,
      ConnOk, IndOk, NimOk, PlacesOk, Inv
  <2>15. ProcA' BY <1>0, <2>2, <2>3, <2>5, <2>6, <2>7 DEF ProcInv, ProcA, ConnNow, CliNow, ProcNow, ConnOk, ProcOk,
      NimOk, Inv
  <2>16. ProcB' BY <1>0, <2>1, <2>2, <2>3, <2>5, <2>6, <2>7, <2>8 DEF ProcInv, ProcB, ConnNow, CliNow, ProcNow,
      LinkUp, ConnOk, ProcOk, NimOk, PlacesOk, Inv
  <2>17. ProcC' BY <1>0, <2>1, <2>2, <2>3, <2>5, <2>6, <2>7, <2>8 DEF ProcInv, ProcC, ConnNow, CliNow, ProcNow,
      LinkUp, ConnOk, ProcOk, NimOk, PlacesOk, Inv
  <2>18. MtuInv' BY <1>0, <2>1, <2>2, <2>3, <2>6, <2>7 DEF MtuInv, ConnNow, LinkUp, ConnOk, NimOk, PlacesOk, Inv
  <2>19. QueuesQuiet BY <1>0, <2>4, <2>5, <2>8 DEF QueuesQuiet, GattQuiet, SrvNow, CliNow, Inv
  <2>20. ConnGrows BY <1>0, <2>2, <2>3, <2>6, <2>7 DEF ConnGrows, ConnNow, ConnOk, NimOk, Inv
  <2> QED BY <2>9, <2>10, <2>11, <2>12, <2>13, <2>14, <2>15, <2>16, <2>17, <2>18, <2>19, <2>20, DataKept DEF Inv,
      ProcInv, QueuesQuiet
<1>2. CASE conn.st # "DISCONNECTED"
  <2>1. fg.at = "idle"
    BY <1>2, <1>0 DEF At, Calls, Close, Inv
  <2>2. conn.st = "LIVE" /\ conn.ref
    BY <1>2, <1>0 DEF Close, Inv
  <2>3. conn.gen \in Nat
    BY <1>2, <1>0 DEF ConnOk, Inv
  <2>4. ConnNow("CLOSING", conn.role, conn.gen, conn.h, conn.ref, conn.done, conn.mtu, conn.par, conn.link)
    BY <1>2, <1>0, <2>3, ConnSt DEF Types, ConnStates, ConnRoles, Close, Inv
  <2>5. FgNow("close", "close.call", conn.gen)
    BY <1>2, <1>0, <2>3, FgDoes DEF Ops, GattPhases, Holding, Closing, Clearing, Close, Inv
  <2>6. (conn.st # "DISCONNECTED") BY <1>2
  <2>7. UNCHANGED <<nim, cb>>
    BY <1>2, <1>0 DEF Close, LeaveRadio, flags, stack, Free
  <2>8. UNCHANGED <<srv, cli>>
    BY <1>2, <1>0 DEF Close, LeaveRadio, flags, stack, Free
  <2>9. UNCHANGED <<roles, scan, adv, notices, heard, host, radio>>
    BY <1>2, <1>0 DEF Close, LeaveRadio, flags, stack, Free
  <2>10. Types' BY <1>0, <2>1, <2>2, <2>3, <2>4, <2>5, <2>6, <2>7, <2>8, <2>9 DEF Types, ConnNow, FgNow, Inv
  <2>11. CallInv' BY <1>0, <2>1, <2>5 DEF CallInv, FgNow, Clearing, Inv
  <2>12. LinkInv' BY <1>0, <2>2, <2>3, <2>4, <2>6, <2>7, <2>9 DEF LinkInv, ConnNow, LinkUp, ConnOk, NimOk, PlacesOk,
      Inv
  <2>13. PlaceInv' BY <1>0, <2>1, <2>2, <2>3, <2>4, <2>5, <2>6, <2>7, <2>8, <2>9 DEF PlaceInv, ConnNow, FgNow,
      Holding, Closing, Clearing, ConnOk, IndOk, NimOk, PlacesOk, LinkInv, LinkUp, Inv
  <2>14. SubInv' BY <1>0, <2>2, <2>3, <2>4, <2>6, <2>8 DEF SubInv, ConnNow, ConnOk, IndOk, ProcOk, Inv
  <2>15. IndInv' BY <1>0, <2>1, <2>2, <2>3, <2>4, <2>5, <2>6, <2>7, <2>8, <2>9 DEF IndInv, ConnNow, FgNow, LinkUp,
      ConnOk, IndOk, NimOk, PlacesOk, Inv
  <2>16. ProcA' BY <1>0, <2>2, <2>3, <2>4, <2>6, <2>7, <2>8 DEF ProcInv, ProcA, ConnNow, ConnOk, ProcOk, NimOk, Inv
  <2>17. ProcB' BY <1>0, <2>1, <2>2, <2>3, <2>4, <2>5, <2>6, <2>7, <2>8, <2>9 DEF ProcInv, ProcB, ConnNow, FgNow,
      LinkUp, ConnOk, ProcOk, NimOk, PlacesOk, Inv
  <2>18. ProcC' BY <1>0, <2>1, <2>2, <2>3, <2>4, <2>5, <2>6, <2>7, <2>8, <2>9 DEF ProcInv, ProcC, ConnNow, FgNow,
      LinkUp, ConnOk, ProcOk, NimOk, PlacesOk, Inv
  <2>19. MtuInv' BY <1>0, <2>1, <2>2, <2>3, <2>4, <2>5, <2>6, <2>7 DEF MtuInv, ConnNow, FgNow, LinkUp, ConnOk, NimOk,
      PlacesOk, Inv
  <2>20. QueuesQuiet BY <1>0, <2>8, <2>9 DEF QueuesQuiet, GattQuiet, Inv
  <2>21. ConnGrows BY <1>0, <2>2, <2>3, <2>4, <2>6, <2>7 DEF ConnGrows, ConnNow, ConnOk, NimOk, Inv
  <2> QED BY <2>10, <2>11, <2>12, <2>13, <2>14, <2>15, <2>16, <2>17, <2>18, <2>19, <2>20, <2>21, DataKept DEF Inv,
      ProcInv, QueuesQuiet
<1> QED BY <1>0, <1>1, <1>2 DEF Close

LEMMA CloseCallKeeps ==
  ASSUME Inv, CloseCall
  PROVE  Inv' /\ QueuesQuiet
<1>0. ConnOk /\ IndOk /\ QueuesOk /\ ProcOk /\ NimOk /\ PlacesOk /\ UseOk
  BY TypesFlat DEF Inv
<1>1. CASE LinkUp /\ nim.link.term = "no" /\ nim' = Terminated /\ Go("closed.ok")
  <2>1. fg.at \in {"close.call", "reject.call"}
    BY <1>1, <1>0 DEF At, CloseCall, Inv
  <2>2. NimNow(nim.scan, nim.adv, nim.conn, nim'.link, nim.links, nim.mtu, nim.ind, nim.proc)
        /\ nim'.link.id = nim.link.id /\ nim'.link.cb = nim.link.cb /\ (LinkUp => nim'.link.term # "no")
    BY <1>1, <1>0, Terminates DEF CloseCall, Inv
  <2>3. FgNow(fg.op, "closed.ok", fg.gen)
    BY <1>1, <1>0, FgGoes DEF GattPhases, RadioPhases, Holding, Closing, Clearing, Types, CloseCall, Inv
  <2>4. LinkUp /\ nim.link.term = "no" BY <1>1
  <2>5. UNCHANGED <<cb, conn>>
    BY <1>1, <1>0 DEF CloseCall, LeaveRadio, flags, stack, bleVars
  <2>6. UNCHANGED <<srv, cli>>
    BY <1>1, <1>0 DEF CloseCall, LeaveRadio, flags, stack, bleVars
  <2>7. UNCHANGED <<roles, scan, adv, heard, notices, host, radio>>
    BY <1>1, <1>0 DEF CloseCall, LeaveRadio, flags, stack, bleVars
  <2>8. Types' BY <1>0, <2>1, <2>2, <2>3, <2>4, <2>5, <2>6, <2>7 DEF Types, NimNow, FgNow, Inv
  <2>9. CallInv' BY <1>0, <2>1, <2>3 DEF CallInv, FgNow, Clearing, Inv
  <2>10. LinkInv' BY <1>0, <2>2, <2>4, <2>5, <2>7, NothingAsked DEF LinkInv, NimNow, LinkUp, ConnOk, NimOk, PlacesOk,
      Inv
  <2>11. PlaceInv' BY <1>0, <2>1, <2>2, <2>3, <2>4, <2>5, <2>6, <2>7 DEF PlaceInv, NimNow, FgNow, LinkUp, Holding,
      Closing, Clearing, ConnOk, IndOk, NimOk, PlacesOk, Inv
  <2>12. SubInv' BY <1>0, <2>5, <2>6 DEF SubInv, ConnOk, IndOk, ProcOk, Inv
  <2>13. IndInv' BY <1>0, <2>1, <2>2, <2>3, <2>4, <2>5, <2>6, <2>7, NothingAsked DEF IndInv, NimNow, FgNow, LinkUp,
      ConnOk, IndOk, NimOk, PlacesOk, Inv
  <2>14. ProcA' BY <1>0, <2>2, <2>4, <2>5, <2>6, NothingAsked DEF ProcInv, ProcA, NimNow, LinkUp, ConnOk, ProcOk,
      NimOk, Inv
  <2>15. ProcB' BY <1>0, <2>1, <2>2, <2>3, <2>4, <2>5, <2>6, <2>7, NothingAsked DEF ProcInv, ProcB, NimNow, FgNow,
      LinkUp, ConnOk, ProcOk, NimOk, PlacesOk, Inv
  <2>16. ProcC' BY <1>0, <2>1, <2>2, <2>3, <2>4, <2>5, <2>6, <2>7, NothingAsked DEF ProcInv, ProcC, NimNow, FgNow,
      LinkUp, ConnOk, ProcOk, NimOk, PlacesOk, Inv
  <2>17. MtuInv' BY <1>0, <2>1, <2>2, <2>3, <2>4, <2>5, NothingAsked DEF MtuInv, NimNow, FgNow, LinkUp, ConnOk, NimOk,
      PlacesOk, Inv
  <2>18. QueuesQuiet BY <1>0, <2>6, <2>7 DEF QueuesQuiet, GattQuiet, Inv
  <2>19. ConnGrows BY <1>0, <2>2, <2>4, <2>5 DEF ConnGrows, NimNow, LinkUp, ConnOk, NimOk, Inv
  <2> QED BY <2>8, <2>9, <2>10, <2>11, <2>12, <2>13, <2>14, <2>15, <2>16, <2>17, <2>18, <2>19, DataKept DEF Inv,
      ProcInv, QueuesQuiet
<1>2. CASE LinkUp /\ nim' = TerminateRefused /\ Go("closed.refused")
  <2>1. fg.at \in {"close.call", "reject.call"}
    BY <1>2, <1>0 DEF At, CloseCall, Inv
  <2>2. NimNow(nim.scan, nim.adv, nim.conn, nim'.link, nim.links, nim.mtu, nim.ind, nim.proc)
        /\ nim'.link.id = nim.link.id /\ nim'.link.cb = nim.link.cb /\ (LinkUp => nim'.link.term # "no")
    BY <1>2, <1>0, Terminates DEF CloseCall, Inv
  <2>3. FgNow(fg.op, "closed.refused", fg.gen)
    BY <1>2, <1>0, FgGoes DEF GattPhases, RadioPhases, Holding, Closing, Clearing, Types, CloseCall, Inv
  <2>4. LinkUp BY <1>2
  <2>5. UNCHANGED <<cb, conn>>
    BY <1>2, <1>0 DEF CloseCall, LeaveRadio, flags, stack, bleVars
  <2>6. UNCHANGED <<srv, cli>>
    BY <1>2, <1>0 DEF CloseCall, LeaveRadio, flags, stack, bleVars
  <2>7. UNCHANGED <<roles, scan, adv, heard, notices, host, radio>>
    BY <1>2, <1>0 DEF CloseCall, LeaveRadio, flags, stack, bleVars
  <2>8. Types' BY <1>0, <2>1, <2>2, <2>3, <2>4, <2>5, <2>6, <2>7 DEF Types, NimNow, FgNow, Inv
  <2>9. CallInv' BY <1>0, <2>1, <2>3 DEF CallInv, FgNow, Clearing, Inv
  <2>10. LinkInv' BY <1>0, <2>2, <2>4, <2>5, <2>7, NothingAsked DEF LinkInv, NimNow, LinkUp, ConnOk, NimOk, PlacesOk,
      Inv
  <2>11. PlaceInv' BY <1>0, <2>1, <2>2, <2>3, <2>4, <2>5, <2>6, <2>7 DEF PlaceInv, NimNow, FgNow, LinkUp, Holding,
      Closing, Clearing, ConnOk, IndOk, NimOk, PlacesOk, Inv
  <2>12. SubInv' BY <1>0, <2>5, <2>6 DEF SubInv, ConnOk, IndOk, ProcOk, Inv
  <2>13. IndInv' BY <1>0, <2>1, <2>2, <2>3, <2>4, <2>5, <2>6, <2>7, NothingAsked DEF IndInv, NimNow, FgNow, LinkUp,
      ConnOk, IndOk, NimOk, PlacesOk, Inv
  <2>14. ProcA' BY <1>0, <2>2, <2>4, <2>5, <2>6, NothingAsked DEF ProcInv, ProcA, NimNow, LinkUp, ConnOk, ProcOk,
      NimOk, Inv
  <2>15. ProcB' BY <1>0, <2>1, <2>2, <2>3, <2>4, <2>5, <2>6, <2>7, NothingAsked DEF ProcInv, ProcB, NimNow, FgNow,
      LinkUp, ConnOk, ProcOk, NimOk, PlacesOk, Inv
  <2>16. ProcC' BY <1>0, <2>1, <2>2, <2>3, <2>4, <2>5, <2>6, <2>7, NothingAsked DEF ProcInv, ProcC, NimNow, FgNow,
      LinkUp, ConnOk, ProcOk, NimOk, PlacesOk, Inv
  <2>17. MtuInv' BY <1>0, <2>1, <2>2, <2>3, <2>4, <2>5, NothingAsked DEF MtuInv, NimNow, FgNow, LinkUp, ConnOk, NimOk,
      PlacesOk, Inv
  <2>18. QueuesQuiet BY <1>0, <2>6, <2>7 DEF QueuesQuiet, GattQuiet, Inv
  <2>19. ConnGrows BY <1>0, <2>2, <2>4, <2>5 DEF ConnGrows, NimNow, LinkUp, ConnOk, NimOk, Inv
  <2> QED BY <2>8, <2>9, <2>10, <2>11, <2>12, <2>13, <2>14, <2>15, <2>16, <2>17, <2>18, <2>19, DataKept DEF Inv,
      ProcInv, QueuesQuiet
<1>3. CASE ~LinkUp /\ Go("closed.gone") /\ UNCHANGED nim
  <2>1. fg.at \in {"close.call", "reject.call"}
    BY <1>3, <1>0 DEF At, CloseCall, Inv
  <2>2. FgNow(fg.op, "closed.gone", fg.gen)
    BY <1>3, <1>0, FgGoes DEF GattPhases, RadioPhases, Holding, Closing, Clearing, Types, CloseCall, Inv
  <2>3. ~LinkUp BY <1>3
  <2>4. UNCHANGED <<cb, nim, conn>>
    BY <1>3, <1>0 DEF CloseCall, LeaveRadio, flags, stack, bleVars
  <2>5. UNCHANGED <<srv, cli>>
    BY <1>3, <1>0 DEF CloseCall, LeaveRadio, flags, stack, bleVars
  <2>6. UNCHANGED <<roles, scan, adv, heard, notices, host, radio>>
    BY <1>3, <1>0 DEF CloseCall, LeaveRadio, flags, stack, bleVars
  <2>7. Types' BY <1>0, <2>1, <2>2, <2>3, <2>4, <2>5, <2>6 DEF Types, FgNow, Inv
  <2>8. CallInv' BY <1>0, <2>1, <2>2 DEF CallInv, FgNow, Clearing, Inv
  <2>9. LinkInv' BY <1>0, <2>3, <2>4, <2>6 DEF LinkInv, LinkUp, ConnOk, NimOk, PlacesOk, Inv
  <2>10. PlaceInv' BY <1>0, <2>1, <2>2, <2>3, <2>4, <2>5, <2>6 DEF PlaceInv, FgNow, LinkUp, Holding, Closing,
      Clearing, ConnOk, IndOk, NimOk, PlacesOk, Inv
  <2>11. SubInv' BY <1>0, <2>4, <2>5 DEF SubInv, ConnOk, IndOk, ProcOk, Inv
  <2>12. IndInv' BY <1>0, <2>1, <2>2, <2>3, <2>4, <2>5, <2>6 DEF IndInv, FgNow, LinkUp, ConnOk, IndOk, NimOk,
      PlacesOk, Inv
  <2>13. ProcA' BY <1>0, <2>3, <2>4, <2>5 DEF ProcInv, ProcA, LinkUp, ConnOk, ProcOk, NimOk, Inv
  <2>14. ProcB' BY <1>0, <2>1, <2>2, <2>3, <2>4, <2>5, <2>6 DEF ProcInv, ProcB, FgNow, LinkUp, ConnOk, ProcOk, NimOk,
      PlacesOk, Inv
  <2>15. ProcC' BY <1>0, <2>1, <2>2, <2>3, <2>4, <2>5, <2>6 DEF ProcInv, ProcC, FgNow, LinkUp, ConnOk, ProcOk, NimOk,
      PlacesOk, Inv
  <2>16. MtuInv' BY <1>0, <2>1, <2>2, <2>3, <2>4 DEF MtuInv, FgNow, LinkUp, ConnOk, NimOk, PlacesOk, Inv
  <2>17. QueuesQuiet BY <1>0, <2>5, <2>6 DEF QueuesQuiet, GattQuiet, Inv
  <2>18. ConnGrows BY <1>0, <2>3, <2>4 DEF ConnGrows, LinkUp, ConnOk, NimOk, Inv
  <2> QED BY <2>7, <2>8, <2>9, <2>10, <2>11, <2>12, <2>13, <2>14, <2>15, <2>16, <2>17, <2>18, DataKept DEF Inv,
      ProcInv, QueuesQuiet
<1> QED BY <1>0, <1>1, <1>2, <1>3 DEF CloseCall

LEMMA CloseDoneKeeps ==
  ASSUME Inv, CloseDone
  PROVE  Inv' /\ QueuesQuiet
<1>0. ConnOk /\ IndOk /\ QueuesOk /\ ProcOk /\ NimOk /\ PlacesOk /\ UseOk
  BY TypesFlat DEF Inv
<1>1. CASE (fg.gen # conn.gen \/ conn.st # "CLOSING")
  <2>1. fg.at \in {"closed.ok", "closed.refused", "closed.gone"}
    BY <1>1, <1>0 DEF At, CloseDone, Inv
  <2>2. FgNow("none", "idle", 0)
    BY <1>1, <1>0, FgAnswers DEF CloseDone, Inv
  <2>3. ((fg.gen # conn.gen \/ conn.st # "CLOSING")) BY <1>1
  <2>4. UNCHANGED <<nim, cb, conn>>
    BY <1>1, <1>0 DEF CloseDone, LeaveRadio, flags, stack, Free
  <2>5. UNCHANGED <<srv, cli>>
    BY <1>1, <1>0 DEF CloseDone, LeaveRadio, flags, stack, Free
  <2>6. UNCHANGED <<roles, scan, adv, heard, notices, host, radio>>
    BY <1>1, <1>0 DEF CloseDone, LeaveRadio, flags, stack, Free
  <2>7. Types' BY <1>0, <2>1, <2>2, <2>3, <2>4, <2>5, <2>6 DEF Types, FgNow, Inv
  <2>8. CallInv' BY <1>0, <2>1, <2>2, <2>3 DEF CallInv, FgNow, Clearing, Inv
  <2>9. LinkInv' BY <1>0, <2>3, <2>4, <2>6 DEF LinkInv, LinkUp, ConnOk, NimOk, PlacesOk, Inv
  <2>10. PlaceInv' BY <1>0, <2>1, <2>2, <2>3, <2>4, <2>5, <2>6 DEF PlaceInv, FgNow, Holding, Closing, Clearing,
      ConnOk, IndOk, NimOk, PlacesOk, Inv
  <2>11. SubInv' BY <1>0, <2>3, <2>4, <2>5 DEF SubInv, ConnOk, IndOk, ProcOk, Inv
  <2>12. IndInv' BY <1>0, <2>1, <2>2, <2>3, <2>4, <2>5, <2>6 DEF IndInv, FgNow, LinkUp, ConnOk, IndOk, NimOk,
      PlacesOk, Inv
  <2>13. ProcA' BY <1>0, <2>3, <2>4, <2>5 DEF ProcInv, ProcA, ConnOk, ProcOk, NimOk, Inv
  <2>14. ProcB' BY <1>0, <2>1, <2>2, <2>3, <2>4, <2>5, <2>6 DEF ProcInv, ProcB, FgNow, LinkUp, ConnOk, ProcOk, NimOk,
      PlacesOk, Inv
  <2>15. ProcC' BY <1>0, <2>1, <2>2, <2>3, <2>4, <2>5, <2>6 DEF ProcInv, ProcC, FgNow, LinkUp, ConnOk, ProcOk, NimOk,
      PlacesOk, Inv
  <2>16. MtuInv' BY <1>0, <2>1, <2>2, <2>3, <2>4 DEF MtuInv, FgNow, LinkUp, ConnOk, NimOk, PlacesOk, Inv
  <2>17. QueuesQuiet BY <1>0, <2>5, <2>6 DEF QueuesQuiet, GattQuiet, Inv
  <2>18. ConnGrows BY <1>0, <2>3, <2>4 DEF ConnGrows, ConnOk, NimOk, Inv
  <2> QED BY <2>7, <2>8, <2>9, <2>10, <2>11, <2>12, <2>13, <2>14, <2>15, <2>16, <2>17, <2>18, DataKept DEF Inv,
      ProcInv, QueuesQuiet
<1>2. CASE ~(fg.gen # conn.gen \/ conn.st # "CLOSING") /\ At("closed.gone") /\ Free
  <2>1. fg.at \in {"closed.ok", "closed.refused", "closed.gone"}
    BY <1>2, <1>0 DEF At, CloseDone, Inv
  <2>2. fg.at = "closed.gone"
    BY <1>2, <1>0 DEF At, Inv
  <2>3. conn.gen \in Nat
    BY <1>2, <1>0 DEF ConnOk, Inv
  <2>4. ConnNow("FREE", "none", conn.gen, FALSE, FALSE, FALSE, FALSE, FALSE, 0)
    BY <1>2, <1>0, <2>3, ConnFree DEF Types, ConnStates, ConnRoles, CloseDone, Free, Inv
  <2>5. SrvNow(NoSub, srv.q, srv.cur, srv'.ind) /\ IndKept(srv.ind.pending /\ srv.ind.gen # conn.gen)
    BY <1>2, <1>0, <2>3, SrvClosed DEF Types, ConnOk, Free, MarkDisconnected, CloseDone, Inv
  <2>6. CliNow(Unknown, cli.q, cli.cur, cli'.proc)
        /\ ProcNow(cli.proc.pending /\ cli.proc.gen # conn.gen, cli.proc.abandoned, cli.proc.complete, cli.proc.stage,
             cli.proc.gen, cli.proc.id, cli.proc.mode, cli.proc.answer)
    BY <1>2, <1>0, <2>3, CliClosed DEF Types, ConnOk, Free, MarkDisconnected, CloseDone, Inv
  <2>7. FgNow("none", "idle", 0)
    BY <1>2, <1>0, <2>3, FgAnswers DEF CloseDone, Inv
  <2>8. ~(fg.gen # conn.gen \/ conn.st # "CLOSING") /\ At("closed.gone") BY <1>2
  <2>9. UNCHANGED <<nim, cb>>
    BY <1>2, <1>0 DEF CloseDone, LeaveRadio, flags, stack, Free
  <2>10. UNCHANGED <<roles, scan, adv, notices, heard, host, radio>>
    BY <1>2, <1>0 DEF CloseDone, LeaveRadio, flags, stack, Free
  <2>11. Types' BY <1>0, <2>1, <2>2, <2>3, <2>4, <2>5, <2>6, <2>7, <2>8, <2>9, <2>10 DEF Types, ConnNow, SrvNow,
      CliNow, FgNow, IndKept, ProcNow, Inv
  <2>12. CallInv' BY <1>0, <2>1, <2>2, <2>7, <2>8 DEF CallInv, FgNow, At, Clearing, Inv
  <2>13. LinkInv' BY <1>0, <2>3, <2>4, <2>8, <2>9, <2>10 DEF LinkInv, ConnNow, LinkUp, At, ConnOk, NimOk, PlacesOk,
      Inv
  <2>14. PlaceInv' BY <1>0, <2>1, <2>2, <2>3, <2>4, <2>5, <2>7, <2>8, <2>9, <2>10, Constants DEF PlaceInv, ConnNow,
      SrvNow, FgNow, At, Holding, Closing, Clearing, ConnOk, IndOk, NimOk, PlacesOk, Inv
  <2>15. SubInv' BY <1>0, <2>3, <2>4, <2>5, <2>6, <2>8, Constants, ClearedClient DEF SubInv, ConnNow, SrvNow, CliNow,
      At, ConnOk, IndOk, ProcOk, Inv
  <2>16. IndInv' BY <1>0, <2>1, <2>2, <2>3, <2>4, <2>5, <2>7, <2>8, <2>9, <2>10 DEF IndInv, ConnNow, SrvNow, FgNow,
      IndKept, LinkUp, At, ConnOk, IndOk, NimOk, PlacesOk, Inv
  <2>17. ProcA' BY <1>0, <2>3, <2>4, <2>6, <2>8, <2>9 DEF ProcInv, ProcA, ConnNow, CliNow, ProcNow, At, ConnOk,
      ProcOk, NimOk, Inv
  <2>18. ProcB' BY <1>0, <2>1, <2>2, <2>3, <2>4, <2>6, <2>7, <2>8, <2>9, <2>10 DEF ProcInv, ProcB, ConnNow, CliNow,
      FgNow, ProcNow, LinkUp, At, ConnOk, ProcOk, NimOk, PlacesOk, Inv
  <2>19. ProcC' BY <1>0, <2>1, <2>2, <2>3, <2>4, <2>6, <2>7, <2>8, <2>9, <2>10 DEF ProcInv, ProcC, ConnNow, CliNow,
      FgNow, ProcNow, LinkUp, At, ConnOk, ProcOk, NimOk, PlacesOk, Inv
  <2>20. MtuInv' BY <1>0, <2>1, <2>2, <2>3, <2>4, <2>7, <2>8, <2>9 DEF MtuInv, ConnNow, FgNow, LinkUp, At, ConnOk,
      NimOk, PlacesOk, Inv
  <2>21. QueuesQuiet BY <1>0, <2>5, <2>6, <2>10 DEF QueuesQuiet, GattQuiet, SrvNow, CliNow, Inv
  <2>22. ConnGrows BY <1>0, <2>3, <2>4, <2>8, <2>9 DEF ConnGrows, ConnNow, At, ConnOk, NimOk, Inv
  <2> QED BY <2>11, <2>12, <2>13, <2>14, <2>15, <2>16, <2>17, <2>18, <2>19, <2>20, <2>21, <2>22, DataKept DEF Inv,
      ProcInv, QueuesQuiet
<1>3. CASE /\ ~(fg.gen # conn.gen \/ conn.st # "CLOSING") /\ fg.op = "close" /\ At("closed.refused")
           /\ conn' = [conn EXCEPT !.st = "LIVE"] /\ UNCHANGED <<srv, cli>>
  <2>1. fg.at \in {"closed.ok", "closed.refused", "closed.gone"}
    BY <1>3, <1>0 DEF At, CloseDone, Inv
  <2>2. fg.at = "closed.refused"
    BY <1>3, <1>0 DEF At, Inv
  <2>3. ConnNow("LIVE", conn.role, conn.gen, conn.h, conn.ref, conn.done, conn.mtu, conn.par, conn.link)
    BY <1>3, <1>0, ConnSt DEF Types, ConnStates, ConnRoles, CloseDone, Inv
  <2>4. FgNow("none", "idle", 0)
    BY <1>3, <1>0, FgAnswers DEF CloseDone, Inv
  <2>5. ~(fg.gen # conn.gen \/ conn.st # "CLOSING") /\ fg.op = "close" /\ At("closed.refused") BY <1>3
  <2>6. UNCHANGED <<nim, cb>>
    BY <1>3, <1>0 DEF CloseDone, LeaveRadio, flags, stack, Free
  <2>7. UNCHANGED <<srv, cli>>
    BY <1>3, <1>0 DEF CloseDone, LeaveRadio, flags, stack, Free
  <2>8. UNCHANGED <<roles, scan, adv, notices, heard, host, radio>>
    BY <1>3, <1>0 DEF CloseDone, LeaveRadio, flags, stack, Free
  <2>9. Types' BY <1>0, <2>1, <2>2, <2>3, <2>4, <2>5, <2>6, <2>7, <2>8 DEF Types, ConnNow, FgNow, Inv
  <2>10. CallInv' BY <1>0, <2>1, <2>2, <2>4, <2>5 DEF CallInv, FgNow, At, Clearing, Inv
  <2>11. LinkInv' BY <1>0, <2>3, <2>5, <2>6, <2>8 DEF LinkInv, ConnNow, LinkUp, At, ConnOk, NimOk, PlacesOk, PlaceInv,
      Holding, Closing, Clearing, Inv
  <2>12. PlaceInv' BY <1>0, <2>1, <2>2, <2>3, <2>4, <2>5, <2>6, <2>7, <2>8 DEF PlaceInv, ConnNow, FgNow, At, Holding,
      Closing, Clearing, ConnOk, IndOk, NimOk, PlacesOk, Inv
  <2>13. SubInv' BY <1>0, <2>3, <2>5, <2>7 DEF SubInv, ConnNow, At, ConnOk, IndOk, ProcOk, Inv
  <2>14. IndInv' BY <1>0, <2>1, <2>2, <2>3, <2>4, <2>5, <2>6, <2>7, <2>8 DEF IndInv, ConnNow, FgNow, LinkUp, At,
      ConnOk, IndOk, NimOk, PlacesOk, Inv
  <2>15. ProcA' BY <1>0, <2>3, <2>5, <2>6, <2>7 DEF ProcInv, ProcA, ConnNow, At, ConnOk, ProcOk, NimOk, Inv
  <2>16. ProcB' BY <1>0, <2>1, <2>2, <2>3, <2>4, <2>5, <2>6, <2>7, <2>8 DEF ProcInv, ProcB, ConnNow, FgNow, LinkUp,
      At, ConnOk, ProcOk, NimOk, PlacesOk, Inv
  <2>17. ProcC' BY <1>0, <2>1, <2>2, <2>3, <2>4, <2>5, <2>6, <2>7, <2>8 DEF ProcInv, ProcC, ConnNow, FgNow, LinkUp,
      At, ConnOk, ProcOk, NimOk, PlacesOk, Inv
  <2>18. MtuInv' BY <1>0, <2>1, <2>2, <2>3, <2>4, <2>5, <2>6 DEF MtuInv, ConnNow, FgNow, LinkUp, At, ConnOk, NimOk,
      PlacesOk, Inv
  <2>19. QueuesQuiet BY <1>0, <2>7, <2>8 DEF QueuesQuiet, GattQuiet, Inv
  <2>20. ConnGrows BY <1>0, <2>3, <2>5, <2>6 DEF ConnGrows, ConnNow, At, ConnOk, NimOk, Inv
  <2> QED BY <2>9, <2>10, <2>11, <2>12, <2>13, <2>14, <2>15, <2>16, <2>17, <2>18, <2>19, <2>20, DataKept DEF Inv,
      ProcInv, QueuesQuiet
<1>4. CASE /\ ~(fg.gen # conn.gen \/ conn.st # "CLOSING") /\ fg.op = "close" /\ At("closed.ok")
           /\ conn' = [conn EXCEPT !.ref = FALSE] /\ UNCHANGED <<srv, cli>>
  <2>1. fg.at \in {"closed.ok", "closed.refused", "closed.gone"}
    BY <1>4, <1>0 DEF At, CloseDone, Inv
  <2>2. fg.at = "closed.ok"
    BY <1>4, <1>0 DEF At, Inv
  <2>3. ConnNow(conn.st, conn.role, conn.gen, conn.h, FALSE, conn.done, conn.mtu, conn.par, conn.link)
    BY <1>4, <1>0, ConnUnref DEF Types, ConnStates, ConnRoles, CloseDone, Inv
  <2>4. FgNow("none", "idle", 0)
    BY <1>4, <1>0, FgAnswers DEF CloseDone, Inv
  <2>5. ~(fg.gen # conn.gen \/ conn.st # "CLOSING") /\ fg.op = "close" /\ At("closed.ok") BY <1>4
  <2>6. UNCHANGED <<nim, cb>>
    BY <1>4, <1>0 DEF CloseDone, LeaveRadio, flags, stack, Free
  <2>7. UNCHANGED <<srv, cli>>
    BY <1>4, <1>0 DEF CloseDone, LeaveRadio, flags, stack, Free
  <2>8. UNCHANGED <<roles, scan, adv, notices, heard, host, radio>>
    BY <1>4, <1>0 DEF CloseDone, LeaveRadio, flags, stack, Free
  <2>9. Types' BY <1>0, <2>1, <2>2, <2>3, <2>4, <2>5, <2>6, <2>7, <2>8 DEF Types, ConnNow, FgNow, Inv
  <2>10. CallInv' BY <1>0, <2>1, <2>2, <2>4, <2>5 DEF CallInv, FgNow, At, Clearing, Inv
  <2>11. LinkInv' BY <1>0, <2>3, <2>5, <2>6, <2>8 DEF LinkInv, ConnNow, LinkUp, At, ConnOk, NimOk, PlacesOk, Inv
  <2>12. PlaceInv' BY <1>0, <2>1, <2>2, <2>3, <2>4, <2>5, <2>6, <2>7, <2>8 DEF PlaceInv, ConnNow, FgNow, At, Holding,
      Closing, Clearing, ConnOk, IndOk, NimOk, PlacesOk, Inv
  <2>13. SubInv' BY <1>0, <2>3, <2>5, <2>7 DEF SubInv, ConnNow, At, ConnOk, IndOk, ProcOk, Inv
  <2>14. IndInv' BY <1>0, <2>1, <2>2, <2>3, <2>4, <2>5, <2>6, <2>7, <2>8 DEF IndInv, ConnNow, FgNow, LinkUp, At,
      ConnOk, IndOk, NimOk, PlacesOk, Inv
  <2>15. ProcA' BY <1>0, <2>3, <2>5, <2>6, <2>7 DEF ProcInv, ProcA, ConnNow, At, ConnOk, ProcOk, NimOk, Inv
  <2>16. ProcB' BY <1>0, <2>1, <2>2, <2>3, <2>4, <2>5, <2>6, <2>7, <2>8 DEF ProcInv, ProcB, ConnNow, FgNow, LinkUp,
      At, ConnOk, ProcOk, NimOk, PlacesOk, Inv
  <2>17. ProcC' BY <1>0, <2>1, <2>2, <2>3, <2>4, <2>5, <2>6, <2>7, <2>8 DEF ProcInv, ProcC, ConnNow, FgNow, LinkUp,
      At, ConnOk, ProcOk, NimOk, PlacesOk, Inv
  <2>18. MtuInv' BY <1>0, <2>1, <2>2, <2>3, <2>4, <2>5, <2>6 DEF MtuInv, ConnNow, FgNow, LinkUp, At, ConnOk, NimOk,
      PlacesOk, Inv
  <2>19. QueuesQuiet BY <1>0, <2>7, <2>8 DEF QueuesQuiet, GattQuiet, Inv
  <2>20. ConnGrows BY <1>0, <2>3, <2>5, <2>6 DEF ConnGrows, ConnNow, At, ConnOk, NimOk, Inv
  <2> QED BY <2>9, <2>10, <2>11, <2>12, <2>13, <2>14, <2>15, <2>16, <2>17, <2>18, <2>19, <2>20, DataKept DEF Inv,
      ProcInv, QueuesQuiet
<1>5. CASE /\ ~(fg.gen # conn.gen \/ conn.st # "CLOSING") /\ fg.op = "reject" /\ ~At("closed.gone") /\ UNCHANGED <<conn,
                srv, cli>>
  <2>1. fg.at \in {"closed.ok", "closed.refused", "closed.gone"}
    BY <1>5, <1>0 DEF At, CloseDone, Inv
  <2>2. fg.at # "closed.gone"
    BY <1>5, <1>0 DEF At, Inv
  <2>3. FgNow("none", "idle", 0)
    BY <1>5, <1>0, FgAnswers DEF CloseDone, Inv
  <2>4. ~(fg.gen # conn.gen \/ conn.st # "CLOSING") /\ fg.op = "reject" /\ ~At("closed.gone") BY <1>5
  <2>5. UNCHANGED <<nim, cb, conn>>
    BY <1>5, <1>0 DEF CloseDone, LeaveRadio, flags, stack, Free
  <2>6. UNCHANGED <<srv, cli>>
    BY <1>5, <1>0 DEF CloseDone, LeaveRadio, flags, stack, Free
  <2>7. UNCHANGED <<roles, scan, adv, heard, notices, host, radio>>
    BY <1>5, <1>0 DEF CloseDone, LeaveRadio, flags, stack, Free
  <2>8. Types' BY <1>0, <2>1, <2>2, <2>3, <2>4, <2>5, <2>6, <2>7 DEF Types, FgNow, Inv
  <2>9. CallInv' BY <1>0, <2>1, <2>2, <2>3, <2>4 DEF CallInv, FgNow, At, Clearing, Inv
  <2>10. LinkInv' BY <1>0, <2>4, <2>5, <2>7 DEF LinkInv, LinkUp, At, ConnOk, NimOk, PlacesOk, Inv
  <2>11. PlaceInv' BY <1>0, <2>1, <2>2, <2>3, <2>4, <2>5, <2>6, <2>7 DEF PlaceInv, FgNow, At, Holding, Closing,
      Clearing, ConnOk, IndOk, NimOk, PlacesOk, Inv
  <2>12. SubInv' BY <1>0, <2>4, <2>5, <2>6 DEF SubInv, At, ConnOk, IndOk, ProcOk, Inv
  <2>13. IndInv' BY <1>0, <2>1, <2>2, <2>3, <2>4, <2>5, <2>6, <2>7 DEF IndInv, FgNow, LinkUp, At, ConnOk, IndOk,
      NimOk, PlacesOk, Inv
  <2>14. ProcA' BY <1>0, <2>4, <2>5, <2>6 DEF ProcInv, ProcA, At, ConnOk, ProcOk, NimOk, Inv
  <2>15. ProcB' BY <1>0, <2>1, <2>2, <2>3, <2>4, <2>5, <2>6, <2>7 DEF ProcInv, ProcB, FgNow, LinkUp, At, ConnOk,
      ProcOk, NimOk, PlacesOk, Inv
  <2>16. ProcC' BY <1>0, <2>1, <2>2, <2>3, <2>4, <2>5, <2>6, <2>7 DEF ProcInv, ProcC, FgNow, LinkUp, At, ConnOk,
      ProcOk, NimOk, PlacesOk, Inv
  <2>17. MtuInv' BY <1>0, <2>1, <2>2, <2>3, <2>4, <2>5 DEF MtuInv, FgNow, LinkUp, At, ConnOk, NimOk, PlacesOk, Inv
  <2>18. QueuesQuiet BY <1>0, <2>6, <2>7 DEF QueuesQuiet, GattQuiet, Inv
  <2>19. ConnGrows BY <1>0, <2>4, <2>5 DEF ConnGrows, At, ConnOk, NimOk, Inv
  <2> QED BY <2>8, <2>9, <2>10, <2>11, <2>12, <2>13, <2>14, <2>15, <2>16, <2>17, <2>18, <2>19, DataKept DEF Inv,
      ProcInv, QueuesQuiet
<1> QED BY <1>0, <1>1, <1>2, <1>3, <1>4, <1>5 DEF CloseDone

LEMMA ParamsKeeps ==
  ASSUME Inv, Params
  PROVE  Inv' /\ QueuesQuiet
<1>0. ConnOk /\ IndOk /\ QueuesOk /\ ProcOk /\ NimOk /\ PlacesOk /\ UseOk
  BY TypesFlat DEF Inv
<1>1. fg.at = "idle"
  BY <1>0 DEF At, Calls, Params, Inv
<1>2. conn.st = "LIVE"
  BY <1>0 DEF Params, Inv
<1>3. conn.gen \in Nat
  BY <1>0 DEF ConnOk, Inv
<1>4. ConnNow(conn.st, conn.role, conn.gen, conn.h, conn.ref, conn.done, conn.mtu, TRUE, conn.link)
  BY <1>0, <1>3, ConnPar DEF Types, ConnStates, ConnRoles, Params, Inv
<1>5. FgNow("params", "params.call", conn.gen)
  BY <1>0, <1>3, FgDoes DEF Ops, GattPhases, Holding, Closing, Clearing, Params, Inv
<1>6. UNCHANGED <<nim, cb>>
  BY <1>0 DEF Params, LeaveRadio, flags, stack
<1>7. UNCHANGED <<srv, cli>>
  BY <1>0 DEF Params, LeaveRadio, flags, stack
<1>8. UNCHANGED <<roles, scan, adv, notices, heard, host, radio>>
  BY <1>0 DEF Params, LeaveRadio, flags, stack
<1>9. Types' BY <1>0, <1>1, <1>2, <1>3, <1>4, <1>5, <1>6, <1>7, <1>8 DEF Types, ConnNow, FgNow, Inv
<1>10. CallInv' BY <1>0, <1>1, <1>5 DEF CallInv, FgNow, Clearing, Inv
<1>11. LinkInv' BY <1>0, <1>2, <1>3, <1>4, <1>6, <1>8 DEF LinkInv, ConnNow, LinkUp, ConnOk, NimOk, PlacesOk, Inv
<1>12. PlaceInv' BY <1>0, <1>1, <1>2, <1>3, <1>4, <1>5, <1>6, <1>7, <1>8 DEF PlaceInv, ConnNow, FgNow, Holding,
    Closing, Clearing, ConnOk, IndOk, NimOk, PlacesOk, Inv
<1>13. SubInv' BY <1>0, <1>2, <1>3, <1>4, <1>7 DEF SubInv, ConnNow, ConnOk, IndOk, ProcOk, Inv
<1>14. IndInv' BY <1>0, <1>1, <1>2, <1>3, <1>4, <1>5, <1>6, <1>7, <1>8 DEF IndInv, ConnNow, FgNow, LinkUp, ConnOk,
    IndOk, NimOk, PlacesOk, Inv
<1>15. ProcA' BY <1>0, <1>2, <1>3, <1>4, <1>6, <1>7 DEF ProcInv, ProcA, ConnNow, ConnOk, ProcOk, NimOk, Inv
<1>16. ProcB' BY <1>0, <1>1, <1>2, <1>3, <1>4, <1>5, <1>6, <1>7, <1>8 DEF ProcInv, ProcB, ConnNow, FgNow, LinkUp,
    ConnOk, ProcOk, NimOk, PlacesOk, Inv
<1>17. ProcC' BY <1>0, <1>1, <1>2, <1>3, <1>4, <1>5, <1>6, <1>7, <1>8 DEF ProcInv, ProcC, ConnNow, FgNow, LinkUp,
    ConnOk, ProcOk, NimOk, PlacesOk, Inv
<1>18. MtuInv' BY <1>0, <1>1, <1>2, <1>3, <1>4, <1>5, <1>6 DEF MtuInv, ConnNow, FgNow, LinkUp, ConnOk, NimOk,
    PlacesOk, Inv
<1>19. QueuesQuiet BY <1>0, <1>7, <1>8 DEF QueuesQuiet, GattQuiet, Inv
<1>20. ConnGrows BY <1>0, <1>2, <1>3, <1>4, <1>6 DEF ConnGrows, ConnNow, ConnOk, NimOk, Inv
<1> QED BY <1>9, <1>10, <1>11, <1>12, <1>13, <1>14, <1>15, <1>16, <1>17, <1>18, <1>19, <1>20, DataKept DEF Inv,
    ProcInv, QueuesQuiet

LEMMA ParamsCallKeeps ==
  ASSUME Inv, ParamsCall
  PROVE  Inv' /\ QueuesQuiet
<1>0. ConnOk /\ IndOk /\ QueuesOk /\ ProcOk /\ NimOk /\ PlacesOk /\ UseOk
  BY TypesFlat DEF Inv
<1>1. CASE (fg.gen # conn.gen \/ ~conn.h)
  <2>1. fg.at = "params.call"
    BY <1>1, <1>0 DEF At, Calls, ParamsCall, Inv
  <2>2. FgNow("none", "idle", 0)
    BY <1>1, <1>0, FgAnswers DEF ParamsCall, Inv
  <2>3. ((fg.gen # conn.gen \/ ~conn.h)) BY <1>1
  <2>4. UNCHANGED <<nim, cb, conn>>
    BY <1>1, <1>0 DEF ParamsCall, LeaveRadio, flags, stack, MarkDisconnected
  <2>5. UNCHANGED <<srv, cli>>
    BY <1>1, <1>0 DEF ParamsCall, LeaveRadio, flags, stack, MarkDisconnected
  <2>6. UNCHANGED <<roles, scan, adv, heard, notices, host, radio>>
    BY <1>1, <1>0 DEF ParamsCall, LeaveRadio, flags, stack, MarkDisconnected
  <2>7. Types' BY <1>0, <2>1, <2>2, <2>3, <2>4, <2>5, <2>6 DEF Types, FgNow, Inv
  <2>8. CallInv' BY <1>0, <2>1, <2>2, <2>3 DEF CallInv, FgNow, Clearing, Inv
  <2>9. LinkInv' BY <1>0, <2>3, <2>4, <2>6 DEF LinkInv, LinkUp, ConnOk, NimOk, PlacesOk, Inv
  <2>10. PlaceInv' BY <1>0, <2>1, <2>2, <2>3, <2>4, <2>5, <2>6 DEF PlaceInv, FgNow, Holding, Closing, Clearing,
      ConnOk, IndOk, NimOk, PlacesOk, Inv
  <2>11. SubInv' BY <1>0, <2>3, <2>4, <2>5 DEF SubInv, ConnOk, IndOk, ProcOk, Inv
  <2>12. IndInv' BY <1>0, <2>1, <2>2, <2>3, <2>4, <2>5, <2>6 DEF IndInv, FgNow, LinkUp, ConnOk, IndOk, NimOk,
      PlacesOk, Inv
  <2>13. ProcA' BY <1>0, <2>3, <2>4, <2>5 DEF ProcInv, ProcA, ConnOk, ProcOk, NimOk, Inv
  <2>14. ProcB' BY <1>0, <2>1, <2>2, <2>3, <2>4, <2>5, <2>6 DEF ProcInv, ProcB, FgNow, LinkUp, ConnOk, ProcOk, NimOk,
      PlacesOk, Inv
  <2>15. ProcC' BY <1>0, <2>1, <2>2, <2>3, <2>4, <2>5, <2>6 DEF ProcInv, ProcC, FgNow, LinkUp, ConnOk, ProcOk, NimOk,
      PlacesOk, Inv
  <2>16. MtuInv' BY <1>0, <2>1, <2>2, <2>3, <2>4 DEF MtuInv, FgNow, LinkUp, ConnOk, NimOk, PlacesOk, Inv
  <2>17. QueuesQuiet BY <1>0, <2>5, <2>6 DEF QueuesQuiet, GattQuiet, Inv
  <2>18. ConnGrows BY <1>0, <2>3, <2>4 DEF ConnGrows, ConnOk, NimOk, Inv
  <2> QED BY <2>7, <2>8, <2>9, <2>10, <2>11, <2>12, <2>13, <2>14, <2>15, <2>16, <2>17, <2>18, DataKept DEF Inv,
      ProcInv, QueuesQuiet
<1>2. CASE ~(fg.gen # conn.gen \/ ~conn.h) /\ LinkUp /\ UNCHANGED <<conn, srv, cli>>
  <2>1. fg.at = "params.call"
    BY <1>2, <1>0 DEF At, Calls, ParamsCall, Inv
  <2>2. FgNow("none", "idle", 0)
    BY <1>2, <1>0, FgAnswers DEF ParamsCall, Inv
  <2>3. ~(fg.gen # conn.gen \/ ~conn.h) /\ LinkUp BY <1>2
  <2>4. UNCHANGED <<nim, cb, conn>>
    BY <1>2, <1>0 DEF ParamsCall, LeaveRadio, flags, stack, MarkDisconnected
  <2>5. UNCHANGED <<srv, cli>>
    BY <1>2, <1>0 DEF ParamsCall, LeaveRadio, flags, stack, MarkDisconnected
  <2>6. UNCHANGED <<roles, scan, adv, heard, notices, host, radio>>
    BY <1>2, <1>0 DEF ParamsCall, LeaveRadio, flags, stack, MarkDisconnected
  <2>7. Types' BY <1>0, <2>1, <2>2, <2>3, <2>4, <2>5, <2>6 DEF Types, FgNow, Inv
  <2>8. CallInv' BY <1>0, <2>1, <2>2, <2>3 DEF CallInv, FgNow, LinkUp, Clearing, Inv
  <2>9. LinkInv' BY <1>0, <2>3, <2>4, <2>6 DEF LinkInv, LinkUp, ConnOk, NimOk, PlacesOk, Inv
  <2>10. PlaceInv' BY <1>0, <2>1, <2>2, <2>3, <2>4, <2>5, <2>6 DEF PlaceInv, FgNow, LinkUp, Holding, Closing,
      Clearing, ConnOk, IndOk, NimOk, PlacesOk, Inv
  <2>11. SubInv' BY <1>0, <2>3, <2>4, <2>5 DEF SubInv, LinkUp, ConnOk, IndOk, ProcOk, Inv
  <2>12. IndInv' BY <1>0, <2>1, <2>2, <2>3, <2>4, <2>5, <2>6 DEF IndInv, FgNow, LinkUp, ConnOk, IndOk, NimOk,
      PlacesOk, Inv
  <2>13. ProcA' BY <1>0, <2>3, <2>4, <2>5 DEF ProcInv, ProcA, LinkUp, ConnOk, ProcOk, NimOk, Inv
  <2>14. ProcB' BY <1>0, <2>1, <2>2, <2>3, <2>4, <2>5, <2>6 DEF ProcInv, ProcB, FgNow, LinkUp, ConnOk, ProcOk, NimOk,
      PlacesOk, Inv
  <2>15. ProcC' BY <1>0, <2>1, <2>2, <2>3, <2>4, <2>5, <2>6 DEF ProcInv, ProcC, FgNow, LinkUp, ConnOk, ProcOk, NimOk,
      PlacesOk, Inv
  <2>16. MtuInv' BY <1>0, <2>1, <2>2, <2>3, <2>4 DEF MtuInv, FgNow, LinkUp, ConnOk, NimOk, PlacesOk, Inv
  <2>17. QueuesQuiet BY <1>0, <2>5, <2>6 DEF QueuesQuiet, GattQuiet, Inv
  <2>18. ConnGrows BY <1>0, <2>3, <2>4 DEF ConnGrows, LinkUp, ConnOk, NimOk, Inv
  <2> QED BY <2>7, <2>8, <2>9, <2>10, <2>11, <2>12, <2>13, <2>14, <2>15, <2>16, <2>17, <2>18, DataKept DEF Inv,
      ProcInv, QueuesQuiet
<1>3. CASE ~(fg.gen # conn.gen \/ ~conn.h) /\ LinkUp /\ conn' = [conn EXCEPT !.par = FALSE] /\ UNCHANGED <<srv, cli>>
  <2>1. fg.at = "params.call"
    BY <1>3, <1>0 DEF At, Calls, ParamsCall, Inv
  <2>2. ConnNow(conn.st, conn.role, conn.gen, conn.h, conn.ref, conn.done, conn.mtu, FALSE, conn.link)
    BY <1>3, <1>0, ConnPar DEF Types, ConnStates, ConnRoles, ParamsCall, Inv
  <2>3. FgNow("none", "idle", 0)
    BY <1>3, <1>0, FgAnswers DEF ParamsCall, Inv
  <2>4. ~(fg.gen # conn.gen \/ ~conn.h) /\ LinkUp BY <1>3
  <2>5. UNCHANGED <<nim, cb>>
    BY <1>3, <1>0 DEF ParamsCall, LeaveRadio, flags, stack, MarkDisconnected
  <2>6. UNCHANGED <<srv, cli>>
    BY <1>3, <1>0 DEF ParamsCall, LeaveRadio, flags, stack, MarkDisconnected
  <2>7. UNCHANGED <<roles, scan, adv, heard, notices, host, radio>>
    BY <1>3, <1>0 DEF ParamsCall, LeaveRadio, flags, stack, MarkDisconnected
  <2>8. Types' BY <1>0, <2>1, <2>2, <2>3, <2>4, <2>5, <2>6, <2>7 DEF Types, ConnNow, FgNow, Inv
  <2>9. CallInv' BY <1>0, <2>1, <2>3, <2>4 DEF CallInv, FgNow, LinkUp, Clearing, Inv
  <2>10. LinkInv' BY <1>0, <2>2, <2>4, <2>5, <2>7 DEF LinkInv, ConnNow, LinkUp, ConnOk, NimOk, PlacesOk, Inv
  <2>11. PlaceInv' BY <1>0, <2>1, <2>2, <2>3, <2>4, <2>5, <2>6, <2>7 DEF PlaceInv, ConnNow, FgNow, LinkUp, Holding,
      Closing, Clearing, ConnOk, IndOk, NimOk, PlacesOk, Inv
  <2>12. SubInv' BY <1>0, <2>2, <2>4, <2>6 DEF SubInv, ConnNow, LinkUp, ConnOk, IndOk, ProcOk, Inv
  <2>13. IndInv' BY <1>0, <2>1, <2>2, <2>3, <2>4, <2>5, <2>6, <2>7 DEF IndInv, ConnNow, FgNow, LinkUp, ConnOk, IndOk,
      NimOk, PlacesOk, Inv
  <2>14. ProcA' BY <1>0, <2>2, <2>4, <2>5, <2>6 DEF ProcInv, ProcA, ConnNow, LinkUp, ConnOk, ProcOk, NimOk, Inv
  <2>15. ProcB' BY <1>0, <2>1, <2>2, <2>3, <2>4, <2>5, <2>6, <2>7 DEF ProcInv, ProcB, ConnNow, FgNow, LinkUp, ConnOk,
      ProcOk, NimOk, PlacesOk, Inv
  <2>16. ProcC' BY <1>0, <2>1, <2>2, <2>3, <2>4, <2>5, <2>6, <2>7 DEF ProcInv, ProcC, ConnNow, FgNow, LinkUp, ConnOk,
      ProcOk, NimOk, PlacesOk, Inv
  <2>17. MtuInv' BY <1>0, <2>1, <2>2, <2>3, <2>4, <2>5 DEF MtuInv, ConnNow, FgNow, LinkUp, ConnOk, NimOk, PlacesOk,
      Inv
  <2>18. QueuesQuiet BY <1>0, <2>6, <2>7 DEF QueuesQuiet, GattQuiet, Inv
  <2>19. ConnGrows BY <1>0, <2>2, <2>4, <2>5 DEF ConnGrows, ConnNow, LinkUp, ConnOk, NimOk, Inv
  <2> QED BY <2>8, <2>9, <2>10, <2>11, <2>12, <2>13, <2>14, <2>15, <2>16, <2>17, <2>18, <2>19, DataKept DEF Inv,
      ProcInv, QueuesQuiet
<1>4. CASE ~(fg.gen # conn.gen \/ ~conn.h) /\ ~LinkUp /\ conn.st = "LIVE" /\ MarkDisconnected
  <2>1. fg.at = "params.call"
    BY <1>4, <1>0 DEF At, Calls, ParamsCall, Inv
  <2>2. ConnNow("DISCONNECTED", conn.role, conn.gen, FALSE, conn.ref, conn.done, FALSE, FALSE, conn.link)
    BY <1>4, <1>0, ConnDown DEF Types, ConnStates, ConnRoles, ParamsCall, MarkDisconnected, Inv
  <2>3. SrvNow(NoSub, srv.q, srv.cur, srv'.ind) /\ IndKept(srv.ind.pending /\ srv.ind.gen # conn.gen)
    BY <1>4, <1>0, SrvClosed DEF Types, ConnOk, Free, MarkDisconnected, ParamsCall, Inv
  <2>4. CliNow(Unknown, cli.q, cli.cur, cli'.proc)
        /\ ProcNow(cli.proc.pending /\ cli.proc.gen # conn.gen, cli.proc.abandoned, cli.proc.complete, cli.proc.stage,
             cli.proc.gen, cli.proc.id, cli.proc.mode, cli.proc.answer)
    BY <1>4, <1>0, CliClosed DEF Types, ConnOk, Free, MarkDisconnected, ParamsCall, Inv
  <2>5. FgNow("none", "idle", 0)
    BY <1>4, <1>0, FgAnswers DEF ParamsCall, Inv
  <2>6. ~(fg.gen # conn.gen \/ ~conn.h) /\ ~LinkUp /\ conn.st = "LIVE" BY <1>4
  <2>7. UNCHANGED <<nim, cb>>
    BY <1>4, <1>0 DEF ParamsCall, LeaveRadio, flags, stack, MarkDisconnected
  <2>8. UNCHANGED <<roles, scan, adv, heard, notices, host, radio>>
    BY <1>4, <1>0 DEF ParamsCall, LeaveRadio, flags, stack, MarkDisconnected
  <2>9. Types' BY <1>0, <2>1, <2>2, <2>3, <2>4, <2>5, <2>6, <2>7, <2>8 DEF Types, ConnNow, SrvNow, CliNow, FgNow,
      IndKept, ProcNow, Inv
  <2>10. CallInv' BY <1>0, <2>1, <2>5, <2>6 DEF CallInv, FgNow, LinkUp, Clearing, Inv
  <2>11. LinkInv' BY <1>0, <2>2, <2>6, <2>7, <2>8 DEF LinkInv, ConnNow, LinkUp, ConnOk, NimOk, PlacesOk, Inv
  <2>12. PlaceInv' BY <1>0, <2>1, <2>2, <2>3, <2>5, <2>6, <2>7, <2>8, Constants DEF PlaceInv, ConnNow, SrvNow, FgNow,
      LinkUp, Holding, Closing, Clearing, ConnOk, IndOk, NimOk, PlacesOk, Inv
  <2>13. SubInv' BY <1>0, <2>2, <2>3, <2>4, <2>6, Constants, ClearedClient DEF SubInv, ConnNow, SrvNow, CliNow,
      LinkUp, ConnOk, IndOk, ProcOk, Inv
  <2>14. IndInv' BY <1>0, <2>1, <2>2, <2>3, <2>5, <2>6, <2>7, <2>8 DEF IndInv, ConnNow, SrvNow, FgNow, IndKept,
      LinkUp, ConnOk, IndOk, NimOk, PlacesOk, Inv
  <2>15. ProcA' BY <1>0, <2>2, <2>4, <2>6, <2>7 DEF ProcInv, ProcA, ConnNow, CliNow, ProcNow, LinkUp, ConnOk, ProcOk,
      NimOk, Inv
  <2>16. ProcB' BY <1>0, <2>1, <2>2, <2>4, <2>5, <2>6, <2>7, <2>8 DEF ProcInv, ProcB, ConnNow, CliNow, FgNow, ProcNow,
      LinkUp, ConnOk, ProcOk, NimOk, PlacesOk, Inv
  <2>17. ProcC' BY <1>0, <2>1, <2>2, <2>4, <2>5, <2>6, <2>7, <2>8 DEF ProcInv, ProcC, ConnNow, CliNow, FgNow, ProcNow,
      LinkUp, ConnOk, ProcOk, NimOk, PlacesOk, Inv
  <2>18. MtuInv' BY <1>0, <2>1, <2>2, <2>5, <2>6, <2>7 DEF MtuInv, ConnNow, FgNow, LinkUp, ConnOk, NimOk, PlacesOk,
      Inv
  <2>19. QueuesQuiet BY <1>0, <2>3, <2>4, <2>8 DEF QueuesQuiet, GattQuiet, SrvNow, CliNow, Inv
  <2>20. ConnGrows BY <1>0, <2>2, <2>6, <2>7 DEF ConnGrows, ConnNow, LinkUp, ConnOk, NimOk, Inv
  <2> QED BY <2>9, <2>10, <2>11, <2>12, <2>13, <2>14, <2>15, <2>16, <2>17, <2>18, <2>19, <2>20, DataKept DEF Inv,
      ProcInv, QueuesQuiet
<1> QED BY <1>0, <1>1, <1>2, <1>3, <1>4 DEF ParamsCall

LEMMA ParamsUpdatedKeeps ==
  ASSUME Inv, ParamsUpdated
  PROVE  Inv' /\ QueuesQuiet
<1>0. ConnOk /\ IndOk /\ QueuesOk /\ ProcOk /\ NimOk /\ PlacesOk /\ UseOk
  BY TypesFlat DEF Inv
<1>1. cb.kind = "none" /\ host = "running"
  BY <1>0 DEF Callback, NoCb, ParamsUpdated, Inv
<1>2. ConnNow(conn.st, conn.role, conn.gen, conn.h, conn.ref, conn.done, conn.mtu, FALSE, conn.link)
  BY <1>0, ConnPar DEF Types, ConnStates, ConnRoles, ParamsUpdated, Inv
<1>3. UNCHANGED <<fg, nim, cb>>
  BY <1>0 DEF ParamsUpdated, Callback, flags, stack
<1>4. UNCHANGED <<srv, cli>>
  BY <1>0 DEF ParamsUpdated, Callback, flags, stack
<1>5. UNCHANGED <<roles, scan, adv, notices, heard, host, radio>>
  BY <1>0 DEF ParamsUpdated, Callback, flags, stack
<1>6. Types' BY <1>0, <1>1, <1>2, <1>3, <1>4, <1>5 DEF Types, ConnNow, Inv
<1>7. CallInv' BY <1>0, <1>3 DEF CallInv, Inv
<1>8. LinkInv' BY <1>0, <1>1, <1>2, <1>3, <1>5 DEF LinkInv, ConnNow, LinkUp, ConnOk, NimOk, PlacesOk, Inv
<1>9. PlaceInv' BY <1>0, <1>2, <1>3, <1>4, <1>5 DEF PlaceInv, ConnNow, Holding, Closing, Clearing, ConnOk, IndOk,
    NimOk, PlacesOk, Inv
<1>10. SubInv' BY <1>0, <1>2, <1>4 DEF SubInv, ConnNow, ConnOk, IndOk, ProcOk, Inv
<1>11. IndInv' BY <1>0, <1>1, <1>2, <1>3, <1>4, <1>5 DEF IndInv, ConnNow, LinkUp, ConnOk, IndOk, NimOk, PlacesOk, Inv
<1>12. ProcA' BY <1>0, <1>2, <1>3, <1>4 DEF ProcInv, ProcA, ConnNow, ConnOk, ProcOk, NimOk, Inv
<1>13. ProcB' BY <1>0, <1>1, <1>2, <1>3, <1>4, <1>5 DEF ProcInv, ProcB, ConnNow, LinkUp, ConnOk, ProcOk, NimOk,
    PlacesOk, Inv
<1>14. ProcC' BY <1>0, <1>1, <1>2, <1>3, <1>4, <1>5 DEF ProcInv, ProcC, ConnNow, LinkUp, ConnOk, ProcOk, NimOk,
    PlacesOk, Inv
<1>15. MtuInv' BY <1>0, <1>1, <1>2, <1>3 DEF MtuInv, ConnNow, LinkUp, ConnOk, NimOk, PlacesOk, Inv
<1>16. QueuesQuiet BY <1>0, <1>4, <1>5 DEF QueuesQuiet, GattQuiet, Inv
<1>17. ConnGrows BY <1>0, <1>2, <1>3 DEF ConnGrows, ConnNow, ConnOk, NimOk, Inv
<1> QED BY <1>6, <1>7, <1>8, <1>9, <1>10, <1>11, <1>12, <1>13, <1>14, <1>15, <1>16, <1>17, DataKept DEF Inv, ProcInv,
    QueuesQuiet

LEMMA MtuKeeps ==
  ASSUME Inv, Mtu
  PROVE  Inv' /\ QueuesQuiet
<1>0. ConnOk /\ IndOk /\ QueuesOk /\ ProcOk /\ NimOk /\ PlacesOk /\ UseOk
  BY TypesFlat DEF Inv
<1>1. fg.at = "idle"
  BY <1>0 DEF At, Calls, Mtu, Inv
<1>2. conn.st = "LIVE" /\ conn.role = "central"
  BY <1>0 DEF Mtu, Inv
<1>3. conn.gen \in Nat
  BY <1>0 DEF ConnOk, Inv
<1>4. ConnNow(conn.st, conn.role, conn.gen, conn.h, conn.ref, conn.done, TRUE, conn.par, conn.link)
  BY <1>0, <1>3, ConnMtu DEF Types, ConnStates, ConnRoles, Mtu, Inv
<1>5. FgNow("mtu", "mtu.call", conn.gen)
  BY <1>0, <1>3, FgDoes DEF Ops, GattPhases, Holding, Closing, Clearing, Mtu, Inv
<1>6. UNCHANGED <<nim, cb>>
  BY <1>0 DEF Mtu, LeaveRadio, flags, stack
<1>7. UNCHANGED <<srv, cli>>
  BY <1>0 DEF Mtu, LeaveRadio, flags, stack
<1>8. UNCHANGED <<roles, scan, adv, notices, heard, host, radio>>
  BY <1>0 DEF Mtu, LeaveRadio, flags, stack
<1>9. Types' BY <1>0, <1>1, <1>2, <1>3, <1>4, <1>5, <1>6, <1>7, <1>8 DEF Types, ConnNow, FgNow, Inv
<1>10. CallInv' BY <1>0, <1>1, <1>5 DEF CallInv, FgNow, Clearing, Inv
<1>11. LinkInv' BY <1>0, <1>2, <1>3, <1>4, <1>6, <1>8 DEF LinkInv, ConnNow, LinkUp, ConnOk, NimOk, PlacesOk, Inv
<1>12. PlaceInv' BY <1>0, <1>1, <1>2, <1>3, <1>4, <1>5, <1>6, <1>7, <1>8 DEF PlaceInv, ConnNow, FgNow, Holding,
    Closing, Clearing, ConnOk, IndOk, NimOk, PlacesOk, Inv
<1>13. SubInv' BY <1>0, <1>2, <1>3, <1>4, <1>7 DEF SubInv, ConnNow, ConnOk, IndOk, ProcOk, Inv
<1>14. IndInv' BY <1>0, <1>1, <1>2, <1>3, <1>4, <1>5, <1>6, <1>7, <1>8 DEF IndInv, ConnNow, FgNow, LinkUp, ConnOk,
    IndOk, NimOk, PlacesOk, Inv
<1>15. ProcA' BY <1>0, <1>2, <1>3, <1>4, <1>6, <1>7 DEF ProcInv, ProcA, ConnNow, ConnOk, ProcOk, NimOk, Inv
<1>16. ProcB' BY <1>0, <1>1, <1>2, <1>3, <1>4, <1>5, <1>6, <1>7, <1>8 DEF ProcInv, ProcB, ConnNow, FgNow, LinkUp,
    ConnOk, ProcOk, NimOk, PlacesOk, Inv
<1>17. ProcC' BY <1>0, <1>1, <1>2, <1>3, <1>4, <1>5, <1>6, <1>7, <1>8 DEF ProcInv, ProcC, ConnNow, FgNow, LinkUp,
    ConnOk, ProcOk, NimOk, PlacesOk, Inv
<1>18. MtuInv' BY <1>0, <1>1, <1>2, <1>3, <1>4, <1>5, <1>6 DEF MtuInv, ConnNow, FgNow, LinkUp, ConnOk, NimOk,
    PlacesOk, LinkInv, PlaceInv, Holding, Closing, Clearing, Inv
<1>19. QueuesQuiet BY <1>0, <1>7, <1>8 DEF QueuesQuiet, GattQuiet, Inv
<1>20. ConnGrows BY <1>0, <1>2, <1>3, <1>4, <1>6 DEF ConnGrows, ConnNow, ConnOk, NimOk, Inv
<1> QED BY <1>9, <1>10, <1>11, <1>12, <1>13, <1>14, <1>15, <1>16, <1>17, <1>18, <1>19, <1>20, DataKept DEF Inv,
    ProcInv, QueuesQuiet

LEMMA MtuCallKeeps ==
  ASSUME Inv, MtuCall
  PROVE  Inv' /\ QueuesQuiet
<1>0. ConnOk /\ IndOk /\ QueuesOk /\ ProcOk /\ NimOk /\ PlacesOk /\ UseOk
  BY TypesFlat DEF Inv
<1>1. CASE LinkUp /\ ~nim.mtu /\ nim' = [nim EXCEPT !.mtu = TRUE] /\ Go("mtu.wait") /\ UNCHANGED conn
  <2>1. fg.at = "mtu.call"
    BY <1>1, <1>0 DEF At, Calls, MtuCall, Inv
  <2>2. NimNow(nim.scan, nim.adv, nim.conn, nim.link, nim.links, TRUE, nim.ind, nim.proc)
    BY <1>1, <1>0, NimMtu DEF Types, MtuCall, Inv
  <2>3. FgNow(fg.op, "mtu.wait", fg.gen)
    BY <1>1, <1>0, FgGoes DEF GattPhases, RadioPhases, Holding, Closing, Clearing, Types, MtuCall, Inv
  <2>4. LinkUp /\ ~nim.mtu BY <1>1
  <2>5. UNCHANGED <<cb, conn>>
    BY <1>1, <1>0 DEF MtuCall, LeaveRadio, flags, stack
  <2>6. UNCHANGED <<srv, cli>>
    BY <1>1, <1>0 DEF MtuCall, LeaveRadio, flags, stack
  <2>7. UNCHANGED <<roles, scan, adv, heard, notices, host, radio>>
    BY <1>1, <1>0 DEF MtuCall, LeaveRadio, flags, stack
  <2>8. Types' BY <1>0, <2>1, <2>2, <2>3, <2>4, <2>5, <2>6, <2>7 DEF Types, NimNow, FgNow, Inv
  <2>9. CallInv' BY <1>0, <2>1, <2>3 DEF CallInv, FgNow, Clearing, Inv
  <2>10. LinkInv' BY <1>0, <2>2, <2>4, <2>5, <2>7, NothingAsked DEF LinkInv, NimNow, LinkUp, ConnOk, NimOk, PlacesOk,
      Inv
  <2>11. PlaceInv' BY <1>0, <2>1, <2>2, <2>3, <2>4, <2>5, <2>6, <2>7 DEF PlaceInv, NimNow, FgNow, LinkUp, Holding,
      Closing, Clearing, ConnOk, IndOk, NimOk, PlacesOk, Inv
  <2>12. SubInv' BY <1>0, <2>5, <2>6 DEF SubInv, ConnOk, IndOk, ProcOk, Inv
  <2>13. IndInv' BY <1>0, <2>1, <2>2, <2>3, <2>4, <2>5, <2>6, <2>7, NothingAsked DEF IndInv, NimNow, FgNow, LinkUp,
      ConnOk, IndOk, NimOk, PlacesOk, Inv
  <2>14. ProcA' BY <1>0, <2>2, <2>4, <2>5, <2>6, NothingAsked DEF ProcInv, ProcA, NimNow, LinkUp, ConnOk, ProcOk,
      NimOk, Inv
  <2>15. ProcB' BY <1>0, <2>1, <2>2, <2>3, <2>4, <2>5, <2>6, <2>7, NothingAsked DEF ProcInv, ProcB, NimNow, FgNow,
      LinkUp, ConnOk, ProcOk, NimOk, PlacesOk, Inv
  <2>16. ProcC' BY <1>0, <2>1, <2>2, <2>3, <2>4, <2>5, <2>6, <2>7, NothingAsked DEF ProcInv, ProcC, NimNow, FgNow,
      LinkUp, ConnOk, ProcOk, NimOk, PlacesOk, Inv
  <2>17. MtuInv' BY <1>0, <2>1, <2>2, <2>3, <2>4, <2>5, NothingAsked DEF MtuInv, NimNow, FgNow, LinkUp, ConnOk, NimOk,
      PlacesOk, Inv
  <2>18. QueuesQuiet BY <1>0, <2>6, <2>7 DEF QueuesQuiet, GattQuiet, Inv
  <2>19. ConnGrows BY <1>0, <2>2, <2>4, <2>5 DEF ConnGrows, NimNow, LinkUp, ConnOk, NimOk, Inv
  <2> QED BY <2>8, <2>9, <2>10, <2>11, <2>12, <2>13, <2>14, <2>15, <2>16, <2>17, <2>18, <2>19, DataKept DEF Inv,
      ProcInv, QueuesQuiet
<1>2. CASE /\ conn' = IF fg.gen = conn.gen /\ conn.h THEN [conn EXCEPT !.mtu = FALSE] ELSE conn
           /\ Answer /\ UNCHANGED nim
  <2>1. fg.at = "mtu.call"
    BY <1>2, <1>0 DEF At, Calls, MtuCall, Inv
  <2>2. ConnNow(conn.st, conn.role, conn.gen, conn.h, conn.ref, conn.done,
      (conn.mtu /\ ~(fg.gen = conn.gen /\ conn.h)), conn.par, conn.link)
    BY <1>2, <1>0, ConnMtuEnds DEF Types, ConnStates, ConnRoles, MtuCall, Inv
  <2>3. FgNow("none", "idle", 0)
    BY <1>2, <1>0, FgAnswers DEF MtuCall, Inv
  <2>4. UNCHANGED <<cb, nim>>
    BY <1>2, <1>0 DEF MtuCall, LeaveRadio, flags, stack
  <2>5. UNCHANGED <<srv, cli>>
    BY <1>2, <1>0 DEF MtuCall, LeaveRadio, flags, stack
  <2>6. UNCHANGED <<roles, scan, adv, heard, notices, host, radio>>
    BY <1>2, <1>0 DEF MtuCall, LeaveRadio, flags, stack
  <2>7. Types' BY <1>0, <2>1, <2>2, <2>3, <2>4, <2>5, <2>6 DEF Types, ConnNow, FgNow, Inv
  <2>8. CallInv' BY <1>0, <2>1, <2>3 DEF CallInv, FgNow, Clearing, Inv
  <2>9. LinkInv' BY <1>0, <2>2, <2>4, <2>6 DEF LinkInv, ConnNow, LinkUp, ConnOk, NimOk, PlacesOk, Inv
  <2>10. PlaceInv' BY <1>0, <2>1, <2>2, <2>3, <2>4, <2>5, <2>6 DEF PlaceInv, ConnNow, FgNow, Holding, Closing,
      Clearing, ConnOk, IndOk, NimOk, PlacesOk, Inv
  <2>11. SubInv' BY <1>0, <2>2, <2>5 DEF SubInv, ConnNow, ConnOk, IndOk, ProcOk, Inv
  <2>12. IndInv' BY <1>0, <2>1, <2>2, <2>3, <2>4, <2>5, <2>6 DEF IndInv, ConnNow, FgNow, LinkUp, ConnOk, IndOk, NimOk,
      PlacesOk, Inv
  <2>13. ProcA' BY <1>0, <2>2, <2>4, <2>5 DEF ProcInv, ProcA, ConnNow, ConnOk, ProcOk, NimOk, Inv
  <2>14. ProcB' BY <1>0, <2>1, <2>2, <2>3, <2>4, <2>5, <2>6 DEF ProcInv, ProcB, ConnNow, FgNow, LinkUp, ConnOk,
      ProcOk, NimOk, PlacesOk, Inv
  <2>15. ProcC' BY <1>0, <2>1, <2>2, <2>3, <2>4, <2>5, <2>6 DEF ProcInv, ProcC, ConnNow, FgNow, LinkUp, ConnOk,
      ProcOk, NimOk, PlacesOk, Inv
  <2>16. MtuInv' BY <1>0, <2>1, <2>2, <2>3, <2>4 DEF MtuInv, ConnNow, FgNow, LinkUp, ConnOk, NimOk, PlacesOk, LinkInv,
      PlaceInv, Holding, Closing, Clearing, Inv
  <2>17. QueuesQuiet BY <1>0, <2>5, <2>6 DEF QueuesQuiet, GattQuiet, Inv
  <2>18. ConnGrows BY <1>0, <2>2, <2>4 DEF ConnGrows, ConnNow, ConnOk, NimOk, Inv
  <2> QED BY <2>7, <2>8, <2>9, <2>10, <2>11, <2>12, <2>13, <2>14, <2>15, <2>16, <2>17, <2>18, DataKept DEF Inv,
      ProcInv, QueuesQuiet
<1> QED BY <1>0, <1>1, <1>2 DEF MtuCall

LEMMA MtuWaitKeeps ==
  ASSUME Inv, MtuWait
  PROVE  Inv' /\ QueuesQuiet
<1>0. ConnOk /\ IndOk /\ QueuesOk /\ ProcOk /\ NimOk /\ PlacesOk /\ UseOk
  BY TypesFlat DEF Inv
<1>1. fg.at = "mtu.wait"
  BY <1>0 DEF At, Calls, MtuWait, Inv
<1>2. FgNow("none", "idle", 0)
  BY <1>0, FgAnswers DEF MtuWait, Inv
<1>3. UNCHANGED <<nim, cb, conn>>
  BY <1>0 DEF MtuWait, LeaveRadio, flags, stack, bleVars, lvars
<1>4. UNCHANGED <<srv, cli>>
  BY <1>0 DEF MtuWait, LeaveRadio, flags, stack, bleVars, lvars
<1>5. UNCHANGED <<roles, scan, adv, heard, notices, host, radio>>
  BY <1>0 DEF MtuWait, LeaveRadio, flags, stack, bleVars, lvars
<1>6. Types' BY <1>0, <1>1, <1>2, <1>3, <1>4, <1>5 DEF Types, FgNow, Inv
<1>7. Aside BY <1>0, <1>1, <1>2, <1>3, <1>4, <1>5 DEF Aside, NimKept, CbAside, HostAside, CallAside, FgNow, LinkUp,
    Excused, Bound, Holding, Closing, Clearing, ConnOk, IndOk, ProcOk, NimOk, PlacesOk, Inv
<1>8. QueuesQuiet BY <1>0, <1>4, <1>5 DEF QueuesQuiet, GattQuiet, Inv
<1> QED BY <1>6, <1>7, <1>8, AsideKeeps

LEMMA MtuCompleteKeeps ==
  ASSUME Inv, MtuComplete
  PROVE  Inv' /\ QueuesQuiet
<1>0. ConnOk /\ IndOk /\ QueuesOk /\ ProcOk /\ NimOk /\ PlacesOk /\ UseOk
  BY TypesFlat DEF Inv
<1>1. CASE Current(nim.link.cb)
  <2>1. cb.kind = "none" /\ host = "running"
    BY <1>1, <1>0 DEF Callback, NoCb, MtuComplete, Inv
  <2>2. nim.mtu
    BY <1>1, <1>0 DEF MtuComplete, Inv
  <2>3. NimNow(nim.scan, nim.adv, nim.conn, nim.link, nim.links, FALSE, nim.ind, nim.proc)
    BY <1>1, <1>0, NimMtu DEF Types, MtuComplete, Inv
  <2>4. ConnNow(conn.st, conn.role, conn.gen, conn.h, conn.ref, conn.done, FALSE, conn.par, conn.link)
    BY <1>1, <1>0, ConnMtu DEF Types, ConnStates, ConnRoles, MtuComplete, Inv
  <2>5. (Current(nim.link.cb)) BY <1>1
  <2>6. UNCHANGED <<fg, cb>>
    BY <1>1, <1>0 DEF MtuComplete, Callback, flags, stack
  <2>7. UNCHANGED <<srv, cli>>
    BY <1>1, <1>0 DEF MtuComplete, Callback, flags, stack
  <2>8. UNCHANGED <<roles, scan, adv, heard, notices, host, radio>>
    BY <1>1, <1>0 DEF MtuComplete, Callback, flags, stack
  <2>9. Types' BY <1>0, <2>1, <2>2, <2>3, <2>4, <2>5, <2>6, <2>7, <2>8 DEF Types, ConnNow, NimNow, Inv
  <2>10. CallInv' BY <1>0, <2>6 DEF CallInv, Inv
  <2>11. LinkInv' BY <1>0, <2>1, <2>2, <2>3, <2>4, <2>5, <2>6, <2>8, NothingAsked DEF LinkInv, ConnNow, NimNow,
      LinkUp, Current, ConnOk, NimOk, PlacesOk, Inv
  <2>12. PlaceInv' BY <1>0, <2>2, <2>3, <2>4, <2>5, <2>6, <2>7, <2>8 DEF PlaceInv, ConnNow, NimNow, Current, Holding,
      Closing, Clearing, ConnOk, IndOk, NimOk, PlacesOk, Inv
  <2>13. SubInv' BY <1>0, <2>4, <2>5, <2>7 DEF SubInv, ConnNow, Current, ConnOk, IndOk, ProcOk, Inv
  <2>14. IndInv' BY <1>0, <2>1, <2>2, <2>3, <2>4, <2>5, <2>6, <2>7, <2>8, NothingAsked DEF IndInv, ConnNow, NimNow,
      LinkUp, Current, ConnOk, IndOk, NimOk, PlacesOk, Inv
  <2>15. ProcA' BY <1>0, <2>2, <2>3, <2>4, <2>5, <2>7, NothingAsked DEF ProcInv, ProcA, ConnNow, NimNow, Current,
      ConnOk, ProcOk, NimOk, Inv
  <2>16. ProcB' BY <1>0, <2>1, <2>2, <2>3, <2>4, <2>5, <2>6, <2>7, <2>8, NothingAsked DEF ProcInv, ProcB, ConnNow,
      NimNow, LinkUp, Current, ConnOk, ProcOk, NimOk, PlacesOk, Inv
  <2>17. ProcC' BY <1>0, <2>1, <2>2, <2>3, <2>4, <2>5, <2>6, <2>7, <2>8, NothingAsked DEF ProcInv, ProcC, ConnNow,
      NimNow, LinkUp, Current, ConnOk, ProcOk, NimOk, PlacesOk, Inv
  <2>18. MtuInv' BY <1>0, <2>1, <2>2, <2>3, <2>4, <2>5, <2>6, NothingAsked DEF MtuInv, ConnNow, NimNow, LinkUp,
      Current, ConnOk, NimOk, PlacesOk, Inv
  <2>19. QueuesQuiet BY <1>0, <2>7, <2>8 DEF QueuesQuiet, GattQuiet, Inv
  <2>20. ConnGrows BY <1>0, <2>2, <2>3, <2>4, <2>5 DEF ConnGrows, ConnNow, NimNow, Current, ConnOk, NimOk, Inv
  <2> QED BY <2>9, <2>10, <2>11, <2>12, <2>13, <2>14, <2>15, <2>16, <2>17, <2>18, <2>19, <2>20, DataKept DEF Inv,
      ProcInv, QueuesQuiet
<1>2. CASE ~Current(nim.link.cb)
  <2>1. cb.kind = "none" /\ host = "running"
    BY <1>2, <1>0 DEF Callback, NoCb, MtuComplete, Inv
  <2>2. nim.mtu
    BY <1>2, <1>0 DEF MtuComplete, Inv
  <2>3. NimNow(nim.scan, nim.adv, nim.conn, nim.link, nim.links, FALSE, nim.ind, nim.proc)
    BY <1>2, <1>0, NimMtu DEF Types, MtuComplete, Inv
  <2>4. (~Current(nim.link.cb)) BY <1>2
  <2>5. UNCHANGED <<fg, cb, conn>>
    BY <1>2, <1>0 DEF MtuComplete, Callback, flags, stack
  <2>6. UNCHANGED <<srv, cli>>
    BY <1>2, <1>0 DEF MtuComplete, Callback, flags, stack
  <2>7. UNCHANGED <<roles, scan, adv, heard, notices, host, radio>>
    BY <1>2, <1>0 DEF MtuComplete, Callback, flags, stack
  <2>8. Types' BY <1>0, <2>1, <2>2, <2>3, <2>4, <2>5, <2>6, <2>7 DEF Types, NimNow, Inv
  <2>9. CallInv' BY <1>0, <2>5 DEF CallInv, Inv
  <2>10. LinkInv' BY <1>0, <2>1, <2>2, <2>3, <2>4, <2>5, <2>7, NothingAsked DEF LinkInv, NimNow, LinkUp, Current,
      ConnOk, NimOk, PlacesOk, Inv
  <2>11. PlaceInv' BY <1>0, <2>2, <2>3, <2>4, <2>5, <2>6, <2>7 DEF PlaceInv, NimNow, Current, Holding, Closing,
      Clearing, ConnOk, IndOk, NimOk, PlacesOk, Inv
  <2>12. SubInv' BY <1>0, <2>4, <2>5, <2>6 DEF SubInv, Current, ConnOk, IndOk, ProcOk, Inv
  <2>13. IndInv' BY <1>0, <2>1, <2>2, <2>3, <2>4, <2>5, <2>6, <2>7, NothingAsked DEF IndInv, NimNow, LinkUp, Current,
      ConnOk, IndOk, NimOk, PlacesOk, Inv
  <2>14. ProcA' BY <1>0, <2>2, <2>3, <2>4, <2>5, <2>6, NothingAsked DEF ProcInv, ProcA, NimNow, Current, ConnOk,
      ProcOk, NimOk, Inv
  <2>15. ProcB' BY <1>0, <2>1, <2>2, <2>3, <2>4, <2>5, <2>6, <2>7, NothingAsked DEF ProcInv, ProcB, NimNow, LinkUp,
      Current, ConnOk, ProcOk, NimOk, PlacesOk, Inv
  <2>16. ProcC' BY <1>0, <2>1, <2>2, <2>3, <2>4, <2>5, <2>6, <2>7, NothingAsked DEF ProcInv, ProcC, NimNow, LinkUp,
      Current, ConnOk, ProcOk, NimOk, PlacesOk, Inv
  <2>17. MtuInv' BY <1>0, <2>1, <2>2, <2>3, <2>4, <2>5, NothingAsked DEF MtuInv, NimNow, LinkUp, Current, ConnOk,
      NimOk, PlacesOk, LinkInv, PlaceInv, Holding, Closing, Clearing, Inv
  <2>18. QueuesQuiet BY <1>0, <2>6, <2>7 DEF QueuesQuiet, GattQuiet, Inv
  <2>19. ConnGrows BY <1>0, <2>2, <2>3, <2>4, <2>5 DEF ConnGrows, NimNow, Current, ConnOk, NimOk, Inv
  <2> QED BY <2>8, <2>9, <2>10, <2>11, <2>12, <2>13, <2>14, <2>15, <2>16, <2>17, <2>18, <2>19, DataKept DEF Inv,
      ProcInv, QueuesQuiet
<1> QED BY <1>0, <1>1, <1>2 DEF MtuComplete

LEMMA RemoteWriteKeeps ==
  ASSUME Inv, RemoteWrite
  PROVE  Inv'
<1>0. ConnOk /\ IndOk /\ QueuesOk /\ ProcOk /\ NimOk /\ PlacesOk /\ UseOk
  BY TypesFlat DEF Inv
<1>1. cb.kind = "none" /\ host = "running"
  BY <1>0 DEF Callback, NoCb, RemoteWrite, Inv
<1>2. LinkUp /\ conn.h /\ conn.st = "LIVE"
  BY <1>0 DEF RemoteWrite, Inv
<1>3. heard + 1 \in Nat /\ heard + 1 # 0
  BY <1>0 DEF UseOk, Inv
<1>4. heard' = heard + 1
  BY <1>0, <1>3 DEF Numbered, RemoteWrite, Inv
<1>5. heard + 1 \in Nat
  BY <1>0, <1>3 DEF UseOk, Inv
<1>6. [gen |-> conn.gen, link |-> nim.link.id, id |-> heard + 1, to |-> 0] \in EntryT
  BY <1>0, <1>3, <1>5 DEF ConnOk, NimOk, EntryT, Inv
<1>7. Append(srv.q, [gen |-> conn.gen, link |-> nim.link.id, id |-> heard + 1, to |-> 0]) \in Seq(EntryT)
  BY <1>0, <1>3, <1>5, <1>6 DEF QueuesOk, Inv
<1>8. SrvNow(srv.sub, Append(srv.q, [gen |-> conn.gen, link |-> nim.link.id, id |-> heard + 1, to |-> 0]), srv.cur,
    srv.ind)
  BY <1>0, <1>3, <1>5, <1>6, <1>7, SrvWritten DEF Types, RemoteWrite, Inv
<1>9. DataAt(Append(srv.q, [gen |-> conn.gen, link |-> nim.link.id, id |-> heard + 1, to |-> 0]), conn.gen, conn.link,
    conn.st)
  BY <1>0, <1>3, <1>5, <1>6, <1>7, EntryData DEF DataInv, QueuesOk, RemoteWrite, Inv
<1>10. UNCHANGED <<fg, conn, cb, nim>>
  BY <1>0 DEF RemoteWrite, Callback, flags, stack
<1>11. UNCHANGED <<cli>>
  BY <1>0 DEF RemoteWrite, Callback, flags, stack
<1>12. UNCHANGED <<roles, scan, adv, notices, host, radio>>
  BY <1>0 DEF RemoteWrite, Callback, flags, stack
<1>13. Types' BY <1>0, <1>1, <1>2, <1>3, <1>4, <1>5, <1>6, <1>7, <1>8, <1>9, <1>10, <1>11, <1>12 DEF Types, SrvNow,
    Inv
<1>14. CallInv' BY <1>0, <1>10 DEF CallInv, Inv
<1>15. LinkInv' BY <1>0, <1>1, <1>2, <1>6, <1>7, <1>9, <1>10, <1>12 DEF LinkInv, LinkUp, ConnOk, NimOk, PlacesOk, Inv
<1>16. PlaceInv' BY <1>0, <1>2, <1>6, <1>7, <1>8, <1>9, <1>10, <1>12, Constants DEF PlaceInv, SrvNow, LinkUp, Holding,
    Closing, Clearing, ConnOk, IndOk, NimOk, PlacesOk, Inv
<1>17. SubInv' BY <1>0, <1>2, <1>6, <1>7, <1>8, <1>9, <1>10, <1>11, Constants, ClearedClient DEF SubInv, SrvNow,
    LinkUp, ConnOk, IndOk, ProcOk, Inv
<1>18. IndInv' BY <1>0, <1>1, <1>2, <1>6, <1>7, <1>8, <1>9, <1>10, <1>12 DEF IndInv, SrvNow, LinkUp, ConnOk, IndOk,
    NimOk, PlacesOk, Inv
<1>19. ProcA' BY <1>0, <1>2, <1>6, <1>7, <1>9, <1>10, <1>11 DEF ProcInv, ProcA, LinkUp, ConnOk, ProcOk, NimOk, Inv
<1>20. ProcB' BY <1>0, <1>1, <1>2, <1>6, <1>7, <1>9, <1>10, <1>11, <1>12 DEF ProcInv, ProcB, LinkUp, ConnOk, ProcOk,
    NimOk, PlacesOk, Inv
<1>21. ProcC' BY <1>0, <1>1, <1>2, <1>6, <1>7, <1>9, <1>10, <1>11, <1>12 DEF ProcInv, ProcC, LinkUp, ConnOk, ProcOk,
    NimOk, PlacesOk, Inv
<1>22. MtuInv' BY <1>0, <1>1, <1>2, <1>6, <1>7, <1>9, <1>10 DEF MtuInv, LinkUp, ConnOk, NimOk, PlacesOk, Inv
<1>23. DataInv' BY SMTT(60), <1>0, <1>2, <1>6, <1>7, <1>8, <1>9, <1>10, <1>11 DEF DataInv, SrvNow, CliNow, ConnOk,
    IndOk, ProcOk, Inv
<1> QED BY <1>13, <1>14, <1>15, <1>16, <1>17, <1>18, <1>19, <1>20, <1>21, <1>22, <1>23 DEF Inv, ProcInv

LEMMA RemoteSubscribeKeeps ==
  ASSUME Inv, RemoteSubscribe
  PROVE  Inv' /\ QueuesQuiet
<1>0. ConnOk /\ IndOk /\ QueuesOk /\ ProcOk /\ NimOk /\ PlacesOk /\ UseOk
  BY TypesFlat DEF Inv
<1>1. cb.kind = "none" /\ host = "running"
  BY <1>0 DEF Callback, NoCb, RemoteSubscribe, Inv
<1>2. Current(nim.link.cb) /\ conn.role = "peripheral"
  BY <1>0 DEF RemoteSubscribe, Inv
<1>3. conn.gen \in Nat
  BY <1>0 DEF ConnOk, Inv
<1>4. SrvNow(srv'.sub, srv.q, srv.cur, srv.ind) /\ (srv'.sub.mode # "none" => srv'.sub.gen = conn.gen)
  BY <1>0, <1>3, SrvSubscribes DEF RemoteSubscribe, Inv
<1>5. UNCHANGED <<fg, conn, cb, nim>>
  BY <1>0 DEF RemoteSubscribe, Callback, flags, stack
<1>6. UNCHANGED <<cli>>
  BY <1>0 DEF RemoteSubscribe, Callback, flags, stack
<1>7. UNCHANGED <<roles, scan, adv, notices, heard, host, radio>>
  BY <1>0 DEF RemoteSubscribe, Callback, flags, stack
<1>8. Types' BY <1>0, <1>1, <1>2, <1>3, <1>4, <1>5, <1>6, <1>7 DEF Types, SrvNow, Inv
<1>9. CallInv' BY <1>0, <1>5 DEF CallInv, Inv
<1>10. LinkInv' BY <1>0, <1>1, <1>2, <1>3, <1>5, <1>7 DEF LinkInv, LinkUp, Current, ConnOk, NimOk, PlacesOk, Inv
<1>11. PlaceInv' BY <1>0, <1>2, <1>3, <1>4, <1>5, <1>7, Constants DEF PlaceInv, SrvNow, Current, Holding, Closing,
    Clearing, ConnOk, IndOk, NimOk, PlacesOk, Inv
<1>12. SubInv' BY <1>0, <1>2, <1>3, <1>4, <1>5, <1>6, Constants, ClearedClient DEF SubInv, SrvNow, Current, ConnOk,
    IndOk, ProcOk, Inv
<1>13. IndInv' BY <1>0, <1>1, <1>2, <1>3, <1>4, <1>5, <1>7 DEF IndInv, SrvNow, LinkUp, Current, ConnOk, IndOk, NimOk,
    PlacesOk, Inv
<1>14. ProcA' BY <1>0, <1>2, <1>3, <1>5, <1>6 DEF ProcInv, ProcA, Current, ConnOk, ProcOk, NimOk, Inv
<1>15. ProcB' BY <1>0, <1>1, <1>2, <1>3, <1>5, <1>6, <1>7 DEF ProcInv, ProcB, LinkUp, Current, ConnOk, ProcOk, NimOk,
    PlacesOk, Inv
<1>16. ProcC' BY <1>0, <1>1, <1>2, <1>3, <1>5, <1>6, <1>7 DEF ProcInv, ProcC, LinkUp, Current, ConnOk, ProcOk, NimOk,
    PlacesOk, Inv
<1>17. MtuInv' BY <1>0, <1>1, <1>2, <1>3, <1>5 DEF MtuInv, LinkUp, Current, ConnOk, NimOk, PlacesOk, Inv
<1>18. QueuesQuiet BY <1>0, <1>4, <1>6, <1>7 DEF QueuesQuiet, GattQuiet, SrvNow, Inv
<1>19. ConnGrows BY <1>0, <1>2, <1>3, <1>5 DEF ConnGrows, Current, ConnOk, NimOk, Inv
<1> QED BY <1>8, <1>9, <1>10, <1>11, <1>12, <1>13, <1>14, <1>15, <1>16, <1>17, <1>18, <1>19, DataKept DEF Inv,
    ProcInv, QueuesQuiet

LEMMA WriteNextKeeps ==
  ASSUME Inv, WriteNext
  PROVE  Inv'
<1>0. ConnOk /\ IndOk /\ QueuesOk /\ ProcOk /\ NimOk /\ PlacesOk /\ UseOk
  BY TypesFlat DEF Inv
<1>1. fg.at = "idle"
  BY <1>0 DEF At, Calls, WriteNext, Inv
<1>2. NextOf(srv.q).q \in Seq(EntryT) /\ NextOf(srv.q).cur \in EntryT
  BY <1>0, NextTypes DEF QueuesOk, ConnOk, Inv
<1>3. SrvNow(srv.sub, NextOf(srv.q).q, NextOf(srv.q).cur, srv.ind)
  BY <1>0, <1>2, SrvTaken DEF Types, WriteNext, Inv
<1>4. UNCHANGED <<fg, conn, cb, nim>>
  BY <1>0 DEF WriteNext, Calls, LeaveRadio, KeepGap, flags, stack
<1>5. UNCHANGED <<cli>>
  BY <1>0 DEF WriteNext, Calls, LeaveRadio, KeepGap, flags, stack
<1>6. UNCHANGED <<roles, scan, adv, notices, heard, host, radio>>
  BY <1>0 DEF WriteNext, Calls, LeaveRadio, KeepGap, flags, stack
<1>7. Types' BY <1>0, <1>1, <1>2, <1>3, <1>4, <1>5, <1>6 DEF Types, SrvNow, Inv
<1>8. CallInv' BY <1>0, <1>1, <1>4 DEF CallInv, Inv
<1>9. LinkInv' BY <1>0, <1>4, <1>6 DEF LinkInv, LinkUp, ConnOk, NimOk, PlacesOk, Inv
<1>10. PlaceInv' BY <1>1, <1>4, Constants DEF PlaceInv, Holding, Closing, Clearing, Inv
<1>11. SubInv' BY <1>0, <1>2, <1>3, <1>4, <1>5, Constants, ClearedClient DEF SubInv, SrvNow, ConnOk, IndOk, ProcOk,
    Inv
<1>12. IndInv' BY <1>0, <1>1, <1>2, <1>3, <1>4, <1>6 DEF IndInv, SrvNow, LinkUp, ConnOk, IndOk, NimOk, PlacesOk, Inv
<1>13. ProcA' BY <1>0, <1>4, <1>5 DEF ProcInv, ProcA, ConnOk, ProcOk, NimOk, Inv
<1>14. ProcB' BY <1>0, <1>1, <1>4, <1>5, <1>6 DEF ProcInv, ProcB, LinkUp, ConnOk, ProcOk, NimOk, PlacesOk, Inv
<1>15. ProcC' BY <1>0, <1>1, <1>4, <1>5, <1>6 DEF ProcInv, ProcC, LinkUp, ConnOk, ProcOk, NimOk, PlacesOk, Inv
<1>16. MtuInv' BY <1>0, <1>1, <1>4 DEF MtuInv, LinkUp, ConnOk, NimOk, PlacesOk, Inv
<1>17. DataInv' BY <1>0, <1>2, <1>3, <1>4, <1>5, NextData DEF DataInv, SrvNow, CliNow, ConnOk, IndOk, ProcOk,
    QueuesOk, Inv
<1> QED BY <1>7, <1>8, <1>9, <1>10, <1>11, <1>12, <1>13, <1>14, <1>15, <1>16, <1>17 DEF Inv, ProcInv

LEMMA IndicateKeeps ==
  ASSUME Inv, Indicate
  PROVE  Inv' /\ QueuesQuiet
<1>0. ConnOk /\ IndOk /\ QueuesOk /\ ProcOk /\ NimOk /\ PlacesOk /\ UseOk
  BY TypesFlat DEF Inv
<1>1. fg.at = "idle"
  BY <1>0 DEF At, Calls, Indicate, Inv
<1>2. conn.gen \in Nat
  BY <1>0 DEF ConnOk, Inv
<1>3. conn.st = "LIVE"
  BY <1>0, <1>2 DEF MayIndicate, Indicate, Inv
<1>4. FgNow("indicate", "ind.arm", conn.gen)
  BY <1>0, <1>2, FgDoes DEF Ops, GattPhases, Holding, Closing, Clearing, Indicate, Inv
<1>5. UNCHANGED <<conn, cb, nim>>
  BY <1>0 DEF Indicate, Calls, LeaveRadio, KeepGap, flags, stack
<1>6. UNCHANGED <<srv, cli>>
  BY <1>0 DEF Indicate, Calls, LeaveRadio, KeepGap, flags, stack
<1>7. UNCHANGED <<roles, scan, adv, notices, heard, host, radio>>
  BY <1>0 DEF Indicate, Calls, LeaveRadio, KeepGap, flags, stack
<1>8. Types' BY <1>0, <1>1, <1>2, <1>3, <1>4, <1>5, <1>6, <1>7 DEF Types, FgNow, Inv
<1>9. CallInv' BY <1>0, <1>1, <1>4 DEF CallInv, FgNow, Clearing, Inv
<1>10. LinkInv' BY <1>0, <1>2, <1>3, <1>5, <1>7 DEF LinkInv, LinkUp, ConnOk, NimOk, PlacesOk, Inv
<1>11. PlaceInv' BY <1>0, <1>1, <1>2, <1>3, <1>4, <1>5, <1>6, <1>7 DEF PlaceInv, FgNow, Holding, Closing, Clearing,
    ConnOk, IndOk, NimOk, PlacesOk, LinkInv, LinkUp, Inv
<1>12. SubInv' BY <1>0, <1>2, <1>3, <1>5, <1>6 DEF SubInv, ConnOk, IndOk, ProcOk, Inv
<1>13. IndInv' BY <1>0, <1>1, <1>2, <1>3, <1>4, <1>5, <1>6, <1>7 DEF IndInv, FgNow, LinkUp, ConnOk, IndOk, NimOk,
    PlacesOk, Inv
<1>14. ProcA' BY <1>0, <1>2, <1>3, <1>5, <1>6 DEF ProcInv, ProcA, ConnOk, ProcOk, NimOk, Inv
<1>15. ProcB' BY <1>0, <1>1, <1>2, <1>3, <1>4, <1>5, <1>6, <1>7 DEF ProcInv, ProcB, FgNow, LinkUp, ConnOk, ProcOk,
    NimOk, PlacesOk, Inv
<1>16. ProcC' BY <1>0, <1>1, <1>2, <1>3, <1>4, <1>5, <1>6, <1>7 DEF ProcInv, ProcC, FgNow, LinkUp, ConnOk, ProcOk,
    NimOk, PlacesOk, Inv
<1>17. MtuInv' BY <1>0, <1>1, <1>2, <1>3, <1>4, <1>5 DEF MtuInv, FgNow, LinkUp, ConnOk, NimOk, PlacesOk, Inv
<1>18. QueuesQuiet BY <1>0, <1>6, <1>7 DEF QueuesQuiet, GattQuiet, Inv
<1>19. ConnGrows BY <1>0, <1>2, <1>3, <1>5 DEF ConnGrows, ConnOk, NimOk, Inv
<1> QED BY <1>8, <1>9, <1>10, <1>11, <1>12, <1>13, <1>14, <1>15, <1>16, <1>17, <1>18, <1>19, DataKept DEF Inv,
    ProcInv, QueuesQuiet

LEMMA IndicateArmKeeps ==
  ASSUME Inv, IndicateArm
  PROVE  Inv' /\ QueuesQuiet
<1>0. ConnOk /\ IndOk /\ QueuesOk /\ ProcOk /\ NimOk /\ PlacesOk /\ UseOk
  BY TypesFlat DEF Inv
<1>1. CASE ~srv.ind.pending /\ MayIndicate
  <2>1. fg.at = "ind.arm"
    BY <1>1, <1>0 DEF At, Calls, IndicateArm, Inv
  <2>2. heard + 1 \in Nat /\ heard + 1 # 0
    BY <1>1, <1>0 DEF UseOk, Inv
  <2>3. heard' = heard + 1
    BY <1>1, <1>0, <2>2 DEF IndicateArm, Inv
  <2>4. conn.gen \in Nat
    BY <1>1, <1>0, <2>2 DEF ConnOk, Inv
  <2>5. [pending |-> TRUE, gen |-> conn.gen, id |-> heard + 1, answer |-> 0] \in IndT
    BY <1>1, <1>0, <2>2, <2>4 DEF ConnOk, IndT, Inv
  <2>6. SrvNow(srv.sub, srv.q, srv.cur, [pending |-> TRUE, gen |-> conn.gen, id |-> heard + 1, answer |-> 0])
    BY <1>1, <1>0, <2>2, <2>4, <2>5, SrvArmed DEF Types, IndicateArm, Inv
  <2>7. srv'.ind.pending = TRUE /\ srv'.ind.gen = conn.gen /\ srv'.ind.id = heard + 1 /\ srv'.ind.answer = 0
    BY <1>1, <1>0, <2>2, <2>4, <2>5, <2>6 DEF SrvNow, Inv
  <2>8. conn.st = "LIVE" /\ conn.role = "peripheral"
    BY <1>1, <1>0, <2>2, <2>4, <2>5 DEF MayIndicate, Inv
  <2>9. FgNow(fg.op, "ind.call", conn.gen)
    BY <1>1, <1>0, <2>2, <2>4, <2>5, FgArms DEF GattPhases, Holding, Closing, Clearing, Types, IndicateArm, Inv
  <2>10. ~srv.ind.pending /\ MayIndicate BY <1>1
  <2>11. UNCHANGED <<conn, cb, nim>>
    BY <1>1, <1>0 DEF IndicateArm, LeaveRadio, KeepGap, flags, stack
  <2>12. UNCHANGED <<cli>>
    BY <1>1, <1>0 DEF IndicateArm, LeaveRadio, KeepGap, flags, stack
  <2>13. UNCHANGED <<roles, scan, adv, notices, host, radio>>
    BY <1>1, <1>0 DEF IndicateArm, LeaveRadio, KeepGap, flags, stack
  <2>14. Types' BY <1>0, <2>1, <2>2, <2>3, <2>4, <2>5, <2>6, <2>7, <2>8, <2>9, <2>10, <2>11, <2>12, <2>13 DEF Types,
      SrvNow, FgNow, Inv
  <2>15. CallInv' BY <1>0, <2>1, <2>9 DEF CallInv, FgNow, Clearing, Inv
  <2>16. LinkInv' BY <1>0, <2>4, <2>5, <2>7, <2>8, <2>10, <2>11, <2>13 DEF LinkInv, LinkUp, MayIndicate, ConnOk,
      NimOk, PlacesOk, Inv
  <2>17. PlaceInv' BY <1>0, <2>1, <2>4, <2>5, <2>6, <2>7, <2>8, <2>9, <2>10, <2>11, <2>13, Constants DEF PlaceInv,
      SrvNow, FgNow, MayIndicate, Holding, Closing, Clearing, ConnOk, IndOk, NimOk, PlacesOk, Inv
  <2>18. SubInv' BY <1>0, <2>4, <2>5, <2>6, <2>7, <2>8, <2>10, <2>11, <2>12, Constants, ClearedClient DEF SubInv,
      SrvNow, MayIndicate, ConnOk, IndOk, ProcOk, Inv
  <2>19. IndInv' BY <1>0, <2>1, <2>4, <2>5, <2>6, <2>7, <2>8, <2>9, <2>10, <2>11, <2>13, <2>2 DEF IndInv, SrvNow,
      FgNow, LinkUp, MayIndicate, ConnOk, IndOk, NimOk, PlacesOk, LinkInv, PlaceInv, Holding, Closing, Clearing, Inv
  <2>20. ProcA' BY <1>0, <2>4, <2>5, <2>7, <2>8, <2>10, <2>11, <2>12 DEF ProcInv, ProcA, MayIndicate, ConnOk, ProcOk,
      NimOk, Inv
  <2>21. ProcB' BY <1>0, <2>1, <2>4, <2>5, <2>7, <2>8, <2>9, <2>10, <2>11, <2>12, <2>13 DEF ProcInv, ProcB, FgNow,
      LinkUp, MayIndicate, ConnOk, ProcOk, NimOk, PlacesOk, Inv
  <2>22. ProcC' BY <1>0, <2>1, <2>4, <2>5, <2>7, <2>8, <2>9, <2>10, <2>11, <2>12, <2>13 DEF ProcInv, ProcC, FgNow,
      LinkUp, MayIndicate, ConnOk, ProcOk, NimOk, PlacesOk, Inv
  <2>23. MtuInv' BY <1>0, <2>1, <2>4, <2>5, <2>7, <2>8, <2>9, <2>10, <2>11 DEF MtuInv, FgNow, LinkUp, MayIndicate,
      ConnOk, NimOk, PlacesOk, Inv
  <2>24. QueuesQuiet BY <1>0, <2>2, <2>3, <2>5, <2>6, <2>7, <2>10, <2>12, <2>13 DEF QueuesQuiet, GattQuiet, SrvNow,
      MayIndicate, Inv
  <2>25. ConnGrows BY <1>0, <2>4, <2>5, <2>7, <2>8, <2>10, <2>11 DEF ConnGrows, MayIndicate, ConnOk, NimOk, Inv
  <2> QED BY <2>14, <2>15, <2>16, <2>17, <2>18, <2>19, <2>20, <2>21, <2>22, <2>23, <2>24, <2>25, DataKept DEF Inv,
      ProcInv, QueuesQuiet
<1>2. CASE ~(~srv.ind.pending /\ MayIndicate)
  <2>1. fg.at = "ind.arm"
    BY <1>2, <1>0 DEF At, Calls, IndicateArm, Inv
  <2>2. FgNow("none", "idle", 0)
    BY <1>2, <1>0, FgAnswers DEF IndicateArm, Inv
  <2>3. ~(~srv.ind.pending /\ MayIndicate) BY <1>2
  <2>4. UNCHANGED <<conn, cb, nim>>
    BY <1>2, <1>0 DEF IndicateArm, LeaveRadio, KeepGap, flags, stack
  <2>5. UNCHANGED <<srv, cli>>
    BY <1>2, <1>0 DEF IndicateArm, LeaveRadio, KeepGap, flags, stack
  <2>6. UNCHANGED <<roles, scan, adv, notices, heard, host, radio>>
    BY <1>2, <1>0 DEF IndicateArm, LeaveRadio, KeepGap, flags, stack
  <2>7. Types' BY <1>0, <2>1, <2>2, <2>3, <2>4, <2>5, <2>6 DEF Types, FgNow, Inv
  <2>8. CallInv' BY <1>0, <2>1, <2>2 DEF CallInv, FgNow, Clearing, Inv
  <2>9. LinkInv' BY <1>0, <2>3, <2>4, <2>6 DEF LinkInv, LinkUp, MayIndicate, ConnOk, NimOk, PlacesOk, Inv
  <2>10. PlaceInv' BY <1>0, <2>1, <2>2, <2>3, <2>4, <2>5, <2>6 DEF PlaceInv, FgNow, MayIndicate, Holding, Closing,
      Clearing, ConnOk, IndOk, NimOk, PlacesOk, Inv
  <2>11. SubInv' BY <1>0, <2>3, <2>4, <2>5 DEF SubInv, MayIndicate, ConnOk, IndOk, ProcOk, Inv
  <2>12. IndInv' BY <1>0, <2>1, <2>2, <2>3, <2>4, <2>5, <2>6 DEF IndInv, FgNow, LinkUp, MayIndicate, ConnOk, IndOk,
      NimOk, PlacesOk, Inv
  <2>13. ProcA' BY <1>0, <2>3, <2>4, <2>5 DEF ProcInv, ProcA, MayIndicate, ConnOk, ProcOk, NimOk, Inv
  <2>14. ProcB' BY <1>0, <2>1, <2>2, <2>3, <2>4, <2>5, <2>6 DEF ProcInv, ProcB, FgNow, LinkUp, MayIndicate, ConnOk,
      ProcOk, NimOk, PlacesOk, Inv
  <2>15. ProcC' BY <1>0, <2>1, <2>2, <2>3, <2>4, <2>5, <2>6 DEF ProcInv, ProcC, FgNow, LinkUp, MayIndicate, ConnOk,
      ProcOk, NimOk, PlacesOk, Inv
  <2>16. MtuInv' BY <1>0, <2>1, <2>2, <2>3, <2>4 DEF MtuInv, FgNow, LinkUp, MayIndicate, ConnOk, NimOk, PlacesOk, Inv
  <2>17. QueuesQuiet BY <1>0, <2>3, <2>5, <2>6 DEF QueuesQuiet, GattQuiet, MayIndicate, Inv
  <2>18. ConnGrows BY <1>0, <2>3, <2>4 DEF ConnGrows, MayIndicate, ConnOk, NimOk, Inv
  <2> QED BY <2>7, <2>8, <2>9, <2>10, <2>11, <2>12, <2>13, <2>14, <2>15, <2>16, <2>17, <2>18, DataKept DEF Inv,
      ProcInv, QueuesQuiet
<1> QED BY <1>0, <1>1, <1>2 DEF IndicateArm

LEMMA IndicateCallKeeps ==
  ASSUME Inv, IndicateCall
  PROVE  Inv' /\ QueuesQuiet
<1>0. ConnOk /\ IndOk /\ QueuesOk /\ ProcOk /\ NimOk /\ PlacesOk /\ UseOk
  BY TypesFlat DEF Inv
<1>1. CASE LinkUp /\ nim.ind = 0 /\ nim' = [nim EXCEPT !.ind = srv.ind.id] /\ Go("ind.wait") /\ UNCHANGED srv
  <2>1. fg.at = "ind.call"
    BY <1>1, <1>0 DEF At, Calls, IndicateCall, Inv
  <2>2. srv.ind.id \in Nat
    BY <1>1, <1>0 DEF IndOk, Inv
  <2>3. NimNow(nim.scan, nim.adv, nim.conn, nim.link, nim.links, nim.mtu, srv.ind.id, nim.proc)
    BY <1>1, <1>0, <2>2, NimInd DEF Types, IndicateCall, Inv
  <2>4. FgNow(fg.op, "ind.wait", fg.gen)
    BY <1>1, <1>0, <2>2, FgGoes DEF GattPhases, RadioPhases, Holding, Closing, Clearing, Types, IndicateCall, Inv
  <2>5. LinkUp /\ nim.ind = 0 BY <1>1
  <2>6. UNCHANGED <<conn, cb>>
    BY <1>1, <1>0 DEF IndicateCall, LeaveRadio, KeepGap, flags, stack
  <2>7. UNCHANGED <<srv, cli>>
    BY <1>1, <1>0 DEF IndicateCall, LeaveRadio, KeepGap, flags, stack
  <2>8. UNCHANGED <<roles, scan, adv, notices, heard, host, radio>>
    BY <1>1, <1>0 DEF IndicateCall, LeaveRadio, KeepGap, flags, stack
  <2>9. Types' BY <1>0, <2>1, <2>2, <2>3, <2>4, <2>5, <2>6, <2>7, <2>8 DEF Types, NimNow, FgNow, Inv
  <2>10. CallInv' BY <1>0, <2>1, <2>4 DEF CallInv, FgNow, Clearing, Inv
  <2>11. LinkInv' BY <1>0, <2>3, <2>5, <2>6, <2>8, NothingAsked DEF LinkInv, NimNow, LinkUp, ConnOk, NimOk, PlacesOk,
      Inv
  <2>12. PlaceInv' BY <1>0, <2>1, <2>2, <2>3, <2>4, <2>5, <2>6, <2>7, <2>8 DEF PlaceInv, NimNow, FgNow, LinkUp,
      Holding, Closing, Clearing, ConnOk, IndOk, NimOk, PlacesOk, Inv
  <2>13. SubInv' BY <1>0, <2>2, <2>6, <2>7 DEF SubInv, ConnOk, IndOk, ProcOk, Inv
  <2>14. IndInv' BY <1>0, <2>1, <2>2, <2>3, <2>4, <2>5, <2>6, <2>7, <2>8, NothingAsked DEF IndInv, NimNow, FgNow,
      LinkUp, ConnOk, IndOk, NimOk, PlacesOk, Inv
  <2>15. ProcA' BY <1>0, <2>3, <2>5, <2>6, <2>7, NothingAsked DEF ProcInv, ProcA, NimNow, LinkUp, ConnOk, ProcOk,
      NimOk, Inv
  <2>16. ProcB' BY <1>0, <2>1, <2>3, <2>4, <2>5, <2>6, <2>7, <2>8, NothingAsked DEF ProcInv, ProcB, NimNow, FgNow,
      LinkUp, ConnOk, ProcOk, NimOk, PlacesOk, Inv
  <2>17. ProcC' BY <1>0, <2>1, <2>3, <2>4, <2>5, <2>6, <2>7, <2>8, NothingAsked DEF ProcInv, ProcC, NimNow, FgNow,
      LinkUp, ConnOk, ProcOk, NimOk, PlacesOk, Inv
  <2>18. MtuInv' BY <1>0, <2>1, <2>3, <2>4, <2>5, <2>6, NothingAsked DEF MtuInv, NimNow, FgNow, LinkUp, ConnOk, NimOk,
      PlacesOk, Inv
  <2>19. QueuesQuiet BY <1>0, <2>2, <2>7, <2>8 DEF QueuesQuiet, GattQuiet, Inv
  <2>20. ConnGrows BY <1>0, <2>3, <2>5, <2>6 DEF ConnGrows, NimNow, LinkUp, ConnOk, NimOk, Inv
  <2> QED BY <2>9, <2>10, <2>11, <2>12, <2>13, <2>14, <2>15, <2>16, <2>17, <2>18, <2>19, <2>20, DataKept DEF Inv,
      ProcInv, QueuesQuiet
<1>2. CASE /\ srv' = IF srv.ind.gen = fg.gen THEN [srv EXCEPT !.ind.pending = FALSE] ELSE srv
           /\ Answer /\ UNCHANGED nim
  <2>1. fg.at = "ind.call"
    BY <1>2, <1>0 DEF At, Calls, IndicateCall, Inv
  <2>2. SrvNow(srv.sub, srv.q, srv.cur, srv'.ind) /\ IndKept(srv.ind.pending /\ srv.ind.gen # fg.gen)
    BY <1>2, <1>0, SrvIndRefused DEF Types, Inv
  <2>3. FgNow("none", "idle", 0)
    BY <1>2, <1>0, FgAnswers DEF IndicateCall, Inv
  <2>4. UNCHANGED <<conn, cb, nim>>
    BY <1>2, <1>0 DEF IndicateCall, LeaveRadio, KeepGap, flags, stack
  <2>5. UNCHANGED <<cli>>
    BY <1>2, <1>0 DEF IndicateCall, LeaveRadio, KeepGap, flags, stack
  <2>6. UNCHANGED <<roles, scan, adv, notices, heard, host, radio>>
    BY <1>2, <1>0 DEF IndicateCall, LeaveRadio, KeepGap, flags, stack
  <2>7. Types' BY <1>0, <2>1, <2>2, <2>3, <2>4, <2>5, <2>6 DEF Types, SrvNow, FgNow, IndKept, Inv
  <2>8. CallInv' BY <1>0, <2>1, <2>3 DEF CallInv, FgNow, Clearing, Inv
  <2>9. LinkInv' BY <1>0, <2>4, <2>6 DEF LinkInv, LinkUp, ConnOk, NimOk, PlacesOk, Inv
  <2>10. PlaceInv' BY <1>0, <2>1, <2>2, <2>3, <2>4, <2>6, Constants DEF PlaceInv, SrvNow, FgNow, Holding, Closing,
      Clearing, ConnOk, IndOk, NimOk, PlacesOk, Inv
  <2>11. SubInv' BY <1>0, <2>2, <2>4, <2>5, Constants, ClearedClient DEF SubInv, SrvNow, ConnOk, IndOk, ProcOk, Inv
  <2>12. IndInv' BY <1>0, <2>1, <2>2, <2>3, <2>4, <2>6 DEF IndInv, SrvNow, FgNow, IndKept, LinkUp, ConnOk, IndOk,
      NimOk, PlacesOk, Inv
  <2>13. ProcA' BY <1>0, <2>4, <2>5 DEF ProcInv, ProcA, ConnOk, ProcOk, NimOk, Inv
  <2>14. ProcB' BY <1>0, <2>1, <2>3, <2>4, <2>5, <2>6 DEF ProcInv, ProcB, FgNow, LinkUp, ConnOk, ProcOk, NimOk,
      PlacesOk, Inv
  <2>15. ProcC' BY <1>0, <2>1, <2>3, <2>4, <2>5, <2>6 DEF ProcInv, ProcC, FgNow, LinkUp, ConnOk, ProcOk, NimOk,
      PlacesOk, Inv
  <2>16. MtuInv' BY <1>0, <2>1, <2>3, <2>4 DEF MtuInv, FgNow, LinkUp, ConnOk, NimOk, PlacesOk, Inv
  <2>17. QueuesQuiet BY <1>0, <2>2, <2>5, <2>6 DEF QueuesQuiet, GattQuiet, SrvNow, Inv
  <2>18. ConnGrows BY <1>0, <2>4 DEF ConnGrows, ConnOk, NimOk, Inv
  <2> QED BY <2>7, <2>8, <2>9, <2>10, <2>11, <2>12, <2>13, <2>14, <2>15, <2>16, <2>17, <2>18, DataKept DEF Inv,
      ProcInv, QueuesQuiet
<1> QED BY <1>0, <1>1, <1>2 DEF IndicateCall

LEMMA IndicateWaitKeeps ==
  ASSUME Inv, IndicateWait
  PROVE  Inv' /\ QueuesQuiet
<1>0. ConnOk /\ IndOk /\ QueuesOk /\ ProcOk /\ NimOk /\ PlacesOk /\ UseOk
  BY TypesFlat DEF Inv
<1>1. fg.at = "ind.wait"
  BY <1>0 DEF At, Calls, IndicateWait, Inv
<1>2. FgNow("none", "idle", 0)
  BY <1>0, FgAnswers DEF IndicateWait, Inv
<1>3. UNCHANGED <<conn, cb, nim>>
  BY <1>0 DEF IndicateWait, LeaveRadio, flags, stack, bleVars, lvars
<1>4. UNCHANGED <<srv, cli>>
  BY <1>0 DEF IndicateWait, LeaveRadio, flags, stack, bleVars, lvars
<1>5. UNCHANGED <<roles, scan, adv, notices, heard, host, radio>>
  BY <1>0 DEF IndicateWait, LeaveRadio, flags, stack, bleVars, lvars
<1>6. Types' BY <1>0, <1>1, <1>2, <1>3, <1>4, <1>5 DEF Types, FgNow, Inv
<1>7. Aside BY <1>0, <1>1, <1>2, <1>3, <1>4, <1>5 DEF Aside, NimKept, CbAside, HostAside, CallAside, FgNow, LinkUp,
    Excused, Bound, Holding, Closing, Clearing, ConnOk, IndOk, ProcOk, NimOk, PlacesOk, Inv
<1>8. QueuesQuiet BY <1>0, <1>4, <1>5 DEF QueuesQuiet, GattQuiet, Inv
<1> QED BY <1>6, <1>7, <1>8, AsideKeeps

LEMMA AcknowledgedKeeps ==
  ASSUME Inv, Acknowledged
  PROVE  Inv' /\ QueuesQuiet
<1>0. ConnOk /\ IndOk /\ QueuesOk /\ ProcOk /\ NimOk /\ PlacesOk /\ UseOk
  BY TypesFlat DEF Inv
<1>1. CASE Current(nim.link.cb) /\ conn.role = "peripheral" /\ srv.ind.pending /\ srv.ind.gen = conn.gen
  <2>1. cb.kind = "none" /\ host = "running"
    BY <1>1, <1>0 DEF Callback, NoCb, Acknowledged, Inv
  <2>2. nim.ind # 0
    BY <1>1, <1>0 DEF Acknowledged, Inv
  <2>3. nim.ind \in Nat
    BY <1>1, <1>0 DEF NimOk, Inv
  <2>4. NimNow(nim.scan, nim.adv, nim.conn, nim.link, nim.links, nim.mtu, 0, nim.proc)
    BY <1>1, <1>0, <2>3, NimInd DEF Types, Acknowledged, Inv
  <2>5. SrvNow(srv.sub, srv.q, srv.cur, srv'.ind) /\ srv'.ind.id = srv.ind.id /\ srv'.ind.gen = srv.ind.gen
        /\ srv'.ind.answer = nim.ind /\ ~srv'.ind.pending
    BY <1>1, <1>0, <2>3, SrvIndAnswered DEF Types, Acknowledged, Inv
  <2>6. Current(nim.link.cb) /\ conn.role = "peripheral" /\ srv.ind.pending /\ srv.ind.gen = conn.gen BY <1>1
  <2>7. UNCHANGED <<fg, conn, cb>>
    BY <1>1, <1>0 DEF Acknowledged, Callback, flags, stack
  <2>8. UNCHANGED <<cli>>
    BY <1>1, <1>0 DEF Acknowledged, Callback, flags, stack
  <2>9. UNCHANGED <<roles, scan, adv, notices, heard, host, radio>>
    BY <1>1, <1>0 DEF Acknowledged, Callback, flags, stack
  <2>10. Types' BY <1>0, <2>1, <2>2, <2>3, <2>4, <2>5, <2>6, <2>7, <2>8, <2>9 DEF Types, SrvNow, NimNow, Inv
  <2>11. CallInv' BY <1>0, <2>7 DEF CallInv, Inv
  <2>12. LinkInv' BY <1>0, <2>1, <2>2, <2>3, <2>4, <2>6, <2>7, <2>9, NothingAsked DEF LinkInv, NimNow, LinkUp,
      Current, ConnOk, NimOk, PlacesOk, Inv
  <2>13. PlaceInv' BY <1>0, <2>2, <2>3, <2>4, <2>5, <2>6, <2>7, <2>9, Constants DEF PlaceInv, SrvNow, NimNow, Current,
      Holding, Closing, Clearing, ConnOk, IndOk, NimOk, PlacesOk, Inv
  <2>14. SubInv' BY <1>0, <2>5, <2>6, <2>7, <2>8, Constants, ClearedClient DEF SubInv, SrvNow, Current, ConnOk, IndOk,
      ProcOk, Inv
  <2>15. IndInv' BY <1>0, <2>1, <2>2, <2>3, <2>4, <2>5, <2>6, <2>7, <2>9, NothingAsked DEF IndInv, SrvNow, NimNow,
      LinkUp, Current, ConnOk, IndOk, NimOk, PlacesOk, Inv
  <2>16. ProcA' BY <1>0, <2>2, <2>3, <2>4, <2>6, <2>7, <2>8, NothingAsked DEF ProcInv, ProcA, NimNow, Current, ConnOk,
      ProcOk, NimOk, Inv
  <2>17. ProcB' BY <1>0, <2>1, <2>2, <2>3, <2>4, <2>6, <2>7, <2>8, <2>9, NothingAsked DEF ProcInv, ProcB, NimNow,
      LinkUp, Current, ConnOk, ProcOk, NimOk, PlacesOk, Inv
  <2>18. ProcC' BY <1>0, <2>1, <2>2, <2>3, <2>4, <2>6, <2>7, <2>8, <2>9, NothingAsked DEF ProcInv, ProcC, NimNow,
      LinkUp, Current, ConnOk, ProcOk, NimOk, PlacesOk, Inv
  <2>19. MtuInv' BY <1>0, <2>1, <2>2, <2>3, <2>4, <2>6, <2>7, NothingAsked DEF MtuInv, NimNow, LinkUp, Current,
      ConnOk, NimOk, PlacesOk, Inv
  <2>20. QueuesQuiet BY <1>0, <2>5, <2>6, <2>8, <2>9 DEF QueuesQuiet, GattQuiet, SrvNow, Current, Inv
  <2>21. ConnGrows BY <1>0, <2>2, <2>3, <2>4, <2>6, <2>7 DEF ConnGrows, NimNow, Current, ConnOk, NimOk, Inv
  <2> QED BY <2>10, <2>11, <2>12, <2>13, <2>14, <2>15, <2>16, <2>17, <2>18, <2>19, <2>20, <2>21, DataKept DEF Inv,
      ProcInv, QueuesQuiet
<1>2. CASE ~(Current(nim.link.cb) /\ conn.role = "peripheral" /\ srv.ind.pending /\ srv.ind.gen = conn.gen)
  <2>1. cb.kind = "none" /\ host = "running"
    BY <1>2, <1>0 DEF Callback, NoCb, Acknowledged, Inv
  <2>2. nim.ind # 0
    BY <1>2, <1>0 DEF Acknowledged, Inv
  <2>3. NimNow(nim.scan, nim.adv, nim.conn, nim.link, nim.links, nim.mtu, 0, nim.proc)
    BY <1>2, <1>0, NimInd DEF Types, Acknowledged, Inv
  <2>4. ~(Current(nim.link.cb) /\ conn.role = "peripheral" /\ srv.ind.pending /\ srv.ind.gen = conn.gen) BY <1>2
  <2>5. UNCHANGED <<fg, conn, cb>>
    BY <1>2, <1>0 DEF Acknowledged, Callback, flags, stack
  <2>6. UNCHANGED <<srv, cli>>
    BY <1>2, <1>0 DEF Acknowledged, Callback, flags, stack
  <2>7. UNCHANGED <<roles, scan, adv, notices, heard, host, radio>>
    BY <1>2, <1>0 DEF Acknowledged, Callback, flags, stack
  <2>8. Types' BY <1>0, <2>1, <2>2, <2>3, <2>4, <2>5, <2>6, <2>7 DEF Types, NimNow, Inv
  <2>9. CallInv' BY <1>0, <2>5 DEF CallInv, Inv
  <2>10. LinkInv' BY <1>0, <2>1, <2>2, <2>3, <2>4, <2>5, <2>7, NothingAsked DEF LinkInv, NimNow, LinkUp, Current,
      ConnOk, NimOk, PlacesOk, Inv
  <2>11. PlaceInv' BY <1>0, <2>2, <2>3, <2>4, <2>5, <2>6, <2>7 DEF PlaceInv, NimNow, Current, Holding, Closing,
      Clearing, ConnOk, IndOk, NimOk, PlacesOk, Inv
  <2>12. SubInv' BY <1>0, <2>4, <2>5, <2>6 DEF SubInv, Current, ConnOk, IndOk, ProcOk, Inv
  <2>13. IndInv' BY <1>0, <2>1, <2>2, <2>3, <2>4, <2>5, <2>6, <2>7, NothingAsked DEF IndInv, NimNow, LinkUp, Current,
      ConnOk, IndOk, NimOk, PlacesOk, LinkInv, PlaceInv, Holding, Closing, Clearing, Inv
  <2>14. ProcA' BY <1>0, <2>2, <2>3, <2>4, <2>5, <2>6, NothingAsked DEF ProcInv, ProcA, NimNow, Current, ConnOk,
      ProcOk, NimOk, Inv
  <2>15. ProcB' BY <1>0, <2>1, <2>2, <2>3, <2>4, <2>5, <2>6, <2>7, NothingAsked DEF ProcInv, ProcB, NimNow, LinkUp,
      Current, ConnOk, ProcOk, NimOk, PlacesOk, Inv
  <2>16. ProcC' BY <1>0, <2>1, <2>2, <2>3, <2>4, <2>5, <2>6, <2>7, NothingAsked DEF ProcInv, ProcC, NimNow, LinkUp,
      Current, ConnOk, ProcOk, NimOk, PlacesOk, Inv
  <2>17. MtuInv' BY <1>0, <2>1, <2>2, <2>3, <2>4, <2>5, NothingAsked DEF MtuInv, NimNow, LinkUp, Current, ConnOk,
      NimOk, PlacesOk, Inv
  <2>18. QueuesQuiet BY <1>0, <2>4, <2>6, <2>7 DEF QueuesQuiet, GattQuiet, Current, Inv
  <2>19. ConnGrows BY <1>0, <2>2, <2>3, <2>4, <2>5 DEF ConnGrows, NimNow, Current, ConnOk, NimOk, Inv
  <2> QED BY <2>8, <2>9, <2>10, <2>11, <2>12, <2>13, <2>14, <2>15, <2>16, <2>17, <2>18, <2>19, DataKept DEF Inv,
      ProcInv, QueuesQuiet
<1> QED BY <1>0, <1>1, <1>2 DEF Acknowledged

LEMMA FindKeeps ==
  ASSUME Inv, Find
  PROVE  Inv' /\ QueuesQuiet
<1>0. ConnOk /\ IndOk /\ QueuesOk /\ ProcOk /\ NimOk /\ PlacesOk /\ UseOk
  BY TypesFlat DEF Inv
<1>1. fg.at = "idle"
  BY <1>0 DEF At, Calls, Ask, Find, Inv
<1>2. conn.st = "LIVE" /\ conn.role = "central" /\ ~cli.proc.pending
  BY <1>0 DEF Ask, MayAsk, Find, Inv
<1>3. heard + 1 \in Nat /\ heard + 1 # 0
  BY <1>0 DEF UseOk, Inv
<1>4. heard' = heard + 1
  BY <1>0, <1>3 DEF Ask, Find, Inv
<1>5. conn.gen \in Nat
  BY <1>0, <1>3 DEF ConnOk, Inv
<1>6. CliNow(cli.entry, cli.q, cli.cur, cli'.proc)
      /\ ProcNow(TRUE, FALSE, FALSE, "service", conn.gen, heard + 1, cli'.proc.mode, 0)
  BY <1>0, <1>3, <1>5, CliAsked, ZenonT(30) DEF Types, Ask, NewProc, Stages, ClientModes, ProcNow, Find, Inv
<1>7. FgNow("client", "cli.call", conn.gen)
  BY <1>0, <1>3, <1>5, FgDoes DEF Ops, GattPhases, Holding, Ask, Find, Inv
<1>8. UNCHANGED <<conn, cb, nim>>
  BY <1>0 DEF Find, Ask, Calls, LeaveRadio, KeepGap, flags, stack
<1>9. UNCHANGED <<srv>>
  BY <1>0 DEF Find, Ask, Calls, LeaveRadio, KeepGap, flags, stack
<1>10. UNCHANGED <<roles, scan, adv, notices, host, radio>>
  BY <1>0 DEF Find, Ask, Calls, LeaveRadio, KeepGap, flags, stack
<1>11. Types' BY <1>0, <1>1, <1>2, <1>3, <1>4, <1>5, <1>6, <1>7, <1>8, <1>9, <1>10 DEF Types, CliNow, FgNow, ProcNow,
    Inv
<1>12. CallInv' BY <1>0, <1>1, <1>7 DEF CallInv, FgNow, Clearing, Inv
<1>13. LinkInv' BY <1>0, <1>2, <1>5, <1>8, <1>10 DEF LinkInv, LinkUp, ConnOk, NimOk, PlacesOk, Inv
<1>14. PlaceInv' BY <1>0, <1>1, <1>2, <1>5, <1>7, <1>8, <1>9, <1>10 DEF PlaceInv, FgNow, Holding, Closing, Clearing,
    ConnOk, IndOk, NimOk, PlacesOk, Inv
<1>15. SubInv' BY <1>0, <1>2, <1>5, <1>6, <1>8, <1>9, Constants, ClearedClient DEF SubInv, CliNow, ConnOk, IndOk,
    ProcOk, Inv
<1>16. IndInv' BY <1>0, <1>1, <1>2, <1>5, <1>7, <1>8, <1>9, <1>10 DEF IndInv, FgNow, LinkUp, ConnOk, IndOk, NimOk,
    PlacesOk, Inv
<1>17. ProcA' BY <1>0, <1>2, <1>5, <1>6, <1>8 DEF ProcInv, ProcA, CliNow, ProcNow, ConnOk, ProcOk, NimOk, Inv
<1>18. ProcB' BY <1>0, <1>1, <1>2, <1>5, <1>6, <1>7, <1>8, <1>10 DEF ProcInv, ProcB, CliNow, FgNow, ProcNow, LinkUp,
    ConnOk, ProcOk, NimOk, PlacesOk, LinkInv, PlaceInv, Holding, Closing, Clearing, Inv
<1>19. ProcC' BY <1>0, <1>1, <1>2, <1>5, <1>6, <1>7, <1>8, <1>10 DEF ProcInv, ProcC, CliNow, FgNow, ProcNow, LinkUp,
    ConnOk, ProcOk, NimOk, PlacesOk, LinkInv, PlaceInv, Holding, Closing, Clearing, Inv
<1>20. MtuInv' BY <1>0, <1>1, <1>2, <1>5, <1>7, <1>8 DEF MtuInv, FgNow, LinkUp, ConnOk, NimOk, PlacesOk, Inv
<1>21. QueuesQuiet BY <1>0, <1>2, <1>3, <1>4, <1>6, <1>9, <1>10 DEF QueuesQuiet, GattQuiet, CliNow, Inv
<1>22. ConnGrows BY <1>0, <1>2, <1>5, <1>8 DEF ConnGrows, ConnOk, NimOk, Inv
<1> QED BY <1>11, <1>12, <1>13, <1>14, <1>15, <1>16, <1>17, <1>18, <1>19, <1>20, <1>21, <1>22, DataKept DEF Inv,
    ProcInv, QueuesQuiet

LEMMA ReadKeeps ==
  ASSUME Inv, Read
  PROVE  Inv' /\ QueuesQuiet
<1>0. ConnOk /\ IndOk /\ QueuesOk /\ ProcOk /\ NimOk /\ PlacesOk /\ UseOk
  BY TypesFlat DEF Inv
<1>1. fg.at = "idle"
  BY <1>0 DEF At, Calls, Ask, Read, Inv
<1>2. conn.st = "LIVE" /\ conn.role = "central" /\ ~cli.proc.pending
  BY <1>0 DEF Ask, MayAsk, Read, Inv
<1>3. heard + 1 \in Nat /\ heard + 1 # 0
  BY <1>0 DEF UseOk, Inv
<1>4. heard' = heard + 1
  BY <1>0, <1>3 DEF Ask, Read, Inv
<1>5. conn.gen \in Nat
  BY <1>0, <1>3 DEF ConnOk, Inv
<1>6. CliNow(cli.entry, cli.q, cli.cur, cli'.proc)
      /\ ProcNow(TRUE, FALSE, FALSE, "read", conn.gen, heard + 1, cli'.proc.mode, 0)
  BY <1>0, <1>3, <1>5, CliAsked, ZenonT(30) DEF Types, Ask, NewProc, Stages, ClientModes, ProcNow, Read, Inv
<1>7. FgNow("client", "cli.call", conn.gen)
  BY <1>0, <1>3, <1>5, FgDoes DEF Ops, GattPhases, Holding, Ask, Read, Inv
<1>8. UNCHANGED <<conn, cb, nim>>
  BY <1>0 DEF Read, Ask, Calls, LeaveRadio, KeepGap, flags, stack
<1>9. UNCHANGED <<srv>>
  BY <1>0 DEF Read, Ask, Calls, LeaveRadio, KeepGap, flags, stack
<1>10. UNCHANGED <<roles, scan, adv, notices, host, radio>>
  BY <1>0 DEF Read, Ask, Calls, LeaveRadio, KeepGap, flags, stack
<1>11. Types' BY <1>0, <1>1, <1>2, <1>3, <1>4, <1>5, <1>6, <1>7, <1>8, <1>9, <1>10 DEF Types, CliNow, FgNow, ProcNow,
    Inv
<1>12. CallInv' BY <1>0, <1>1, <1>7 DEF CallInv, FgNow, Clearing, Inv
<1>13. LinkInv' BY <1>0, <1>2, <1>5, <1>8, <1>10 DEF LinkInv, LinkUp, ConnOk, NimOk, PlacesOk, Inv
<1>14. PlaceInv' BY <1>0, <1>1, <1>2, <1>5, <1>7, <1>8, <1>9, <1>10 DEF PlaceInv, FgNow, Holding, Closing, Clearing,
    ConnOk, IndOk, NimOk, PlacesOk, Inv
<1>15. SubInv' BY <1>0, <1>2, <1>5, <1>6, <1>8, <1>9, Constants, ClearedClient DEF SubInv, CliNow, ConnOk, IndOk,
    ProcOk, Inv
<1>16. IndInv' BY <1>0, <1>1, <1>2, <1>5, <1>7, <1>8, <1>9, <1>10 DEF IndInv, FgNow, LinkUp, ConnOk, IndOk, NimOk,
    PlacesOk, Inv
<1>17. ProcA' BY <1>0, <1>2, <1>5, <1>6, <1>8 DEF ProcInv, ProcA, CliNow, ProcNow, ConnOk, ProcOk, NimOk, Inv
<1>18. ProcB' BY <1>0, <1>1, <1>2, <1>5, <1>6, <1>7, <1>8, <1>10 DEF ProcInv, ProcB, CliNow, FgNow, ProcNow, LinkUp,
    ConnOk, ProcOk, NimOk, PlacesOk, LinkInv, PlaceInv, Holding, Closing, Clearing, Inv
<1>19. ProcC' BY <1>0, <1>1, <1>2, <1>5, <1>6, <1>7, <1>8, <1>10 DEF ProcInv, ProcC, CliNow, FgNow, ProcNow, LinkUp,
    ConnOk, ProcOk, NimOk, PlacesOk, LinkInv, PlaceInv, Holding, Closing, Clearing, Inv
<1>20. MtuInv' BY <1>0, <1>1, <1>2, <1>5, <1>7, <1>8 DEF MtuInv, FgNow, LinkUp, ConnOk, NimOk, PlacesOk, Inv
<1>21. QueuesQuiet BY <1>0, <1>2, <1>3, <1>4, <1>6, <1>9, <1>10 DEF QueuesQuiet, GattQuiet, CliNow, Inv
<1>22. ConnGrows BY <1>0, <1>2, <1>5, <1>8 DEF ConnGrows, ConnOk, NimOk, Inv
<1> QED BY <1>11, <1>12, <1>13, <1>14, <1>15, <1>16, <1>17, <1>18, <1>19, <1>20, <1>21, <1>22, DataKept DEF Inv,
    ProcInv, QueuesQuiet

LEMMA WriteKeeps ==
  ASSUME Inv, Write
  PROVE  Inv' /\ QueuesQuiet
<1>0. ConnOk /\ IndOk /\ QueuesOk /\ ProcOk /\ NimOk /\ PlacesOk /\ UseOk
  BY TypesFlat DEF Inv
<1>1. fg.at = "idle"
  BY <1>0 DEF At, Calls, Ask, Write, Inv
<1>2. conn.st = "LIVE" /\ conn.role = "central" /\ ~cli.proc.pending
  BY <1>0 DEF Ask, MayAsk, Write, Inv
<1>3. heard + 1 \in Nat /\ heard + 1 # 0
  BY <1>0 DEF UseOk, Inv
<1>4. heard' = heard + 1
  BY <1>0, <1>3 DEF Ask, Write, Inv
<1>5. conn.gen \in Nat
  BY <1>0, <1>3 DEF ConnOk, Inv
<1>6. CliNow(cli.entry, cli.q, cli.cur, cli'.proc)
      /\ ProcNow(TRUE, FALSE, FALSE, "write", conn.gen, heard + 1, cli'.proc.mode, 0)
  BY <1>0, <1>3, <1>5, CliAsked, ZenonT(30) DEF Types, Ask, NewProc, Stages, ClientModes, ProcNow, Write, Inv
<1>7. FgNow("client", "cli.call", conn.gen)
  BY <1>0, <1>3, <1>5, FgDoes DEF Ops, GattPhases, Holding, Ask, Write, Inv
<1>8. UNCHANGED <<conn, cb, nim>>
  BY <1>0 DEF Write, Ask, Calls, LeaveRadio, KeepGap, flags, stack
<1>9. UNCHANGED <<srv>>
  BY <1>0 DEF Write, Ask, Calls, LeaveRadio, KeepGap, flags, stack
<1>10. UNCHANGED <<roles, scan, adv, notices, host, radio>>
  BY <1>0 DEF Write, Ask, Calls, LeaveRadio, KeepGap, flags, stack
<1>11. Types' BY <1>0, <1>1, <1>2, <1>3, <1>4, <1>5, <1>6, <1>7, <1>8, <1>9, <1>10 DEF Types, CliNow, FgNow, ProcNow,
    Inv
<1>12. CallInv' BY <1>0, <1>1, <1>7 DEF CallInv, FgNow, Clearing, Inv
<1>13. LinkInv' BY <1>0, <1>2, <1>5, <1>8, <1>10 DEF LinkInv, LinkUp, ConnOk, NimOk, PlacesOk, Inv
<1>14. PlaceInv' BY <1>0, <1>1, <1>2, <1>5, <1>7, <1>8, <1>9, <1>10 DEF PlaceInv, FgNow, Holding, Closing, Clearing,
    ConnOk, IndOk, NimOk, PlacesOk, Inv
<1>15. SubInv' BY <1>0, <1>2, <1>5, <1>6, <1>8, <1>9, Constants, ClearedClient DEF SubInv, CliNow, ConnOk, IndOk,
    ProcOk, Inv
<1>16. IndInv' BY <1>0, <1>1, <1>2, <1>5, <1>7, <1>8, <1>9, <1>10 DEF IndInv, FgNow, LinkUp, ConnOk, IndOk, NimOk,
    PlacesOk, Inv
<1>17. ProcA' BY <1>0, <1>2, <1>5, <1>6, <1>8 DEF ProcInv, ProcA, CliNow, ProcNow, ConnOk, ProcOk, NimOk, Inv
<1>18. ProcB' BY <1>0, <1>1, <1>2, <1>5, <1>6, <1>7, <1>8, <1>10 DEF ProcInv, ProcB, CliNow, FgNow, ProcNow, LinkUp,
    ConnOk, ProcOk, NimOk, PlacesOk, LinkInv, PlaceInv, Holding, Closing, Clearing, Inv
<1>19. ProcC' BY <1>0, <1>1, <1>2, <1>5, <1>6, <1>7, <1>8, <1>10 DEF ProcInv, ProcC, CliNow, FgNow, ProcNow, LinkUp,
    ConnOk, ProcOk, NimOk, PlacesOk, LinkInv, PlaceInv, Holding, Closing, Clearing, Inv
<1>20. MtuInv' BY <1>0, <1>1, <1>2, <1>5, <1>7, <1>8 DEF MtuInv, FgNow, LinkUp, ConnOk, NimOk, PlacesOk, Inv
<1>21. QueuesQuiet BY <1>0, <1>2, <1>3, <1>4, <1>6, <1>9, <1>10 DEF QueuesQuiet, GattQuiet, CliNow, Inv
<1>22. ConnGrows BY <1>0, <1>2, <1>5, <1>8 DEF ConnGrows, ConnOk, NimOk, Inv
<1> QED BY <1>11, <1>12, <1>13, <1>14, <1>15, <1>16, <1>17, <1>18, <1>19, <1>20, <1>21, <1>22, DataKept DEF Inv,
    ProcInv, QueuesQuiet

LEMMA SubscribeKeeps ==
  ASSUME Inv, Subscribe
  PROVE  Inv' /\ QueuesQuiet
<1>0. ConnOk /\ IndOk /\ QueuesOk /\ ProcOk /\ NimOk /\ PlacesOk /\ UseOk
  BY TypesFlat DEF Inv
<1>1. fg.at = "idle"
  BY <1>0 DEF At, Calls, Ask, Subscribe, Inv
<1>2. conn.st = "LIVE" /\ conn.role = "central" /\ ~cli.proc.pending
  BY <1>0 DEF Ask, MayAsk, Subscribe, Inv
<1>3. heard + 1 \in Nat /\ heard + 1 # 0
  BY <1>0 DEF UseOk, Inv
<1>4. heard' = heard + 1
  BY <1>0, <1>3 DEF Ask, Subscribe, Inv
<1>5. conn.gen \in Nat
  BY <1>0, <1>3 DEF ConnOk, Inv
<1>6. CliNow(cli.entry, cli.q, cli.cur, cli'.proc)
      /\ ProcNow(TRUE, FALSE, FALSE, "subscribe", conn.gen, heard + 1, cli'.proc.mode, 0)
  BY <1>0, <1>3, <1>5, SubscribeAsks DEF Types, Subscribe, Inv
<1>7. FgNow("client", "cli.call", conn.gen)
  BY <1>0, <1>3, <1>5, FgDoes DEF Ops, GattPhases, Holding, Ask, Subscribe, Inv
<1>8. UNCHANGED <<conn, cb, nim>>
  BY <1>0 DEF Subscribe, Ask, Calls, LeaveRadio, KeepGap, flags, stack
<1>9. UNCHANGED <<srv>>
  BY <1>0 DEF Subscribe, Ask, Calls, LeaveRadio, KeepGap, flags, stack
<1>10. UNCHANGED <<roles, scan, adv, notices, host, radio>>
  BY <1>0 DEF Subscribe, Ask, Calls, LeaveRadio, KeepGap, flags, stack
<1>11. Types' BY <1>0, <1>1, <1>2, <1>3, <1>4, <1>5, <1>6, <1>7, <1>8, <1>9, <1>10 DEF Types, CliNow, FgNow, ProcNow,
    Inv
<1>12. CallInv' BY <1>0, <1>1, <1>7 DEF CallInv, FgNow, Clearing, Inv
<1>13. LinkInv' BY <1>0, <1>2, <1>5, <1>8, <1>10 DEF LinkInv, LinkUp, ConnOk, NimOk, PlacesOk, Inv
<1>14. PlaceInv' BY <1>0, <1>1, <1>2, <1>5, <1>7, <1>8, <1>9, <1>10 DEF PlaceInv, FgNow, Holding, Closing, Clearing,
    ConnOk, IndOk, NimOk, PlacesOk, Inv
<1>15. SubInv' BY <1>0, <1>2, <1>5, <1>6, <1>8, <1>9, Constants, ClearedClient DEF SubInv, CliNow, ConnOk, IndOk,
    ProcOk, Inv
<1>16. IndInv' BY <1>0, <1>1, <1>2, <1>5, <1>7, <1>8, <1>9, <1>10 DEF IndInv, FgNow, LinkUp, ConnOk, IndOk, NimOk,
    PlacesOk, Inv
<1>17. ProcA' BY <1>0, <1>2, <1>5, <1>6, <1>8 DEF ProcInv, ProcA, CliNow, ProcNow, ConnOk, ProcOk, NimOk, Inv
<1>18. ProcB' BY <1>0, <1>1, <1>2, <1>5, <1>6, <1>7, <1>8, <1>10 DEF ProcInv, ProcB, CliNow, FgNow, ProcNow, LinkUp,
    ConnOk, ProcOk, NimOk, PlacesOk, LinkInv, PlaceInv, Holding, Closing, Clearing, Inv
<1>19. ProcC' BY <1>0, <1>1, <1>2, <1>5, <1>6, <1>7, <1>8, <1>10 DEF ProcInv, ProcC, CliNow, FgNow, ProcNow, LinkUp,
    ConnOk, ProcOk, NimOk, PlacesOk, LinkInv, PlaceInv, Holding, Closing, Clearing, Inv
<1>20. MtuInv' BY <1>0, <1>1, <1>2, <1>5, <1>7, <1>8 DEF MtuInv, FgNow, LinkUp, ConnOk, NimOk, PlacesOk, Inv
<1>21. QueuesQuiet BY <1>0, <1>2, <1>3, <1>4, <1>6, <1>9, <1>10 DEF QueuesQuiet, GattQuiet, CliNow, Inv
<1>22. ConnGrows BY <1>0, <1>2, <1>5, <1>8 DEF ConnGrows, ConnOk, NimOk, Inv
<1> QED BY <1>11, <1>12, <1>13, <1>14, <1>15, <1>16, <1>17, <1>18, <1>19, <1>20, <1>21, <1>22, DataKept DEF Inv,
    ProcInv, QueuesQuiet

LEMMA ClientCallKeeps ==
  ASSUME Inv, ClientCall
  PROVE  Inv' /\ QueuesQuiet
<1>0. ConnOk /\ IndOk /\ QueuesOk /\ ProcOk /\ NimOk /\ PlacesOk /\ UseOk
  BY TypesFlat DEF Inv
<1>1. CASE /\ LinkUp /\ nim.proc = NoProc
           /\ nim' = [nim EXCEPT !.proc = [gen |-> fg.gen, stage |-> cli.proc.stage, id |-> cli.proc.id]]
           /\ UNCHANGED cli
  <2>1. fg.at = "cli.call"
    BY <1>1, <1>0 DEF At, Calls, ClientCall, Inv
  <2>2. FgNow(fg.op, "cli.wait", fg.gen)
    BY <1>1, <1>0, FgGoes DEF GattPhases, RadioPhases, Holding, Closing, Clearing, Types, ClientCall, Inv
  <2>3. [gen |-> fg.gen, stage |-> cli.proc.stage, id |-> cli.proc.id] \in AskedT
    BY <1>1, <1>0 DEF AskedT, ProcOk, PlacesOk, Inv
  <2>4. NimNow(nim.scan, nim.adv, nim.conn, nim.link, nim.links, nim.mtu, nim.ind, [gen |-> fg.gen,
      stage |-> cli.proc.stage, id |-> cli.proc.id])
    BY <1>1, <1>0, <2>3, NimProc DEF Types, ClientCall, Inv
  <2>5. nim'.proc.gen = fg.gen /\ nim'.proc.stage = cli.proc.stage /\ nim'.proc.id = cli.proc.id
    BY <1>1, <1>0, <2>3, <2>4 DEF NimNow, Inv
  <2>6. LinkUp /\ nim.proc = NoProc BY <1>1
  <2>7. UNCHANGED <<conn, cb>>
    BY <1>1, <1>0 DEF ClientCall, LeaveRadio, KeepGap, flags, stack
  <2>8. UNCHANGED <<srv, cli>>
    BY <1>1, <1>0 DEF ClientCall, LeaveRadio, KeepGap, flags, stack
  <2>9. UNCHANGED <<roles, scan, adv, notices, heard, host, radio>>
    BY <1>1, <1>0 DEF ClientCall, LeaveRadio, KeepGap, flags, stack
  <2>10. Types' BY <1>0, <2>1, <2>2, <2>3, <2>4, <2>5, <2>6, <2>7, <2>8, <2>9 DEF Types, NimNow, FgNow, Inv
  <2>11. CallInv' BY <1>0, <2>1, <2>2, <2>3, <2>5 DEF CallInv, FgNow, Clearing, Inv
  <2>12. LinkInv' BY <1>0, <2>4, <2>5, <2>6, <2>7, <2>9, NothingAsked DEF LinkInv, NimNow, LinkUp, ConnOk, NimOk,
      PlacesOk, Inv
  <2>13. PlaceInv' BY <1>0, <2>1, <2>2, <2>3, <2>4, <2>5, <2>6, <2>7, <2>8, <2>9 DEF PlaceInv, NimNow, FgNow, LinkUp,
      Holding, Closing, Clearing, ConnOk, IndOk, NimOk, PlacesOk, Inv
  <2>14. SubInv' BY <1>0, <2>1, <2>3, <2>5, <2>7, <2>8 DEF SubInv, ConnOk, IndOk, ProcOk, Inv
  <2>15. IndInv' BY <1>0, <2>1, <2>2, <2>3, <2>4, <2>5, <2>6, <2>7, <2>8, <2>9, NothingAsked DEF IndInv, NimNow,
      FgNow, LinkUp, ConnOk, IndOk, NimOk, PlacesOk, Inv
  <2>16. ProcA' BY <1>0, <2>1, <2>3, <2>4, <2>5, <2>6, <2>7, <2>8, NothingAsked DEF ProcInv, ProcA, NimNow, LinkUp,
      ConnOk, ProcOk, NimOk, LinkInv, SubInv, PlaceInv, Holding, Closing, Clearing, ProcB, ProcC, IndInv, PlacesOk,
      IndOk, ConnStates, ConnRoles, Inv
  <2>17. ProcB' BY <1>0, <2>1, <2>2, <2>3, <2>4, <2>5, <2>6, <2>7, <2>8, <2>9, NothingAsked DEF ProcInv, ProcB,
      NimNow, FgNow, LinkUp, ConnOk, ProcOk, NimOk, PlacesOk, LinkInv, PlaceInv, Holding, Closing, Clearing, Inv
  <2>18. ProcC' BY <1>0, <2>1, <2>2, <2>3, <2>4, <2>5, <2>6, <2>7, <2>8, <2>9, NothingAsked DEF ProcInv, ProcC,
      NimNow, FgNow, LinkUp, ConnOk, ProcOk, NimOk, PlacesOk, Inv
  <2>19. MtuInv' BY <1>0, <2>1, <2>2, <2>3, <2>4, <2>5, <2>6, <2>7, NothingAsked DEF MtuInv, NimNow, FgNow, LinkUp,
      ConnOk, NimOk, PlacesOk, Inv
  <2>20. QueuesQuiet BY <1>0, <2>1, <2>3, <2>5, <2>8, <2>9 DEF QueuesQuiet, GattQuiet, Inv
  <2>21. ConnGrows BY <1>0, <2>4, <2>5, <2>6, <2>7 DEF ConnGrows, NimNow, LinkUp, ConnOk, NimOk, Inv
  <2> QED BY <2>10, <2>11, <2>12, <2>13, <2>14, <2>15, <2>16, <2>17, <2>18, <2>19, <2>20, <2>21, DataKept DEF Inv,
      ProcInv, QueuesQuiet
<1>2. CASE Mine(fg.gen, cli.proc.stage) /\ cli' = Finished(0) /\ UNCHANGED nim
  <2>1. fg.at = "cli.call"
    BY <1>2, <1>0 DEF At, Calls, ClientCall, Inv
  <2>2. FgNow(fg.op, "cli.wait", fg.gen)
    BY <1>2, <1>0, FgGoes DEF GattPhases, RadioPhases, Holding, Closing, Clearing, Types, ClientCall, Inv
  <2>3. CliNow(cli.entry, cli.q, cli.cur, cli'.proc)
        /\ ProcNow(FALSE, cli.proc.abandoned, cli.proc.complete, cli.proc.stage, cli.proc.gen, cli.proc.id,
             cli.proc.mode, 0)
    BY <1>2, <1>0, CliFinished DEF Types, ProcOk, NimOk, ClientCall, Inv
  <2>4. Mine(fg.gen, cli.proc.stage) BY <1>2
  <2>5. UNCHANGED <<nim, conn, cb>>
    BY <1>2, <1>0 DEF ClientCall, LeaveRadio, KeepGap, flags, stack
  <2>6. UNCHANGED <<srv>>
    BY <1>2, <1>0 DEF ClientCall, LeaveRadio, KeepGap, flags, stack
  <2>7. UNCHANGED <<roles, scan, adv, notices, heard, host, radio>>
    BY <1>2, <1>0 DEF ClientCall, LeaveRadio, KeepGap, flags, stack
  <2>8. Types' BY <1>0, <2>1, <2>2, <2>3, <2>4, <2>5, <2>6, <2>7 DEF Types, CliNow, FgNow, ProcNow, Inv
  <2>9. CallInv' BY <1>0, <2>1, <2>2, <2>4 DEF CallInv, FgNow, Mine, Clearing, Inv
  <2>10. LinkInv' BY <1>0, <2>5, <2>7 DEF LinkInv, LinkUp, ConnOk, NimOk, PlacesOk, Inv
  <2>11. PlaceInv' BY <1>0, <2>1, <2>2, <2>4, <2>5, <2>6, <2>7 DEF PlaceInv, FgNow, Mine, Holding, Closing, Clearing,
      ConnOk, IndOk, NimOk, PlacesOk, Inv
  <2>12. SubInv' BY <1>0, <2>1, <2>3, <2>4, <2>5, <2>6, Constants, ClearedClient DEF SubInv, CliNow, Mine, ConnOk,
      IndOk, ProcOk, Inv
  <2>13. IndInv' BY <1>0, <2>1, <2>2, <2>4, <2>5, <2>6, <2>7 DEF IndInv, FgNow, LinkUp, Mine, ConnOk, IndOk, NimOk,
      PlacesOk, Inv
  <2>14. ProcA' BY <1>0, <2>1, <2>3, <2>4, <2>5 DEF ProcInv, ProcA, CliNow, ProcNow, Mine, ConnOk, ProcOk, NimOk, Inv
  <2>15. ProcB' BY <1>0, <2>1, <2>2, <2>3, <2>4, <2>5, <2>7 DEF ProcInv, ProcB, CliNow, FgNow, ProcNow, LinkUp, Mine,
      ConnOk, ProcOk, NimOk, PlacesOk, Inv
  <2>16. ProcC' BY <1>0, <2>1, <2>2, <2>3, <2>4, <2>5, <2>7 DEF ProcInv, ProcC, CliNow, FgNow, ProcNow, LinkUp, Mine,
      ConnOk, ProcOk, NimOk, PlacesOk, Inv
  <2>17. MtuInv' BY <1>0, <2>1, <2>2, <2>4, <2>5 DEF MtuInv, FgNow, LinkUp, Mine, ConnOk, NimOk, PlacesOk, Inv
  <2>18. QueuesQuiet BY <1>0, <2>1, <2>3, <2>4, <2>6, <2>7 DEF QueuesQuiet, GattQuiet, CliNow, Mine, Inv
  <2>19. ConnGrows BY <1>0, <2>5 DEF ConnGrows, ConnOk, NimOk, Inv
  <2> QED BY <2>8, <2>9, <2>10, <2>11, <2>12, <2>13, <2>14, <2>15, <2>16, <2>17, <2>18, <2>19, DataKept DEF Inv,
      ProcInv, QueuesQuiet
<1>3. CASE ~Mine(fg.gen, cli.proc.stage) /\ cli' = cli /\ UNCHANGED nim
  <2>1. fg.at = "cli.call"
    BY <1>3, <1>0 DEF At, Calls, ClientCall, Inv
  <2>2. FgNow(fg.op, "cli.wait", fg.gen)
    BY <1>3, <1>0, FgGoes DEF GattPhases, RadioPhases, Holding, Closing, Clearing, Types, ClientCall, Inv
  <2>3. ~Mine(fg.gen, cli.proc.stage) BY <1>3
  <2>4. UNCHANGED <<nim, conn, cb>>
    BY <1>3, <1>0 DEF ClientCall, LeaveRadio, KeepGap, flags, stack
  <2>5. UNCHANGED <<srv, cli>>
    BY <1>3, <1>0 DEF ClientCall, LeaveRadio, KeepGap, flags, stack
  <2>6. UNCHANGED <<roles, scan, adv, notices, heard, host, radio>>
    BY <1>3, <1>0 DEF ClientCall, LeaveRadio, KeepGap, flags, stack
  <2>7. Types' BY <1>0, <2>1, <2>2, <2>3, <2>4, <2>5, <2>6 DEF Types, FgNow, Inv
  <2>8. CallInv' BY <1>0, <2>1, <2>2, <2>3 DEF CallInv, FgNow, Mine, Clearing, Inv
  <2>9. LinkInv' BY <1>0, <2>4, <2>6 DEF LinkInv, LinkUp, ConnOk, NimOk, PlacesOk, Inv
  <2>10. PlaceInv' BY <1>0, <2>1, <2>2, <2>3, <2>4, <2>5, <2>6 DEF PlaceInv, FgNow, Mine, Holding, Closing, Clearing,
      ConnOk, IndOk, NimOk, PlacesOk, Inv
  <2>11. SubInv' BY <1>0, <2>1, <2>3, <2>4, <2>5 DEF SubInv, Mine, ConnOk, IndOk, ProcOk, Inv
  <2>12. IndInv' BY <1>0, <2>1, <2>2, <2>3, <2>4, <2>5, <2>6 DEF IndInv, FgNow, LinkUp, Mine, ConnOk, IndOk, NimOk,
      PlacesOk, Inv
  <2>13. ProcA' BY <1>0, <2>1, <2>3, <2>4, <2>5 DEF ProcInv, ProcA, Mine, ConnOk, ProcOk, NimOk, Inv
  <2>14. ProcB' BY <1>0, <2>1, <2>2, <2>3, <2>4, <2>5, <2>6 DEF ProcInv, ProcB, FgNow, LinkUp, Mine, ConnOk, ProcOk,
      NimOk, PlacesOk, Inv
  <2>15. ProcC' BY <1>0, <2>1, <2>2, <2>3, <2>4, <2>5, <2>6 DEF ProcInv, ProcC, FgNow, LinkUp, Mine, ConnOk, ProcOk,
      NimOk, PlacesOk, LinkInv, PlaceInv, Holding, Closing, Clearing, Inv
  <2>16. MtuInv' BY <1>0, <2>1, <2>2, <2>3, <2>4 DEF MtuInv, FgNow, LinkUp, Mine, ConnOk, NimOk, PlacesOk, Inv
  <2>17. QueuesQuiet BY <1>0, <2>1, <2>3, <2>5, <2>6 DEF QueuesQuiet, GattQuiet, Mine, Inv
  <2>18. ConnGrows BY <1>0, <2>4 DEF ConnGrows, ConnOk, NimOk, Inv
  <2> QED BY <2>7, <2>8, <2>9, <2>10, <2>11, <2>12, <2>13, <2>14, <2>15, <2>16, <2>17, <2>18, DataKept DEF Inv,
      ProcInv, QueuesQuiet
<1> QED BY <1>0, <1>1, <1>2, <1>3 DEF ClientCall

LEMMA ClientWaitKeeps ==
  ASSUME Inv, ClientWait
  PROVE  Inv' /\ QueuesQuiet
<1>0. ConnOk /\ IndOk /\ QueuesOk /\ ProcOk /\ NimOk /\ PlacesOk /\ UseOk
  BY TypesFlat DEF Inv
<1>1. CASE (~ClientIs \/ ~cli.proc.pending) /\ Answer
  <2>1. fg.at = "cli.wait"
    BY <1>1, <1>0 DEF At, Calls, ClientWait, Inv
  <2>2. FgNow("none", "idle", 0)
    BY <1>1, <1>0, FgAnswers DEF ClientWait, Inv
  <2>3. (~ClientIs \/ ~cli.proc.pending) BY <1>1
  <2>4. UNCHANGED <<nim, conn, cb>>
    BY <1>1, <1>0 DEF ClientWait, LeaveRadio, flags, stack, bleVars, lvars
  <2>5. UNCHANGED <<srv, cli>>
    BY <1>1, <1>0 DEF ClientWait, LeaveRadio, flags, stack, bleVars, lvars
  <2>6. UNCHANGED <<roles, scan, adv, notices, heard, host, radio>>
    BY <1>1, <1>0 DEF ClientWait, LeaveRadio, flags, stack, bleVars, lvars
  <2>7. Types' BY <1>0, <2>1, <2>2, <2>3, <2>4, <2>5, <2>6 DEF Types, FgNow, Inv
  <2>8. CallInv' BY <1>0, <2>1, <2>2 DEF CallInv, FgNow, Clearing, Inv
  <2>9. LinkInv' BY <1>0, <2>4, <2>6 DEF LinkInv, LinkUp, ConnOk, NimOk, PlacesOk, Inv
  <2>10. PlaceInv' BY <1>0, <2>1, <2>2, <2>4, <2>5, <2>6 DEF PlaceInv, FgNow, Holding, Closing, Clearing, ConnOk,
      IndOk, NimOk, PlacesOk, Inv
  <2>11. SubInv' BY <1>0, <2>1, <2>3, <2>4, <2>5 DEF SubInv, ClientIs, ConnOk, IndOk, ProcOk, Inv
  <2>12. IndInv' BY <1>0, <2>1, <2>2, <2>4, <2>5, <2>6 DEF IndInv, FgNow, LinkUp, ConnOk, IndOk, NimOk, PlacesOk, Inv
  <2>13. ProcA' BY <1>0, <2>1, <2>3, <2>4, <2>5 DEF ProcInv, ProcA, ClientIs, ConnOk, ProcOk, NimOk, Inv
  <2>14. ProcB' BY <1>0, <2>1, <2>2, <2>3, <2>4, <2>5, <2>6 DEF ProcInv, ProcB, FgNow, LinkUp, ClientIs, ConnOk,
      ProcOk, NimOk, PlacesOk, Inv
  <2>15. ProcC' BY <1>0, <2>1, <2>2, <2>3, <2>4, <2>5, <2>6 DEF ProcInv, ProcC, FgNow, LinkUp, ClientIs, ConnOk,
      ProcOk, NimOk, PlacesOk, LinkInv, PlaceInv, Holding, Closing, Clearing, Inv
  <2>16. MtuInv' BY <1>0, <2>1, <2>2, <2>4 DEF MtuInv, FgNow, LinkUp, ConnOk, NimOk, PlacesOk, Inv
  <2>17. QueuesQuiet BY <1>0, <2>1, <2>3, <2>5, <2>6 DEF QueuesQuiet, GattQuiet, ClientIs, Inv
  <2>18. ConnGrows BY <1>0, <2>4 DEF ConnGrows, ConnOk, NimOk, Inv
  <2> QED BY <2>7, <2>8, <2>9, <2>10, <2>11, <2>12, <2>13, <2>14, <2>15, <2>16, <2>17, <2>18, DataKept DEF Inv,
      ProcInv, QueuesQuiet
<1>2. CASE ClientIs /\ cli.proc.pending /\ StageOver /\ Go("cli.next")
  <2>1. fg.at = "cli.wait"
    BY <1>2, <1>0 DEF At, Calls, ClientWait, Inv
  <2>2. FgNow(fg.op, "cli.next", fg.gen)
    BY <1>2, <1>0, FgGoes DEF GattPhases, RadioPhases, Holding, Closing, Clearing, Types, ClientWait, Inv
  <2>3. cli.proc.complete
    BY <1>2, <1>0 DEF StageOver, Inv
  <2>4. ClientIs /\ cli.proc.pending /\ StageOver BY <1>2
  <2>5. UNCHANGED <<nim, conn, cb>>
    BY <1>2, <1>0 DEF ClientWait, LeaveRadio, flags, stack, bleVars, lvars
  <2>6. UNCHANGED <<srv, cli>>
    BY <1>2, <1>0 DEF ClientWait, LeaveRadio, flags, stack, bleVars, lvars
  <2>7. UNCHANGED <<roles, scan, adv, notices, heard, host, radio>>
    BY <1>2, <1>0 DEF ClientWait, LeaveRadio, flags, stack, bleVars, lvars
  <2>8. Types' BY <1>0, <2>1, <2>2, <2>3, <2>4, <2>5, <2>6, <2>7 DEF Types, FgNow, Inv
  <2>9. CallInv' BY <1>0, <2>1, <2>2 DEF CallInv, FgNow, Clearing, Inv
  <2>10. LinkInv' BY <1>0, <2>5, <2>7 DEF LinkInv, LinkUp, ConnOk, NimOk, PlacesOk, Inv
  <2>11. PlaceInv' BY <1>0, <2>1, <2>2, <2>5, <2>6, <2>7 DEF PlaceInv, FgNow, Holding, Closing, Clearing, ConnOk,
      IndOk, NimOk, PlacesOk, Inv
  <2>12. SubInv' BY <1>0, <2>1, <2>3, <2>4, <2>5, <2>6 DEF SubInv, StageOver, ClientIs, ConnOk, IndOk, ProcOk, Inv
  <2>13. IndInv' BY <1>0, <2>1, <2>2, <2>5, <2>6, <2>7 DEF IndInv, FgNow, LinkUp, ConnOk, IndOk, NimOk, PlacesOk, Inv
  <2>14. ProcA' BY <1>0, <2>1, <2>3, <2>4, <2>5, <2>6 DEF ProcInv, ProcA, StageOver, ClientIs, ConnOk, ProcOk, NimOk,
      Inv
  <2>15. ProcB' BY <1>0, <2>1, <2>2, <2>3, <2>4, <2>5, <2>6, <2>7 DEF ProcInv, ProcB, FgNow, LinkUp, StageOver,
      ClientIs, ConnOk, ProcOk, NimOk, PlacesOk, Inv
  <2>16. ProcC' BY <1>0, <2>1, <2>2, <2>3, <2>4, <2>5, <2>6, <2>7 DEF ProcInv, ProcC, FgNow, LinkUp, StageOver,
      ClientIs, ConnOk, ProcOk, NimOk, PlacesOk, Inv
  <2>17. MtuInv' BY <1>0, <2>1, <2>2, <2>5 DEF MtuInv, FgNow, LinkUp, ConnOk, NimOk, PlacesOk, Inv
  <2>18. QueuesQuiet BY <1>0, <2>1, <2>3, <2>4, <2>6, <2>7 DEF QueuesQuiet, GattQuiet, StageOver, ClientIs, Inv
  <2>19. ConnGrows BY <1>0, <2>5 DEF ConnGrows, ConnOk, NimOk, Inv
  <2> QED BY <2>8, <2>9, <2>10, <2>11, <2>12, <2>13, <2>14, <2>15, <2>16, <2>17, <2>18, <2>19, DataKept DEF Inv,
      ProcInv, QueuesQuiet
<1>3. CASE ClientIs /\ cli.proc.pending /\ ~StageOver /\ Go("cli.abandon")
  <2>1. fg.at = "cli.wait"
    BY <1>3, <1>0 DEF At, Calls, ClientWait, Inv
  <2>2. FgNow(fg.op, "cli.abandon", fg.gen)
    BY <1>3, <1>0, FgGoes DEF GattPhases, RadioPhases, Holding, Closing, Clearing, Types, ClientWait, Inv
  <2>3. ClientIs /\ cli.proc.pending /\ ~StageOver BY <1>3
  <2>4. UNCHANGED <<nim, conn, cb>>
    BY <1>3, <1>0 DEF ClientWait, LeaveRadio, flags, stack, bleVars, lvars
  <2>5. UNCHANGED <<srv, cli>>
    BY <1>3, <1>0 DEF ClientWait, LeaveRadio, flags, stack, bleVars, lvars
  <2>6. UNCHANGED <<roles, scan, adv, notices, heard, host, radio>>
    BY <1>3, <1>0 DEF ClientWait, LeaveRadio, flags, stack, bleVars, lvars
  <2>7. Types' BY <1>0, <2>1, <2>2, <2>3, <2>4, <2>5, <2>6 DEF Types, FgNow, Inv
  <2>8. CallInv' BY <1>0, <2>1, <2>2 DEF CallInv, FgNow, Clearing, Inv
  <2>9. LinkInv' BY <1>0, <2>4, <2>6 DEF LinkInv, LinkUp, ConnOk, NimOk, PlacesOk, Inv
  <2>10. PlaceInv' BY <1>0, <2>1, <2>2, <2>4, <2>5, <2>6 DEF PlaceInv, FgNow, Holding, Closing, Clearing, ConnOk,
      IndOk, NimOk, PlacesOk, Inv
  <2>11. SubInv' BY <1>0, <2>1, <2>3, <2>4, <2>5 DEF SubInv, StageOver, ClientIs, ConnOk, IndOk, ProcOk, Inv
  <2>12. IndInv' BY <1>0, <2>1, <2>2, <2>4, <2>5, <2>6 DEF IndInv, FgNow, LinkUp, ConnOk, IndOk, NimOk, PlacesOk, Inv
  <2>13. ProcA' BY <1>0, <2>1, <2>3, <2>4, <2>5 DEF ProcInv, ProcA, StageOver, ClientIs, ConnOk, ProcOk, NimOk, Inv
  <2>14. ProcB' BY <1>0, <2>1, <2>2, <2>3, <2>4, <2>5, <2>6 DEF ProcInv, ProcB, FgNow, LinkUp, StageOver, ClientIs,
      ConnOk, ProcOk, NimOk, PlacesOk, Inv
  <2>15. ProcC' BY <1>0, <2>1, <2>2, <2>3, <2>4, <2>5, <2>6 DEF ProcInv, ProcC, FgNow, LinkUp, StageOver, ClientIs,
      ConnOk, ProcOk, NimOk, PlacesOk, Inv
  <2>16. MtuInv' BY <1>0, <2>1, <2>2, <2>4 DEF MtuInv, FgNow, LinkUp, ConnOk, NimOk, PlacesOk, Inv
  <2>17. QueuesQuiet BY <1>0, <2>1, <2>3, <2>5, <2>6 DEF QueuesQuiet, GattQuiet, StageOver, ClientIs, Inv
  <2>18. ConnGrows BY <1>0, <2>4 DEF ConnGrows, ConnOk, NimOk, Inv
  <2> QED BY <2>7, <2>8, <2>9, <2>10, <2>11, <2>12, <2>13, <2>14, <2>15, <2>16, <2>17, <2>18, DataKept DEF Inv,
      ProcInv, QueuesQuiet
<1> QED BY <1>0, <1>1, <1>2, <1>3 DEF ClientWait

LEMMA ClientAbandonKeeps ==
  ASSUME Inv, ClientAbandon
  PROVE  Inv' /\ QueuesQuiet
<1>0. ConnOk /\ IndOk /\ QueuesOk /\ ProcOk /\ NimOk /\ PlacesOk /\ UseOk
  BY TypesFlat DEF Inv
<1>1. CASE cli.proc.pending
  <2>1. fg.at = "cli.abandon"
    BY <1>1, <1>0 DEF At, Calls, ClientAbandon, Inv
  <2>2. FgNow("none", "idle", 0)
    BY <1>1, <1>0, FgAnswers DEF ClientAbandon, Inv
  <2>3. CliNow(cli.entry, cli.q, cli.cur, cli'.proc)
        /\ ProcNow(cli.proc.pending, TRUE, cli.proc.complete, cli.proc.stage, cli.proc.gen, cli.proc.id,
                   cli.proc.mode, cli.proc.answer)
    BY <1>1, <1>0, CliAbandoned DEF Types, ClientAbandon, Inv
  <2>4. (cli.proc.pending) BY <1>1
  <2>5. UNCHANGED <<nim, conn, cb>>
    BY <1>1, <1>0 DEF ClientAbandon, LeaveRadio, KeepGap, flags, stack
  <2>6. UNCHANGED <<srv>>
    BY <1>1, <1>0 DEF ClientAbandon, LeaveRadio, KeepGap, flags, stack
  <2>7. UNCHANGED <<roles, scan, adv, notices, heard, host, radio>>
    BY <1>1, <1>0 DEF ClientAbandon, LeaveRadio, KeepGap, flags, stack
  <2>8. Types' BY <1>0, <2>1, <2>2, <2>3, <2>4, <2>5, <2>6, <2>7 DEF Types, CliNow, FgNow, ProcNow, Inv
  <2>9. CallInv' BY <1>0, <2>1, <2>2 DEF CallInv, FgNow, Clearing, Inv
  <2>10. LinkInv' BY <1>0, <2>5, <2>7 DEF LinkInv, LinkUp, ConnOk, NimOk, PlacesOk, Inv
  <2>11. PlaceInv' BY <1>0, <2>1, <2>2, <2>5, <2>6, <2>7 DEF PlaceInv, FgNow, Holding, Closing, Clearing, ConnOk,
      IndOk, NimOk, PlacesOk, Inv
  <2>12. SubInv' BY <1>0, <2>1, <2>3, <2>4, <2>5, <2>6, Constants, ClearedClient DEF SubInv, CliNow, ConnOk, IndOk,
      ProcOk, Inv
  <2>13. IndInv' BY <1>0, <2>1, <2>2, <2>5, <2>6, <2>7 DEF IndInv, FgNow, LinkUp, ConnOk, IndOk, NimOk, PlacesOk, Inv
  <2>14. ProcA' BY <1>0, <2>1, <2>3, <2>4, <2>5 DEF ProcInv, ProcA, CliNow, ProcNow, ConnOk, ProcOk, NimOk, Inv
  <2>15. ProcB' BY <1>0, <2>1, <2>2, <2>3, <2>4, <2>5, <2>7 DEF ProcInv, ProcB, CliNow, FgNow, ProcNow, LinkUp,
      ConnOk, ProcOk, NimOk, PlacesOk, Inv
  <2>16. ProcC' BY <1>0, <2>1, <2>2, <2>3, <2>4, <2>5, <2>7 DEF ProcInv, ProcC, CliNow, FgNow, ProcNow, LinkUp,
      ConnOk, ProcOk, NimOk, PlacesOk, Inv
  <2>17. MtuInv' BY <1>0, <2>1, <2>2, <2>5 DEF MtuInv, FgNow, LinkUp, ConnOk, NimOk, PlacesOk, Inv
  <2>18. QueuesQuiet BY <1>0, <2>1, <2>3, <2>4, <2>6, <2>7 DEF QueuesQuiet, GattQuiet, CliNow, Inv
  <2>19. ConnGrows BY <1>0, <2>5 DEF ConnGrows, ConnOk, NimOk, Inv
  <2> QED BY <2>8, <2>9, <2>10, <2>11, <2>12, <2>13, <2>14, <2>15, <2>16, <2>17, <2>18, <2>19, DataKept DEF Inv,
      ProcInv, QueuesQuiet
<1>2. CASE ~cli.proc.pending
  <2>1. fg.at = "cli.abandon"
    BY <1>2, <1>0 DEF At, Calls, ClientAbandon, Inv
  <2>2. FgNow("none", "idle", 0)
    BY <1>2, <1>0, FgAnswers DEF ClientAbandon, Inv
  <2>3. (~cli.proc.pending) BY <1>2
  <2>4. UNCHANGED <<nim, conn, cb>>
    BY <1>2, <1>0 DEF ClientAbandon, LeaveRadio, KeepGap, flags, stack
  <2>5. UNCHANGED <<srv, cli>>
    BY <1>2, <1>0 DEF ClientAbandon, LeaveRadio, KeepGap, flags, stack
  <2>6. UNCHANGED <<roles, scan, adv, notices, heard, host, radio>>
    BY <1>2, <1>0 DEF ClientAbandon, LeaveRadio, KeepGap, flags, stack
  <2>7. Types' BY <1>0, <2>1, <2>2, <2>3, <2>4, <2>5, <2>6 DEF Types, FgNow, Inv
  <2>8. CallInv' BY <1>0, <2>1, <2>2 DEF CallInv, FgNow, Clearing, Inv
  <2>9. LinkInv' BY <1>0, <2>4, <2>6 DEF LinkInv, LinkUp, ConnOk, NimOk, PlacesOk, Inv
  <2>10. PlaceInv' BY <1>0, <2>1, <2>2, <2>4, <2>5, <2>6 DEF PlaceInv, FgNow, Holding, Closing, Clearing, ConnOk,
      IndOk, NimOk, PlacesOk, Inv
  <2>11. SubInv' BY <1>0, <2>1, <2>3, <2>4, <2>5 DEF SubInv, ConnOk, IndOk, ProcOk, Inv
  <2>12. IndInv' BY <1>0, <2>1, <2>2, <2>4, <2>5, <2>6 DEF IndInv, FgNow, LinkUp, ConnOk, IndOk, NimOk, PlacesOk, Inv
  <2>13. ProcA' BY <1>0, <2>1, <2>3, <2>4, <2>5 DEF ProcInv, ProcA, ConnOk, ProcOk, NimOk, Inv
  <2>14. ProcB' BY <1>0, <2>1, <2>2, <2>3, <2>4, <2>5, <2>6 DEF ProcInv, ProcB, FgNow, LinkUp, ConnOk, ProcOk, NimOk,
      PlacesOk, Inv
  <2>15. ProcC' BY <1>0, <2>1, <2>2, <2>3, <2>4, <2>5, <2>6 DEF ProcInv, ProcC, FgNow, LinkUp, ConnOk, ProcOk, NimOk,
      PlacesOk, Inv
  <2>16. MtuInv' BY <1>0, <2>1, <2>2, <2>4 DEF MtuInv, FgNow, LinkUp, ConnOk, NimOk, PlacesOk, Inv
  <2>17. QueuesQuiet BY <1>0, <2>1, <2>3, <2>5, <2>6 DEF QueuesQuiet, GattQuiet, Inv
  <2>18. ConnGrows BY <1>0, <2>4 DEF ConnGrows, ConnOk, NimOk, Inv
  <2> QED BY <2>7, <2>8, <2>9, <2>10, <2>11, <2>12, <2>13, <2>14, <2>15, <2>16, <2>17, <2>18, DataKept DEF Inv,
      ProcInv, QueuesQuiet
<1> QED BY <1>0, <1>1, <1>2 DEF ClientAbandon

LEMMA ClientNextKeeps ==
  ASSUME Inv, ClientNext
  PROVE  Inv' /\ QueuesQuiet
<1>0. ConnOk /\ IndOk /\ QueuesOk /\ ProcOk /\ NimOk /\ PlacesOk /\ UseOk
  BY TypesFlat DEF Inv
<1>1. CASE ~Mine(fg.gen, cli.proc.stage) /\ Go("cli.wait") /\ UNCHANGED cli
  <2>1. fg.at = "cli.next"
    BY <1>1, <1>0 DEF At, Calls, ClientNext, Inv
  <2>2. FgNow(fg.op, "cli.wait", fg.gen)
    BY <1>1, <1>0, FgGoes DEF GattPhases, RadioPhases, Holding, Closing, Clearing, Types, ClientNext, Inv
  <2>3. ~Mine(fg.gen, cli.proc.stage) BY <1>1
  <2>4. UNCHANGED <<nim, conn, cb>>
    BY <1>1, <1>0 DEF ClientNext, LeaveRadio, KeepGap, flags, stack
  <2>5. UNCHANGED <<srv, cli>>
    BY <1>1, <1>0 DEF ClientNext, LeaveRadio, KeepGap, flags, stack
  <2>6. UNCHANGED <<roles, scan, adv, notices, heard, host, radio>>
    BY <1>1, <1>0 DEF ClientNext, LeaveRadio, KeepGap, flags, stack
  <2>7. Types' BY <1>0, <2>1, <2>2, <2>3, <2>4, <2>5, <2>6 DEF Types, FgNow, Inv
  <2>8. CallInv' BY <1>0, <2>1, <2>2, <2>3 DEF CallInv, FgNow, Mine, Clearing, Inv
  <2>9. LinkInv' BY <1>0, <2>4, <2>6 DEF LinkInv, LinkUp, ConnOk, NimOk, PlacesOk, Inv
  <2>10. PlaceInv' BY <1>0, <2>1, <2>2, <2>3, <2>4, <2>5, <2>6 DEF PlaceInv, FgNow, Mine, Holding, Closing, Clearing,
      ConnOk, IndOk, NimOk, PlacesOk, Inv
  <2>11. SubInv' BY <1>0, <2>1, <2>3, <2>4, <2>5 DEF SubInv, Mine, ConnOk, IndOk, ProcOk, Inv
  <2>12. IndInv' BY <1>0, <2>1, <2>2, <2>3, <2>4, <2>5, <2>6 DEF IndInv, FgNow, LinkUp, Mine, ConnOk, IndOk, NimOk,
      PlacesOk, Inv
  <2>13. ProcA' BY <1>0, <2>1, <2>3, <2>4, <2>5 DEF ProcInv, ProcA, Mine, ConnOk, ProcOk, NimOk, Inv
  <2>14. ProcB' BY <1>0, <2>1, <2>2, <2>3, <2>4, <2>5, <2>6 DEF ProcInv, ProcB, FgNow, LinkUp, Mine, ConnOk, ProcOk,
      NimOk, PlacesOk, Inv
  <2>15. ProcC' BY <1>0, <2>1, <2>2, <2>3, <2>4, <2>5, <2>6 DEF ProcInv, ProcC, FgNow, LinkUp, Mine, ConnOk, ProcOk,
      NimOk, PlacesOk, Inv
  <2>16. MtuInv' BY <1>0, <2>1, <2>2, <2>3, <2>4 DEF MtuInv, FgNow, LinkUp, Mine, ConnOk, NimOk, PlacesOk, Inv
  <2>17. QueuesQuiet BY <1>0, <2>1, <2>3, <2>5, <2>6 DEF QueuesQuiet, GattQuiet, Mine, Inv
  <2>18. ConnGrows BY <1>0, <2>4 DEF ConnGrows, ConnOk, NimOk, Inv
  <2> QED BY <2>7, <2>8, <2>9, <2>10, <2>11, <2>12, <2>13, <2>14, <2>15, <2>16, <2>17, <2>18, DataKept DEF Inv,
      ProcInv, QueuesQuiet
<1>2. CASE /\ Mine(fg.gen, cli.proc.stage) /\ cli.proc.stage = "service" /\ Go("cli.call")
           /\ cli' = [cli EXCEPT !.proc.stage = "characteristic", !.proc.complete = FALSE]
  <2>1. fg.at = "cli.next"
    BY <1>2, <1>0 DEF At, Calls, ClientNext, Inv
  <2>2. FgNow(fg.op, "cli.call", fg.gen)
    BY <1>2, <1>0, FgGoes DEF GattPhases, RadioPhases, Holding, Closing, Clearing, Types, ClientNext, Inv
  <2>3. CliNow(cli.entry, cli.q, cli.cur, cli'.proc)
        /\ ProcNow(cli.proc.pending, cli.proc.abandoned, FALSE, "characteristic", cli.proc.gen, cli.proc.id,
             cli.proc.mode, cli.proc.answer)
    BY <1>2, <1>0, CliStaged DEF Types, Stages, ClientNext, Inv
  <2>4. Mine(fg.gen, cli.proc.stage) /\ cli.proc.stage = "service" BY <1>2
  <2>5. UNCHANGED <<nim, conn, cb>>
    BY <1>2, <1>0 DEF ClientNext, LeaveRadio, KeepGap, flags, stack
  <2>6. UNCHANGED <<srv>>
    BY <1>2, <1>0 DEF ClientNext, LeaveRadio, KeepGap, flags, stack
  <2>7. UNCHANGED <<roles, scan, adv, notices, heard, host, radio>>
    BY <1>2, <1>0 DEF ClientNext, LeaveRadio, KeepGap, flags, stack
  <2>8. Types' BY <1>0, <2>1, <2>2, <2>3, <2>4, <2>5, <2>6, <2>7 DEF Types, CliNow, FgNow, ProcNow, Inv
  <2>9. CallInv' BY <1>0, <2>1, <2>2, <2>4 DEF CallInv, FgNow, Mine, Clearing, Inv
  <2>10. LinkInv' BY <1>0, <2>5, <2>7 DEF LinkInv, LinkUp, ConnOk, NimOk, PlacesOk, Inv
  <2>11. PlaceInv' BY <1>0, <2>1, <2>2, <2>4, <2>5, <2>6, <2>7 DEF PlaceInv, FgNow, Mine, Holding, Closing, Clearing,
      ConnOk, IndOk, NimOk, PlacesOk, Inv
  <2>12. SubInv' BY <1>0, <2>1, <2>3, <2>4, <2>5, <2>6, Constants, ClearedClient DEF SubInv, CliNow, Mine, ConnOk,
      IndOk, ProcOk, Inv
  <2>13. IndInv' BY <1>0, <2>1, <2>2, <2>4, <2>5, <2>6, <2>7 DEF IndInv, FgNow, LinkUp, Mine, ConnOk, IndOk, NimOk,
      PlacesOk, Inv
  <2>14. ProcA' BY <1>0, <2>1, <2>3, <2>4, <2>5 DEF ProcInv, ProcA, CliNow, ProcNow, Mine, ConnOk, ProcOk, NimOk, Inv
  <2>15. ProcB' BY <1>0, <2>1, <2>2, <2>3, <2>4, <2>5, <2>7 DEF ProcInv, ProcB, CliNow, FgNow, ProcNow, LinkUp, Mine,
      ConnOk, ProcOk, NimOk, PlacesOk, LinkInv, SubInv, PlaceInv, Holding, Closing, Clearing, ProcA, ProcC, IndInv,
      IndOk, ConnStates, ConnRoles, Inv
  <2>16. ProcC' BY <1>0, <2>1, <2>2, <2>3, <2>4, <2>5, <2>7 DEF ProcInv, ProcC, CliNow, FgNow, ProcNow, LinkUp, Mine,
      ConnOk, ProcOk, NimOk, PlacesOk, Inv
  <2>17. MtuInv' BY <1>0, <2>1, <2>2, <2>4, <2>5 DEF MtuInv, FgNow, LinkUp, Mine, ConnOk, NimOk, PlacesOk, Inv
  <2>18. QueuesQuiet BY <1>0, <2>1, <2>3, <2>4, <2>6, <2>7 DEF QueuesQuiet, GattQuiet, CliNow, Mine, Inv
  <2>19. ConnGrows BY <1>0, <2>5 DEF ConnGrows, ConnOk, NimOk, Inv
  <2> QED BY <2>8, <2>9, <2>10, <2>11, <2>12, <2>13, <2>14, <2>15, <2>16, <2>17, <2>18, <2>19, DataKept DEF Inv,
      ProcInv, QueuesQuiet
<1>3. CASE /\ Mine(fg.gen, cli.proc.stage) /\ cli.proc.stage = "characteristic" /\ Go("cli.call")
           /\ cli' = [cli EXCEPT !.proc.stage = "descriptor", !.proc.complete = FALSE]
  <2>1. fg.at = "cli.next"
    BY <1>3, <1>0 DEF At, Calls, ClientNext, Inv
  <2>2. FgNow(fg.op, "cli.call", fg.gen)
    BY <1>3, <1>0, FgGoes DEF GattPhases, RadioPhases, Holding, Closing, Clearing, Types, ClientNext, Inv
  <2>3. CliNow(cli.entry, cli.q, cli.cur, cli'.proc)
        /\ ProcNow(cli.proc.pending, cli.proc.abandoned, FALSE, "descriptor", cli.proc.gen, cli.proc.id,
             cli.proc.mode, cli.proc.answer)
    BY <1>3, <1>0, CliStaged DEF Types, Stages, ClientNext, Inv
  <2>4. Mine(fg.gen, cli.proc.stage) /\ cli.proc.stage = "characteristic" BY <1>3
  <2>5. UNCHANGED <<nim, conn, cb>>
    BY <1>3, <1>0 DEF ClientNext, LeaveRadio, KeepGap, flags, stack
  <2>6. UNCHANGED <<srv>>
    BY <1>3, <1>0 DEF ClientNext, LeaveRadio, KeepGap, flags, stack
  <2>7. UNCHANGED <<roles, scan, adv, notices, heard, host, radio>>
    BY <1>3, <1>0 DEF ClientNext, LeaveRadio, KeepGap, flags, stack
  <2>8. Types' BY <1>0, <2>1, <2>2, <2>3, <2>4, <2>5, <2>6, <2>7 DEF Types, CliNow, FgNow, ProcNow, Inv
  <2>9. CallInv' BY <1>0, <2>1, <2>2, <2>4 DEF CallInv, FgNow, Mine, Clearing, Inv
  <2>10. LinkInv' BY <1>0, <2>5, <2>7 DEF LinkInv, LinkUp, ConnOk, NimOk, PlacesOk, Inv
  <2>11. PlaceInv' BY <1>0, <2>1, <2>2, <2>4, <2>5, <2>6, <2>7 DEF PlaceInv, FgNow, Mine, Holding, Closing, Clearing,
      ConnOk, IndOk, NimOk, PlacesOk, Inv
  <2>12. SubInv' BY <1>0, <2>1, <2>3, <2>4, <2>5, <2>6, Constants, ClearedClient DEF SubInv, CliNow, Mine, ConnOk,
      IndOk, ProcOk, Inv
  <2>13. IndInv' BY <1>0, <2>1, <2>2, <2>4, <2>5, <2>6, <2>7 DEF IndInv, FgNow, LinkUp, Mine, ConnOk, IndOk, NimOk,
      PlacesOk, Inv
  <2>14. ProcA' BY <1>0, <2>1, <2>3, <2>4, <2>5 DEF ProcInv, ProcA, CliNow, ProcNow, Mine, ConnOk, ProcOk, NimOk, Inv
  <2>15. ProcB' BY <1>0, <2>1, <2>2, <2>3, <2>4, <2>5, <2>7 DEF ProcInv, ProcB, CliNow, FgNow, ProcNow, LinkUp, Mine,
      ConnOk, ProcOk, NimOk, PlacesOk, LinkInv, SubInv, PlaceInv, Holding, Closing, Clearing, ProcA, ProcC, IndInv,
      IndOk, ConnStates, ConnRoles, Inv
  <2>16. ProcC' BY <1>0, <2>1, <2>2, <2>3, <2>4, <2>5, <2>7 DEF ProcInv, ProcC, CliNow, FgNow, ProcNow, LinkUp, Mine,
      ConnOk, ProcOk, NimOk, PlacesOk, Inv
  <2>17. MtuInv' BY <1>0, <2>1, <2>2, <2>4, <2>5 DEF MtuInv, FgNow, LinkUp, Mine, ConnOk, NimOk, PlacesOk, Inv
  <2>18. QueuesQuiet BY <1>0, <2>1, <2>3, <2>4, <2>6, <2>7 DEF QueuesQuiet, GattQuiet, CliNow, Mine, Inv
  <2>19. ConnGrows BY <1>0, <2>5 DEF ConnGrows, ConnOk, NimOk, Inv
  <2> QED BY <2>8, <2>9, <2>10, <2>11, <2>12, <2>13, <2>14, <2>15, <2>16, <2>17, <2>18, <2>19, DataKept DEF Inv,
      ProcInv, QueuesQuiet
<1>4. CASE /\ Mine(fg.gen, cli.proc.stage) /\ cli.proc.stage = "characteristic" /\ Go("cli.wait")
           /\ cli' = Cached(cli.proc.id)
  <2>1. fg.at = "cli.next"
    BY <1>4, <1>0 DEF At, Calls, ClientNext, Inv
  <2>2. FgNow(fg.op, "cli.wait", fg.gen)
    BY <1>4, <1>0, FgGoes DEF GattPhases, RadioPhases, Holding, Closing, Clearing, Types, ClientNext, Inv
  <2>3. CliNow([valid |-> TRUE, gen |-> conn.gen, mode |-> cli.entry.mode], cli.q, cli.cur, cli'.proc)
        /\ ProcNow(FALSE, cli.proc.abandoned, cli.proc.complete, cli.proc.stage, cli.proc.gen, cli.proc.id,
             cli.proc.mode, cli.proc.id)
    BY <1>4, <1>0, CliCached DEF Types, ProcOk, NimOk, ClientNext, Inv
  <2>4. Mine(fg.gen, cli.proc.stage) /\ cli.proc.stage = "characteristic" BY <1>4
  <2>5. UNCHANGED <<nim, conn, cb>>
    BY <1>4, <1>0 DEF ClientNext, LeaveRadio, KeepGap, flags, stack
  <2>6. UNCHANGED <<srv>>
    BY <1>4, <1>0 DEF ClientNext, LeaveRadio, KeepGap, flags, stack
  <2>7. UNCHANGED <<roles, scan, adv, notices, heard, host, radio>>
    BY <1>4, <1>0 DEF ClientNext, LeaveRadio, KeepGap, flags, stack
  <2>8. Types' BY <1>0, <2>1, <2>2, <2>3, <2>4, <2>5, <2>6, <2>7 DEF Types, CliNow, FgNow, ProcNow, Inv
  <2>9. CallInv' BY <1>0, <2>1, <2>2, <2>4 DEF CallInv, FgNow, Mine, Clearing, Inv
  <2>10. LinkInv' BY <1>0, <2>5, <2>7 DEF LinkInv, LinkUp, ConnOk, NimOk, PlacesOk, Inv
  <2>11. PlaceInv' BY <1>0, <2>1, <2>2, <2>4, <2>5, <2>6, <2>7 DEF PlaceInv, FgNow, Mine, Holding, Closing, Clearing,
      ConnOk, IndOk, NimOk, PlacesOk, Inv
  <2>12. SubInv' BY <1>0, <2>1, <2>3, <2>4, <2>5, <2>6, Constants, ClearedClient DEF SubInv, CliNow, Mine, ConnOk,
      IndOk, ProcOk, LinkInv, LinkUp, PlaceInv, Holding, Closing, Clearing, ProcInv, ProcA, ProcB, ProcC, IndInv,
      NimOk, PlacesOk, ConnStates, ConnRoles, Inv
  <2>13. IndInv' BY <1>0, <2>1, <2>2, <2>4, <2>5, <2>6, <2>7 DEF IndInv, FgNow, LinkUp, Mine, ConnOk, IndOk, NimOk,
      PlacesOk, Inv
  <2>14. ProcA' BY <1>0, <2>1, <2>3, <2>4, <2>5 DEF ProcInv, ProcA, CliNow, ProcNow, Mine, ConnOk, ProcOk, NimOk, Inv
  <2>15. ProcB' BY <1>0, <2>1, <2>2, <2>3, <2>4, <2>5, <2>7 DEF ProcInv, ProcB, CliNow, FgNow, ProcNow, LinkUp, Mine,
      ConnOk, ProcOk, NimOk, PlacesOk, LinkInv, SubInv, PlaceInv, Holding, Closing, Clearing, ProcA, ProcC, IndInv,
      IndOk, ConnStates, ConnRoles, Inv
  <2>16. ProcC' BY <1>0, <2>1, <2>2, <2>3, <2>4, <2>5, <2>7 DEF ProcInv, ProcC, CliNow, FgNow, ProcNow, LinkUp, Mine,
      ConnOk, ProcOk, NimOk, PlacesOk, Inv
  <2>17. MtuInv' BY <1>0, <2>1, <2>2, <2>4, <2>5 DEF MtuInv, FgNow, LinkUp, Mine, ConnOk, NimOk, PlacesOk, Inv
  <2>18. QueuesQuiet BY <1>0, <2>1, <2>3, <2>4, <2>6, <2>7 DEF QueuesQuiet, GattQuiet, CliNow, Mine, Inv
  <2>19. ConnGrows BY <1>0, <2>5 DEF ConnGrows, ConnOk, NimOk, Inv
  <2> QED BY <2>8, <2>9, <2>10, <2>11, <2>12, <2>13, <2>14, <2>15, <2>16, <2>17, <2>18, <2>19, DataKept DEF Inv,
      ProcInv, QueuesQuiet
<1> QED BY <1>0, <1>1, <1>2, <1>3, <1>4 DEF ClientNext

LEMMA ClientAnsweredKeeps ==
  ASSUME Inv, ClientAnswered
  PROVE  Inv' /\ QueuesQuiet
<1>0. ConnOk /\ IndOk /\ QueuesOk /\ ProcOk /\ NimOk /\ PlacesOk /\ UseOk
  BY TypesFlat DEF Inv
<1>1. CASE ~Mine(nim.proc.gen, nim.proc.stage) /\ cli' = cli
  <2>1. cb.kind = "none" /\ host = "running"
    BY <1>1, <1>0 DEF Callback, NoCb, ClientAnswered, Inv
  <2>2. nim.proc # NoProc
    BY <1>1, <1>0 DEF ClientAnswered, Inv
  <2>3. NimNow(nim.scan, nim.adv, nim.conn, nim.link, nim.links, nim.mtu, nim.ind, NoProc)
    BY <1>1, <1>0, NimProc, NothingAsked DEF Types, ClientAnswered, Inv
  <2>4. ~Mine(nim.proc.gen, nim.proc.stage) BY <1>1
  <2>5. UNCHANGED <<fg, conn, cb>>
    BY <1>1, <1>0 DEF ClientAnswered, Callback, flags, stack
  <2>6. UNCHANGED <<srv, cli>>
    BY <1>1, <1>0 DEF ClientAnswered, Callback, flags, stack
  <2>7. UNCHANGED <<roles, scan, adv, notices, heard, host, radio>>
    BY <1>1, <1>0 DEF ClientAnswered, Callback, flags, stack
  <2>8. Types' BY <1>0, <2>1, <2>2, <2>3, <2>4, <2>5, <2>6, <2>7 DEF Types, NimNow, Inv
  <2>9. CallInv' BY <1>0, <2>5 DEF CallInv, Inv
  <2>10. LinkInv' BY <1>0, <2>1, <2>2, <2>3, <2>4, <2>5, <2>7, NothingAsked DEF LinkInv, NimNow, LinkUp, Mine, ConnOk,
      NimOk, PlacesOk, Inv
  <2>11. PlaceInv' BY <1>0, <2>2, <2>3, <2>4, <2>5, <2>6, <2>7 DEF PlaceInv, NimNow, Mine, Holding, Closing, Clearing,
      ConnOk, IndOk, NimOk, PlacesOk, Inv
  <2>12. SubInv' BY <1>0, <2>4, <2>5, <2>6 DEF SubInv, Mine, ConnOk, IndOk, ProcOk, Inv
  <2>13. IndInv' BY <1>0, <2>1, <2>2, <2>3, <2>4, <2>5, <2>6, <2>7, NothingAsked DEF IndInv, NimNow, LinkUp, Mine,
      ConnOk, IndOk, NimOk, PlacesOk, Inv
  <2>14. ProcA' BY <1>0, <2>2, <2>3, <2>4, <2>5, <2>6, NothingAsked DEF ProcInv, ProcA, NimNow, Mine, ConnOk, ProcOk,
      NimOk, Inv
  <2>15. ProcB' BY <1>0, <2>1, <2>2, <2>3, <2>4, <2>5, <2>6, <2>7, NothingAsked DEF ProcInv, ProcB, NimNow, LinkUp,
      Mine, ConnOk, ProcOk, NimOk, PlacesOk, Inv
  <2>16. ProcC' BY <1>0, <2>1, <2>2, <2>3, <2>4, <2>5, <2>6, <2>7, NothingAsked DEF ProcInv, ProcC, NimNow, LinkUp,
      Mine, ConnOk, ProcOk, NimOk, PlacesOk, LinkInv, SubInv, PlaceInv, Holding, Closing, Clearing, ProcA, ProcB,
      IndInv, IndOk, ConnStates, ConnRoles, Inv
  <2>17. MtuInv' BY <1>0, <2>1, <2>2, <2>3, <2>4, <2>5, NothingAsked DEF MtuInv, NimNow, LinkUp, Mine, ConnOk, NimOk,
      PlacesOk, Inv
  <2>18. QueuesQuiet BY <1>0, <2>4, <2>6, <2>7 DEF QueuesQuiet, GattQuiet, Mine, Inv
  <2>19. ConnGrows BY <1>0, <2>2, <2>3, <2>4, <2>5 DEF ConnGrows, NimNow, Mine, ConnOk, NimOk, Inv
  <2> QED BY <2>8, <2>9, <2>10, <2>11, <2>12, <2>13, <2>14, <2>15, <2>16, <2>17, <2>18, <2>19, DataKept DEF Inv,
      ProcInv, QueuesQuiet
<1>2. CASE Mine(nim.proc.gen, nim.proc.stage) /\ cli' = Finished(0)
  <2>1. cb.kind = "none" /\ host = "running"
    BY <1>2, <1>0 DEF Callback, NoCb, ClientAnswered, Inv
  <2>2. nim.proc # NoProc
    BY <1>2, <1>0 DEF ClientAnswered, Inv
  <2>3. NimNow(nim.scan, nim.adv, nim.conn, nim.link, nim.links, nim.mtu, nim.ind, NoProc)
    BY <1>2, <1>0, NimProc, NothingAsked DEF Types, ClientAnswered, Inv
  <2>4. CliNow(cli.entry, cli.q, cli.cur, cli'.proc)
        /\ ProcNow(FALSE, cli.proc.abandoned, cli.proc.complete, cli.proc.stage, cli.proc.gen, cli.proc.id,
             cli.proc.mode, 0)
    BY <1>2, <1>0, CliFinished DEF Types, ProcOk, NimOk, ClientAnswered, Inv
  <2>5. Mine(nim.proc.gen, nim.proc.stage) BY <1>2
  <2>6. UNCHANGED <<fg, conn, cb>>
    BY <1>2, <1>0 DEF ClientAnswered, Callback, flags, stack
  <2>7. UNCHANGED <<srv>>
    BY <1>2, <1>0 DEF ClientAnswered, Callback, flags, stack
  <2>8. UNCHANGED <<roles, scan, adv, notices, heard, host, radio>>
    BY <1>2, <1>0 DEF ClientAnswered, Callback, flags, stack
  <2>9. Types' BY <1>0, <2>1, <2>2, <2>3, <2>4, <2>5, <2>6, <2>7, <2>8 DEF Types, CliNow, NimNow, ProcNow, Inv
  <2>10. CallInv' BY <1>0, <2>6 DEF CallInv, Inv
  <2>11. LinkInv' BY <1>0, <2>1, <2>2, <2>3, <2>5, <2>6, <2>8, NothingAsked DEF LinkInv, NimNow, LinkUp, Mine, ConnOk,
      NimOk, PlacesOk, Inv
  <2>12. PlaceInv' BY <1>0, <2>2, <2>3, <2>5, <2>6, <2>7, <2>8 DEF PlaceInv, NimNow, Mine, Holding, Closing, Clearing,
      ConnOk, IndOk, NimOk, PlacesOk, Inv
  <2>13. SubInv' BY <1>0, <2>4, <2>5, <2>6, <2>7, Constants, ClearedClient DEF SubInv, CliNow, Mine, ConnOk, IndOk,
      ProcOk, Inv
  <2>14. IndInv' BY <1>0, <2>1, <2>2, <2>3, <2>5, <2>6, <2>7, <2>8, NothingAsked DEF IndInv, NimNow, LinkUp, Mine,
      ConnOk, IndOk, NimOk, PlacesOk, Inv
  <2>15. ProcA' BY <1>0, <2>2, <2>3, <2>4, <2>5, <2>6, NothingAsked DEF ProcInv, ProcA, CliNow, NimNow, ProcNow, Mine,
      ConnOk, ProcOk, NimOk, Inv
  <2>16. ProcB' BY <1>0, <2>1, <2>2, <2>3, <2>4, <2>5, <2>6, <2>8, NothingAsked DEF ProcInv, ProcB, CliNow, NimNow,
      ProcNow, LinkUp, Mine, ConnOk, ProcOk, NimOk, PlacesOk, LinkInv, SubInv, PlaceInv, Holding, Closing, Clearing,
      ProcA, ProcC, IndInv, IndOk, ConnStates, ConnRoles, Inv
  <2>17. ProcC' BY <1>0, <2>1, <2>2, <2>3, <2>4, <2>5, <2>6, <2>8, NothingAsked DEF ProcInv, ProcC, CliNow, NimNow,
      ProcNow, LinkUp, Mine, ConnOk, ProcOk, NimOk, PlacesOk, Inv
  <2>18. MtuInv' BY <1>0, <2>1, <2>2, <2>3, <2>5, <2>6, NothingAsked DEF MtuInv, NimNow, LinkUp, Mine, ConnOk, NimOk,
      PlacesOk, Inv
  <2>19. QueuesQuiet BY <1>0, <2>4, <2>5, <2>7, <2>8 DEF QueuesQuiet, GattQuiet, CliNow, Mine, Inv
  <2>20. ConnGrows BY <1>0, <2>2, <2>3, <2>5, <2>6 DEF ConnGrows, NimNow, Mine, ConnOk, NimOk, Inv
  <2> QED BY <2>9, <2>10, <2>11, <2>12, <2>13, <2>14, <2>15, <2>16, <2>17, <2>18, <2>19, <2>20, DataKept DEF Inv,
      ProcInv, QueuesQuiet
<1>3. CASE Mine(nim.proc.gen,
    nim.proc.stage) /\ cli' = [cli EXCEPT !.proc.complete = TRUE] /\ nim.proc.stage \in {"service", "characteristic"}
  <2>1. cb.kind = "none" /\ host = "running"
    BY <1>3, <1>0 DEF Callback, NoCb, ClientAnswered, Inv
  <2>2. nim.proc # NoProc
    BY <1>3, <1>0 DEF ClientAnswered, Inv
  <2>3. NimNow(nim.scan, nim.adv, nim.conn, nim.link, nim.links, nim.mtu, nim.ind, NoProc)
    BY <1>3, <1>0, NimProc, NothingAsked DEF Types, ClientAnswered, Inv
  <2>4. CliNow(cli.entry, cli.q, cli.cur, cli'.proc)
        /\ ProcNow(cli.proc.pending, cli.proc.abandoned, TRUE, cli.proc.stage, cli.proc.gen, cli.proc.id,
                   cli.proc.mode, cli.proc.answer)
    BY <1>3, <1>0, CliCompleted DEF Types, ClientAnswered, Inv
  <2>5. Mine(nim.proc.gen, nim.proc.stage) /\ nim.proc.stage \in {"service", "characteristic"} BY <1>3
  <2>6. UNCHANGED <<fg, conn, cb>>
    BY <1>3, <1>0 DEF ClientAnswered, Callback, flags, stack
  <2>7. UNCHANGED <<srv>>
    BY <1>3, <1>0 DEF ClientAnswered, Callback, flags, stack
  <2>8. UNCHANGED <<roles, scan, adv, notices, heard, host, radio>>
    BY <1>3, <1>0 DEF ClientAnswered, Callback, flags, stack
  <2>9. Types' BY <1>0, <2>1, <2>2, <2>3, <2>4, <2>5, <2>6, <2>7, <2>8 DEF Types, CliNow, NimNow, ProcNow, Inv
  <2>10. CallInv' BY <1>0, <2>6 DEF CallInv, Inv
  <2>11. LinkInv' BY <1>0, <2>1, <2>2, <2>3, <2>5, <2>6, <2>8, NothingAsked DEF LinkInv, NimNow, LinkUp, Mine, ConnOk,
      NimOk, PlacesOk, Inv
  <2>12. PlaceInv' BY <1>0, <2>2, <2>3, <2>5, <2>6, <2>7, <2>8 DEF PlaceInv, NimNow, Mine, Holding, Closing, Clearing,
      ConnOk, IndOk, NimOk, PlacesOk, Inv
  <2>13. SubInv' BY <1>0, <2>4, <2>5, <2>6, <2>7, Constants, ClearedClient DEF SubInv, CliNow, Mine, ConnOk, IndOk,
      ProcOk, Inv
  <2>14. IndInv' BY <1>0, <2>1, <2>2, <2>3, <2>5, <2>6, <2>7, <2>8, NothingAsked DEF IndInv, NimNow, LinkUp, Mine,
      ConnOk, IndOk, NimOk, PlacesOk, Inv
  <2>15. ProcA' BY <1>0, <2>2, <2>3, <2>4, <2>5, <2>6, NothingAsked DEF ProcInv, ProcA, CliNow, NimNow, ProcNow, Mine,
      ConnOk, ProcOk, NimOk, Inv
  <2>16. ProcB' BY <1>0, <2>1, <2>2, <2>3, <2>4, <2>5, <2>6, <2>8, NothingAsked DEF ProcInv, ProcB, CliNow, NimNow,
      ProcNow, LinkUp, Mine, ConnOk, ProcOk, NimOk, PlacesOk, Inv
  <2>17. ProcC' BY <1>0, <2>1, <2>2, <2>3, <2>4, <2>5, <2>6, <2>8, NothingAsked DEF ProcInv, ProcC, CliNow, NimNow,
      ProcNow, LinkUp, Mine, ConnOk, ProcOk, NimOk, PlacesOk, Inv
  <2>18. MtuInv' BY <1>0, <2>1, <2>2, <2>3, <2>5, <2>6, NothingAsked DEF MtuInv, NimNow, LinkUp, Mine, ConnOk, NimOk,
      PlacesOk, Inv
  <2>19. QueuesQuiet BY <1>0, <2>4, <2>5, <2>7, <2>8 DEF QueuesQuiet, GattQuiet, CliNow, Mine, Inv
  <2>20. ConnGrows BY <1>0, <2>2, <2>3, <2>5, <2>6 DEF ConnGrows, NimNow, Mine, ConnOk, NimOk, Inv
  <2> QED BY <2>9, <2>10, <2>11, <2>12, <2>13, <2>14, <2>15, <2>16, <2>17, <2>18, <2>19, <2>20, DataKept DEF Inv,
      ProcInv, QueuesQuiet
<1>4. CASE Mine(nim.proc.gen, nim.proc.stage) /\ cli' = Cached(nim.proc.id)
  <2>1. cb.kind = "none" /\ host = "running"
    BY <1>4, <1>0 DEF Callback, NoCb, ClientAnswered, Inv
  <2>2. nim.proc # NoProc
    BY <1>4, <1>0 DEF ClientAnswered, Inv
  <2>3. NimNow(nim.scan, nim.adv, nim.conn, nim.link, nim.links, nim.mtu, nim.ind, NoProc)
    BY <1>4, <1>0, NimProc, NothingAsked DEF Types, ClientAnswered, Inv
  <2>4. CliNow([valid |-> TRUE, gen |-> conn.gen, mode |-> cli.entry.mode], cli.q, cli.cur, cli'.proc)
        /\ ProcNow(FALSE, cli.proc.abandoned, cli.proc.complete, cli.proc.stage, cli.proc.gen, cli.proc.id,
             cli.proc.mode, nim.proc.id)
    BY <1>4, <1>0, CliCached DEF Types, ProcOk, NimOk, ClientAnswered, Inv
  <2>5. Mine(nim.proc.gen, nim.proc.stage) BY <1>4
  <2>6. UNCHANGED <<fg, conn, cb>>
    BY <1>4, <1>0 DEF ClientAnswered, Callback, flags, stack
  <2>7. UNCHANGED <<srv>>
    BY <1>4, <1>0 DEF ClientAnswered, Callback, flags, stack
  <2>8. UNCHANGED <<roles, scan, adv, notices, heard, host, radio>>
    BY <1>4, <1>0 DEF ClientAnswered, Callback, flags, stack
  <2>9. Types' BY <1>0, <2>1, <2>2, <2>3, <2>4, <2>5, <2>6, <2>7, <2>8 DEF Types, CliNow, NimNow, ProcNow, Inv
  <2>10. CallInv' BY <1>0, <2>6 DEF CallInv, Inv
  <2>11. LinkInv' BY <1>0, <2>1, <2>2, <2>3, <2>5, <2>6, <2>8, NothingAsked DEF LinkInv, NimNow, LinkUp, Mine, ConnOk,
      NimOk, PlacesOk, Inv
  <2>12. PlaceInv' BY <1>0, <2>2, <2>3, <2>5, <2>6, <2>7, <2>8 DEF PlaceInv, NimNow, Mine, Holding, Closing, Clearing,
      ConnOk, IndOk, NimOk, PlacesOk, Inv
  <2>13. SubInv' BY <1>0, <2>4, <2>5, <2>6, <2>7, Constants, ClearedClient DEF SubInv, CliNow, Mine, ConnOk, IndOk,
      ProcOk, LinkInv, LinkUp, PlaceInv, Holding, Closing, Clearing, ProcInv, ProcA, ProcB, ProcC, IndInv, NimOk,
      PlacesOk, ConnStates, ConnRoles, Inv
  <2>14. IndInv' BY <1>0, <2>1, <2>2, <2>3, <2>5, <2>6, <2>7, <2>8, NothingAsked DEF IndInv, NimNow, LinkUp, Mine,
      ConnOk, IndOk, NimOk, PlacesOk, Inv
  <2>15. ProcA' BY <1>0, <2>2, <2>3, <2>4, <2>5, <2>6, NothingAsked DEF ProcInv, ProcA, CliNow, NimNow, ProcNow, Mine,
      ConnOk, ProcOk, NimOk, LinkInv, LinkUp, SubInv, PlaceInv, Holding, Closing, Clearing, ProcB, ProcC, IndInv,
      PlacesOk, IndOk, ConnStates, ConnRoles, Inv
  <2>16. ProcB' BY <1>0, <2>1, <2>2, <2>3, <2>4, <2>5, <2>6, <2>8, NothingAsked DEF ProcInv, ProcB, CliNow, NimNow,
      ProcNow, LinkUp, Mine, ConnOk, ProcOk, NimOk, PlacesOk, LinkInv, SubInv, PlaceInv, Holding, Closing, Clearing,
      ProcA, ProcC, IndInv, IndOk, ConnStates, ConnRoles, Inv
  <2>17. ProcC' BY <1>0, <2>1, <2>2, <2>3, <2>4, <2>5, <2>6, <2>8, NothingAsked DEF ProcInv, ProcC, CliNow, NimNow,
      ProcNow, LinkUp, Mine, ConnOk, ProcOk, NimOk, PlacesOk, Inv
  <2>18. MtuInv' BY <1>0, <2>1, <2>2, <2>3, <2>5, <2>6, NothingAsked DEF MtuInv, NimNow, LinkUp, Mine, ConnOk, NimOk,
      PlacesOk, Inv
  <2>19. QueuesQuiet BY <1>0, <2>4, <2>5, <2>7, <2>8 DEF QueuesQuiet, GattQuiet, CliNow, Mine, Inv
  <2>20. ConnGrows BY <1>0, <2>2, <2>3, <2>5, <2>6 DEF ConnGrows, NimNow, Mine, ConnOk, NimOk, Inv
  <2> QED BY <2>9, <2>10, <2>11, <2>12, <2>13, <2>14, <2>15, <2>16, <2>17, <2>18, <2>19, <2>20, DataKept DEF Inv,
      ProcInv, QueuesQuiet
<1>5. CASE Mine(nim.proc.gen, nim.proc.stage) /\ cli' = Finished(nim.proc.id)
  <2>1. cb.kind = "none" /\ host = "running"
    BY <1>5, <1>0 DEF Callback, NoCb, ClientAnswered, Inv
  <2>2. nim.proc # NoProc
    BY <1>5, <1>0 DEF ClientAnswered, Inv
  <2>3. NimNow(nim.scan, nim.adv, nim.conn, nim.link, nim.links, nim.mtu, nim.ind, NoProc)
    BY <1>5, <1>0, NimProc, NothingAsked DEF Types, ClientAnswered, Inv
  <2>4. CliNow(cli.entry, cli.q, cli.cur, cli'.proc)
        /\ ProcNow(FALSE, cli.proc.abandoned, cli.proc.complete, cli.proc.stage, cli.proc.gen, cli.proc.id,
             cli.proc.mode, nim.proc.id)
    BY <1>5, <1>0, CliFinished DEF Types, ProcOk, NimOk, ClientAnswered, Inv
  <2>5. Mine(nim.proc.gen, nim.proc.stage) BY <1>5
  <2>6. UNCHANGED <<fg, conn, cb>>
    BY <1>5, <1>0 DEF ClientAnswered, Callback, flags, stack
  <2>7. UNCHANGED <<srv>>
    BY <1>5, <1>0 DEF ClientAnswered, Callback, flags, stack
  <2>8. UNCHANGED <<roles, scan, adv, notices, heard, host, radio>>
    BY <1>5, <1>0 DEF ClientAnswered, Callback, flags, stack
  <2>9. Types' BY <1>0, <2>1, <2>2, <2>3, <2>4, <2>5, <2>6, <2>7, <2>8 DEF Types, CliNow, NimNow, ProcNow, Inv
  <2>10. CallInv' BY <1>0, <2>6 DEF CallInv, Inv
  <2>11. LinkInv' BY <1>0, <2>1, <2>2, <2>3, <2>5, <2>6, <2>8, NothingAsked DEF LinkInv, NimNow, LinkUp, Mine, ConnOk,
      NimOk, PlacesOk, Inv
  <2>12. PlaceInv' BY <1>0, <2>2, <2>3, <2>5, <2>6, <2>7, <2>8 DEF PlaceInv, NimNow, Mine, Holding, Closing, Clearing,
      ConnOk, IndOk, NimOk, PlacesOk, Inv
  <2>13. SubInv' BY <1>0, <2>4, <2>5, <2>6, <2>7, Constants, ClearedClient DEF SubInv, CliNow, Mine, ConnOk, IndOk,
      ProcOk, Inv
  <2>14. IndInv' BY <1>0, <2>1, <2>2, <2>3, <2>5, <2>6, <2>7, <2>8, NothingAsked DEF IndInv, NimNow, LinkUp, Mine,
      ConnOk, IndOk, NimOk, PlacesOk, Inv
  <2>15. ProcA' BY <1>0, <2>2, <2>3, <2>4, <2>5, <2>6, NothingAsked DEF ProcInv, ProcA, CliNow, NimNow, ProcNow, Mine,
      ConnOk, ProcOk, NimOk, LinkInv, LinkUp, SubInv, PlaceInv, Holding, Closing, Clearing, ProcB, ProcC, IndInv,
      PlacesOk, IndOk, ConnStates, ConnRoles, Inv
  <2>16. ProcB' BY <1>0, <2>1, <2>2, <2>3, <2>4, <2>5, <2>6, <2>8, NothingAsked DEF ProcInv, ProcB, CliNow, NimNow,
      ProcNow, LinkUp, Mine, ConnOk, ProcOk, NimOk, PlacesOk, LinkInv, SubInv, PlaceInv, Holding, Closing, Clearing,
      ProcA, ProcC, IndInv, IndOk, ConnStates, ConnRoles, Inv
  <2>17. ProcC' BY <1>0, <2>1, <2>2, <2>3, <2>4, <2>5, <2>6, <2>8, NothingAsked DEF ProcInv, ProcC, CliNow, NimNow,
      ProcNow, LinkUp, Mine, ConnOk, ProcOk, NimOk, PlacesOk, Inv
  <2>18. MtuInv' BY <1>0, <2>1, <2>2, <2>3, <2>5, <2>6, NothingAsked DEF MtuInv, NimNow, LinkUp, Mine, ConnOk, NimOk,
      PlacesOk, Inv
  <2>19. QueuesQuiet BY <1>0, <2>4, <2>5, <2>7, <2>8 DEF QueuesQuiet, GattQuiet, CliNow, Mine, Inv
  <2>20. ConnGrows BY <1>0, <2>2, <2>3, <2>5, <2>6 DEF ConnGrows, NimNow, Mine, ConnOk, NimOk, Inv
  <2> QED BY <2>9, <2>10, <2>11, <2>12, <2>13, <2>14, <2>15, <2>16, <2>17, <2>18, <2>19, <2>20, DataKept DEF Inv,
      ProcInv, QueuesQuiet
<1>6. CASE Mine(nim.proc.gen,
    nim.proc.stage) /\ cli.entry.valid /\ cli' = [Finished(nim.proc.id) EXCEPT !.entry.mode = cli.proc.mode]
  <2>1. cb.kind = "none" /\ host = "running"
    BY <1>6, <1>0 DEF Callback, NoCb, ClientAnswered, Inv
  <2>2. nim.proc # NoProc
    BY <1>6, <1>0 DEF ClientAnswered, Inv
  <2>3. NimNow(nim.scan, nim.adv, nim.conn, nim.link, nim.links, nim.mtu, nim.ind, NoProc)
    BY <1>6, <1>0, NimProc, NothingAsked DEF Types, ClientAnswered, Inv
  <2>4. CliNow(cli'.entry, cli.q, cli.cur,
      cli'.proc) /\ cli'.entry.gen = cli.entry.gen /\ cli'.entry.valid = cli.entry.valid
        /\ ProcNow(FALSE, cli.proc.abandoned, cli.proc.complete, cli.proc.stage, cli.proc.gen, cli.proc.id,
             cli.proc.mode, nim.proc.id)
    BY <1>6, <1>0, CliModeSet DEF Types, NimOk, ClientAnswered, Inv
  <2>5. Mine(nim.proc.gen, nim.proc.stage) /\ cli.entry.valid BY <1>6
  <2>6. UNCHANGED <<fg, conn, cb>>
    BY <1>6, <1>0 DEF ClientAnswered, Callback, flags, stack
  <2>7. UNCHANGED <<srv>>
    BY <1>6, <1>0 DEF ClientAnswered, Callback, flags, stack
  <2>8. UNCHANGED <<roles, scan, adv, notices, heard, host, radio>>
    BY <1>6, <1>0 DEF ClientAnswered, Callback, flags, stack
  <2>9. Types' BY <1>0, <2>1, <2>2, <2>3, <2>4, <2>5, <2>6, <2>7, <2>8 DEF Types, CliNow, NimNow, ProcNow, Inv
  <2>10. CallInv' BY <1>0, <2>6 DEF CallInv, Inv
  <2>11. LinkInv' BY <1>0, <2>1, <2>2, <2>3, <2>5, <2>6, <2>8, NothingAsked DEF LinkInv, NimNow, LinkUp, Mine, ConnOk,
      NimOk, PlacesOk, Inv
  <2>12. PlaceInv' BY <1>0, <2>2, <2>3, <2>5, <2>6, <2>7, <2>8 DEF PlaceInv, NimNow, Mine, Holding, Closing, Clearing,
      ConnOk, IndOk, NimOk, PlacesOk, Inv
  <2>13. SubInv' BY <1>0, <2>4, <2>5, <2>6, <2>7, Constants, ClearedClient DEF SubInv, CliNow, Mine, ConnOk, IndOk,
      ProcOk, Inv
  <2>14. IndInv' BY <1>0, <2>1, <2>2, <2>3, <2>5, <2>6, <2>7, <2>8, NothingAsked DEF IndInv, NimNow, LinkUp, Mine,
      ConnOk, IndOk, NimOk, PlacesOk, Inv
  <2>15. ProcA' BY <1>0, <2>2, <2>3, <2>4, <2>5, <2>6, NothingAsked DEF ProcInv, ProcA, CliNow, NimNow, ProcNow, Mine,
      ConnOk, ProcOk, NimOk, LinkInv, LinkUp, SubInv, PlaceInv, Holding, Closing, Clearing, ProcB, ProcC, IndInv,
      PlacesOk, IndOk, ConnStates, ConnRoles, Inv
  <2>16. ProcB' BY <1>0, <2>1, <2>2, <2>3, <2>4, <2>5, <2>6, <2>8, NothingAsked DEF ProcInv, ProcB, CliNow, NimNow,
      ProcNow, LinkUp, Mine, ConnOk, ProcOk, NimOk, PlacesOk, LinkInv, SubInv, PlaceInv, Holding, Closing, Clearing,
      ProcA, ProcC, IndInv, IndOk, ConnStates, ConnRoles, Inv
  <2>17. ProcC' BY <1>0, <2>1, <2>2, <2>3, <2>4, <2>5, <2>6, <2>8, NothingAsked DEF ProcInv, ProcC, CliNow, NimNow,
      ProcNow, LinkUp, Mine, ConnOk, ProcOk, NimOk, PlacesOk, Inv
  <2>18. MtuInv' BY <1>0, <2>1, <2>2, <2>3, <2>5, <2>6, NothingAsked DEF MtuInv, NimNow, LinkUp, Mine, ConnOk, NimOk,
      PlacesOk, Inv
  <2>19. QueuesQuiet BY <1>0, <2>4, <2>5, <2>7, <2>8 DEF QueuesQuiet, GattQuiet, CliNow, Mine, Inv
  <2>20. ConnGrows BY <1>0, <2>2, <2>3, <2>5, <2>6 DEF ConnGrows, NimNow, Mine, ConnOk, NimOk, Inv
  <2> QED BY <2>9, <2>10, <2>11, <2>12, <2>13, <2>14, <2>15, <2>16, <2>17, <2>18, <2>19, <2>20, DataKept DEF Inv,
      ProcInv, QueuesQuiet
<1> QED BY <1>0, <1>1, <1>2, <1>3, <1>4, <1>5, <1>6 DEF ClientAnswered, Answered, ProcInv, ProcA, Inv, ProcOk, NimOk,
    Stages

LEMMA NotifiedKeeps ==
  ASSUME Inv, Notified
  PROVE  Inv'
<1>0. ConnOk /\ IndOk /\ QueuesOk /\ ProcOk /\ NimOk /\ PlacesOk /\ UseOk
  BY TypesFlat DEF Inv
<1>1. cb.kind = "none" /\ host = "running"
  BY <1>0 DEF Callback, NoCb, Notified, Inv
<1>2. LinkUp /\ conn.h /\ conn.st = "LIVE"
  BY <1>0 DEF Current, Notified, Inv
<1>3. heard + 1 \in Nat /\ heard + 1 # 0
  BY <1>0 DEF UseOk, Inv
<1>4. heard' = heard + 1
  BY <1>0, <1>3 DEF Numbered, Notified, Inv
<1>5. [gen |-> conn.gen, link |-> nim.link.id, id |-> heard + 1, to |-> 0] \in EntryT
  BY <1>0, <1>3 DEF ConnOk, NimOk, EntryT, Inv
<1>6. Append(cli.q, [gen |-> conn.gen, link |-> nim.link.id, id |-> heard + 1, to |-> 0]) \in Seq(EntryT)
  BY <1>0, <1>3, <1>5 DEF QueuesOk, Inv
<1>7. CliNow(cli.entry, Append(cli.q, [gen |-> conn.gen, link |-> nim.link.id, id |-> heard + 1, to |-> 0]), cli.cur,
    cli.proc)
  BY <1>0, <1>3, <1>5, <1>6, CliNotified DEF Types, Notified, Inv
<1>8. DataAt(Append(cli.q, [gen |-> conn.gen, link |-> nim.link.id, id |-> heard + 1, to |-> 0]), conn.gen, conn.link,
    conn.st)
  BY <1>0, <1>3, <1>5, <1>6, EntryData DEF DataInv, QueuesOk, Current, Notified, Inv
<1>9. UNCHANGED <<fg, conn, cb, nim>>
  BY <1>0 DEF Notified, Callback, flags, stack
<1>10. UNCHANGED <<srv>>
  BY <1>0 DEF Notified, Callback, flags, stack
<1>11. UNCHANGED <<roles, scan, adv, notices, host, radio>>
  BY <1>0 DEF Notified, Callback, flags, stack
<1>12. Types' BY <1>0, <1>1, <1>2, <1>3, <1>4, <1>5, <1>6, <1>7, <1>8, <1>9, <1>10, <1>11 DEF Types, CliNow, Inv
<1>13. CallInv' BY <1>0, <1>9 DEF CallInv, Inv
<1>14. LinkInv' BY <1>0, <1>1, <1>2, <1>5, <1>6, <1>8, <1>9, <1>11 DEF LinkInv, LinkUp, ConnOk, NimOk, PlacesOk, Inv
<1>15. PlaceInv' BY <1>0, <1>2, <1>5, <1>6, <1>8, <1>9, <1>10, <1>11 DEF PlaceInv, LinkUp, Holding, Closing, Clearing,
    ConnOk, IndOk, NimOk, PlacesOk, Inv
<1>16. SubInv' BY <1>0, <1>2, <1>5, <1>6, <1>7, <1>8, <1>9, <1>10, Constants, ClearedClient DEF SubInv, CliNow,
    LinkUp, ConnOk, IndOk, ProcOk, Inv
<1>17. IndInv' BY <1>0, <1>1, <1>2, <1>5, <1>6, <1>8, <1>9, <1>10, <1>11 DEF IndInv, LinkUp, ConnOk, IndOk, NimOk,
    PlacesOk, Inv
<1>18. ProcA' BY <1>0, <1>2, <1>5, <1>6, <1>7, <1>8, <1>9 DEF ProcInv, ProcA, CliNow, LinkUp, ConnOk, ProcOk, NimOk,
    Inv
<1>19. ProcB' BY <1>0, <1>1, <1>2, <1>5, <1>6, <1>7, <1>8, <1>9, <1>11 DEF ProcInv, ProcB, CliNow, LinkUp, ConnOk,
    ProcOk, NimOk, PlacesOk, Inv
<1>20. ProcC' BY <1>0, <1>1, <1>2, <1>5, <1>6, <1>7, <1>8, <1>9, <1>11 DEF ProcInv, ProcC, CliNow, LinkUp, ConnOk,
    ProcOk, NimOk, PlacesOk, Inv
<1>21. MtuInv' BY <1>0, <1>1, <1>2, <1>5, <1>6, <1>8, <1>9 DEF MtuInv, LinkUp, ConnOk, NimOk, PlacesOk, Inv
<1>22. DataInv' BY SMTT(60), <1>0, <1>2, <1>5, <1>6, <1>7, <1>8, <1>9, <1>10 DEF DataInv, SrvNow, CliNow, ConnOk,
    IndOk, ProcOk, Inv
<1> QED BY <1>12, <1>13, <1>14, <1>15, <1>16, <1>17, <1>18, <1>19, <1>20, <1>21, <1>22 DEF Inv, ProcInv

LEMMA NotificationNextKeeps ==
  ASSUME Inv, NotificationNext
  PROVE  Inv'
<1>0. ConnOk /\ IndOk /\ QueuesOk /\ ProcOk /\ NimOk /\ PlacesOk /\ UseOk
  BY TypesFlat DEF Inv
<1>1. fg.at = "idle"
  BY <1>0 DEF At, Calls, NotificationNext, Inv
<1>2. NextOf(cli.q).q \in Seq(EntryT) /\ NextOf(cli.q).cur \in EntryT
  BY <1>0, NextTypes DEF QueuesOk, ConnOk, Inv
<1>3. CliNow(cli.entry, NextOf(cli.q).q, NextOf(cli.q).cur, cli.proc)
  BY <1>0, <1>2, CliTaken DEF Types, NotificationNext, Inv
<1>4. UNCHANGED <<fg, conn, cb, nim>>
  BY <1>0 DEF NotificationNext, Calls, LeaveRadio, KeepGap, flags, stack
<1>5. UNCHANGED <<srv>>
  BY <1>0 DEF NotificationNext, Calls, LeaveRadio, KeepGap, flags, stack
<1>6. UNCHANGED <<roles, scan, adv, notices, heard, host, radio>>
  BY <1>0 DEF NotificationNext, Calls, LeaveRadio, KeepGap, flags, stack
<1>7. Types' BY <1>0, <1>1, <1>2, <1>3, <1>4, <1>5, <1>6 DEF Types, CliNow, Inv
<1>8. CallInv' BY <1>0, <1>1, <1>4 DEF CallInv, Inv
<1>9. LinkInv' BY <1>0, <1>4, <1>6 DEF LinkInv, LinkUp, ConnOk, NimOk, PlacesOk, Inv
<1>10. PlaceInv' BY <1>1, <1>4 DEF PlaceInv, Holding, Closing, Clearing, Inv
<1>11. SubInv' BY <1>0, <1>2, <1>3, <1>4, <1>5, Constants, ClearedClient DEF SubInv, CliNow, ConnOk, IndOk, ProcOk,
    Inv
<1>12. IndInv' BY <1>0, <1>1, <1>4, <1>5, <1>6 DEF IndInv, LinkUp, ConnOk, IndOk, NimOk, PlacesOk, Inv
<1>13. ProcA' BY <1>0, <1>2, <1>3, <1>4 DEF ProcInv, ProcA, CliNow, ConnOk, ProcOk, NimOk, Inv
<1>14. ProcB' BY <1>0, <1>1, <1>2, <1>3, <1>4, <1>6 DEF ProcInv, ProcB, CliNow, LinkUp, ConnOk, ProcOk, NimOk,
    PlacesOk, Inv
<1>15. ProcC' BY <1>0, <1>1, <1>2, <1>3, <1>4, <1>6 DEF ProcInv, ProcC, CliNow, LinkUp, ConnOk, ProcOk, NimOk,
    PlacesOk, Inv
<1>16. MtuInv' BY <1>0, <1>1, <1>4 DEF MtuInv, LinkUp, ConnOk, NimOk, PlacesOk, Inv
<1>17. DataInv' BY <1>0, <1>2, <1>3, <1>4, <1>5, NextData DEF DataInv, SrvNow, CliNow, ConnOk, IndOk, ProcOk,
    QueuesOk, Inv
<1> QED BY <1>7, <1>8, <1>9, <1>10, <1>11, <1>12, <1>13, <1>14, <1>15, <1>16, <1>17 DEF Inv, ProcInv

LEMMA OffAllKeeps ==
  ASSUME Inv, OffAll
  PROVE  Inv' /\ QueuesQuiet
<1>0. ConnOk /\ IndOk /\ QueuesOk /\ ProcOk /\ NimOk /\ PlacesOk /\ UseOk
  BY TypesFlat DEF Inv
<1>1. ScanNow("IDLE", scan'.gen, <<>>, 0) /\ scan'.gen >= scan.gen
  BY <1>0, AbandonedScan DEF OffAll, Inv
<1>2. AdvNow("IDLE", adv'.gen) /\ adv'.gen >= adv.gen
  BY <1>0, AbandonedAdv DEF OffAll, Inv
<1>3. ConnNow("FREE", "none", conn'.gen, FALSE, FALSE, FALSE, FALSE, FALSE, 0)
      /\ conn'.gen \in Nat /\ conn'.gen >= conn.gen /\ (conn.st # "FREE" => conn'.gen # conn.gen)
  BY <1>0, ClearedConn DEF ClearConnections, OffAll, Inv
<1>4. notices' = <<>>
  BY <1>0, <1>3 DEF OffAll, Inv
<1>5. SrvNow(NoSub, <<>>, NoWrite, srv'.ind) /\ IndKept(FALSE)
  BY <1>0, <1>3, SrvRadioOff DEF Types, OffAll, Inv
<1>6. CliNow(Unknown, <<>>, NoWrite, cli'.proc) /\ ProcNow(FALSE, FALSE, FALSE, "none", 0, 0, cli'.proc.mode, 0)
  BY <1>0, <1>3, CliClear DEF OffAll, Inv
<1>7. fg' = [op |-> "off", at |-> "clean", gen |-> 0, stay |-> TRUE] /\ fg' \in CallT
  BY <1>0, <1>3 DEF Off, Begin, CallT, Ops, RadioPhases, OffAll, Inv
<1>8. fg'.at = "clean"
  BY <1>0, <1>3, <1>7 DEF Inv
<1>9. fg.at = "idle"
  BY <1>0, <1>3 DEF At, Off, OffAll, Inv
<1>10. UNCHANGED <<nim, cb>>
  BY <1>0 DEF OffAll, flags, stack, Off
<1>11. UNCHANGED <<roles, heard, host, radio>>
  BY <1>0 DEF OffAll, flags, stack, Off
<1>12. Types' BY <1>0, <1>1, <1>2, <1>3, <1>4, <1>5, <1>6, <1>7, <1>8, <1>9, <1>10, <1>11 DEF Types, ConnNow, SrvNow,
    CliNow, ScanNow, AdvNow, IndKept, ProcNow, Inv
<1>13. CallInv' BY <1>0, <1>7, <1>8, <1>9 DEF CallInv, LinkInv, LinkUp, PlaceInv, Holding, Closing, Clearing, Inv
<1>14. LinkInv' BY <1>0, <1>3, <1>10, <1>11 DEF LinkInv, ConnNow, LinkUp, ConnOk, NimOk, PlacesOk, PlaceInv, Holding,
    Closing, Clearing, Inv
<1>15. PlaceInv' BY <1>0, <1>2, <1>3, <1>4, <1>5, <1>7, <1>8, <1>9, <1>10, Constants DEF PlaceInv, ConnNow, SrvNow,
    AdvNow, Holding, Closing, Clearing, ConnOk, IndOk, NimOk, PlacesOk, Inv
<1>16. SubInv' BY <1>0, <1>3, <1>5, <1>6, Constants, ClearedClient DEF SubInv, ConnNow, SrvNow, CliNow, ConnOk, IndOk,
    ProcOk, Inv
<1>17. IndInv' BY <1>0, <1>2, <1>3, <1>5, <1>7, <1>8, <1>9, <1>10 DEF IndInv, ConnNow, SrvNow, AdvNow, IndKept,
    LinkUp, ConnOk, IndOk, NimOk, PlacesOk, LinkInv, PlaceInv, Holding, Closing, Clearing, Inv
<1>18. ProcA' BY <1>0, <1>3, <1>6, <1>10 DEF ProcInv, ProcA, ConnNow, CliNow, ProcNow, ConnOk, ProcOk, NimOk, LinkInv,
    LinkUp, PlaceInv, Holding, Closing, Clearing, Inv
<1>19. ProcB' BY <1>0, <1>2, <1>3, <1>6, <1>7, <1>8, <1>9, <1>10 DEF ProcInv, ProcB, ConnNow, CliNow, AdvNow, ProcNow,
    LinkUp, ConnOk, ProcOk, NimOk, PlacesOk, Inv
<1>20. ProcC' BY <1>0, <1>2, <1>3, <1>6, <1>7, <1>8, <1>9, <1>10 DEF ProcInv, ProcC, ConnNow, CliNow, AdvNow, ProcNow,
    LinkUp, ConnOk, ProcOk, NimOk, PlacesOk, Inv
<1>21. MtuInv' BY <1>0, <1>3, <1>7, <1>8, <1>9, <1>10 DEF MtuInv, ConnNow, LinkUp, ConnOk, NimOk, PlacesOk, Inv
<1>22. QueuesQuiet BY <1>0, <1>1, <1>5, <1>6, <1>11 DEF QueuesQuiet, GattQuiet, SrvNow, CliNow, ScanNow, Inv
<1>23. ConnGrows BY <1>0, <1>3, <1>10 DEF ConnGrows, ConnNow, ConnOk, NimOk, LinkInv, LinkUp, PlaceInv, Holding,
    Closing, Clearing, Inv
<1> QED BY <1>12, <1>13, <1>14, <1>15, <1>16, <1>17, <1>18, <1>19, <1>20, <1>21, <1>22, <1>23, DataKept DEF Inv,
    ProcInv, QueuesQuiet

LEMMA ProjectClearKeeps ==
  ASSUME Inv, ProjectClear
  PROVE  Inv' /\ QueuesQuiet
<1>0. ConnOk /\ IndOk /\ QueuesOk /\ ProcOk /\ NimOk /\ PlacesOk /\ UseOk
  BY TypesFlat DEF Inv
<1>1. fg.at = "idle"
  BY <1>0 DEF At, Calls, ProjectClear, Inv
<1>2. ScanNow("IDLE", scan'.gen, <<>>, 0) /\ scan'.gen >= scan.gen
  BY <1>0, AbandonedScan DEF ProjectClear, Inv
<1>3. FgNow("clear", "clear.adv", 0)
  BY <1>0, FgDoes DEF Ops, GattPhases, Holding, Closing, Clearing, ProjectClear, Inv
<1>4. fg'.stay
  BY <1>0 DEF Do, ProjectClear, Inv
<1>5. UNCHANGED <<nim, cb, conn>>
  BY <1>0 DEF ProjectClear, LeaveRadio, KeepConn, flags, stack
<1>6. UNCHANGED <<srv, cli>>
  BY <1>0 DEF ProjectClear, LeaveRadio, KeepConn, flags, stack
<1>7. UNCHANGED <<roles, adv, heard, notices, host, radio>>
  BY <1>0 DEF ProjectClear, LeaveRadio, KeepConn, flags, stack
<1>8. Types' BY <1>0, <1>1, <1>2, <1>3, <1>4, <1>5, <1>6, <1>7 DEF Types, FgNow, ScanNow, Inv
<1>9. CallInv' BY <1>0, <1>1, <1>3, <1>4 DEF CallInv, FgNow, Clearing, LinkInv, LinkUp, PlaceInv, Holding, Closing,
    Inv
<1>10. LinkInv' BY <1>0, <1>5, <1>7 DEF LinkInv, LinkUp, ConnOk, NimOk, PlacesOk, Inv
<1>11. PlaceInv' BY <1>0, <1>1, <1>3, <1>4, <1>5, <1>6, <1>7 DEF PlaceInv, FgNow, Holding, Closing, Clearing, ConnOk,
    IndOk, NimOk, PlacesOk, Inv
<1>12. SubInv' BY <1>0, <1>5, <1>6 DEF SubInv, ConnOk, IndOk, ProcOk, Inv
<1>13. IndInv' BY <1>0, <1>1, <1>3, <1>4, <1>5, <1>6, <1>7 DEF IndInv, FgNow, LinkUp, ConnOk, IndOk, NimOk, PlacesOk,
    Inv
<1>14. ProcA' BY <1>0, <1>5, <1>6 DEF ProcInv, ProcA, ConnOk, ProcOk, NimOk, Inv
<1>15. ProcB' BY <1>0, <1>1, <1>3, <1>4, <1>5, <1>6, <1>7 DEF ProcInv, ProcB, FgNow, LinkUp, ConnOk, ProcOk, NimOk,
    PlacesOk, Inv
<1>16. ProcC' BY <1>0, <1>1, <1>3, <1>4, <1>5, <1>6, <1>7 DEF ProcInv, ProcC, FgNow, LinkUp, ConnOk, ProcOk, NimOk,
    PlacesOk, Inv
<1>17. MtuInv' BY <1>0, <1>1, <1>3, <1>4, <1>5 DEF MtuInv, FgNow, LinkUp, ConnOk, NimOk, PlacesOk, Inv
<1>18. QueuesQuiet BY <1>0, <1>2, <1>6, <1>7 DEF QueuesQuiet, GattQuiet, ScanNow, Inv
<1>19. ConnGrows BY <1>0, <1>5 DEF ConnGrows, ConnOk, NimOk, Inv
<1> QED BY <1>8, <1>9, <1>10, <1>11, <1>12, <1>13, <1>14, <1>15, <1>16, <1>17, <1>18, <1>19, DataKept DEF Inv,
    ProcInv, QueuesQuiet

LEMMA ClearAdvertisingKeeps ==
  ASSUME Inv, ClearAdvertising
  PROVE  Inv' /\ QueuesQuiet
<1>0. ConnOk /\ IndOk /\ QueuesOk /\ ProcOk /\ NimOk /\ PlacesOk /\ UseOk
  BY TypesFlat DEF Inv
<1>1. fg.at = "clear.adv"
  BY <1>0 DEF At, Calls, ClearAdvertising, Inv
<1>2. AdvNow("IDLE", adv'.gen) /\ adv'.gen >= adv.gen
  BY <1>0, AbandonedAdv DEF ClearAdvertising, Inv
<1>3. FgNow(fg.op, "clear.conn", fg.gen)
  BY <1>0, FgGoes DEF GattPhases, RadioPhases, Holding, Closing, Clearing, Types, ClearAdvertising, Inv
<1>4. fg'.stay = fg.stay
  BY <1>0 DEF Go, PlacesOk, Types, CallT, ClearAdvertising, Inv
<1>5. UNCHANGED <<nim, cb, conn>>
  BY <1>0 DEF ClearAdvertising, LeaveRadio, KeepConn, flags, stack
<1>6. UNCHANGED <<srv, cli>>
  BY <1>0 DEF ClearAdvertising, LeaveRadio, KeepConn, flags, stack
<1>7. UNCHANGED <<roles, scan, heard, notices, host, radio>>
  BY <1>0 DEF ClearAdvertising, LeaveRadio, KeepConn, flags, stack
<1>8. Types' BY <1>0, <1>1, <1>2, <1>3, <1>4, <1>5, <1>6, <1>7 DEF Types, FgNow, AdvNow, Inv
<1>9. CallInv' BY <1>0, <1>1, <1>3, <1>4 DEF CallInv, FgNow, Clearing, LinkInv, LinkUp, PlaceInv, Holding, Closing,
    Inv
<1>10. LinkInv' BY <1>0, <1>5, <1>7 DEF LinkInv, LinkUp, ConnOk, NimOk, PlacesOk, Inv
<1>11. PlaceInv' BY <1>0, <1>1, <1>2, <1>3, <1>4, <1>5, <1>6, <1>7 DEF PlaceInv, FgNow, AdvNow, Holding, Closing,
    Clearing, ConnOk, IndOk, NimOk, PlacesOk, Inv
<1>12. SubInv' BY <1>0, <1>5, <1>6 DEF SubInv, ConnOk, IndOk, ProcOk, Inv
<1>13. IndInv' BY <1>0, <1>1, <1>2, <1>3, <1>4, <1>5, <1>6 DEF IndInv, FgNow, AdvNow, LinkUp, ConnOk, IndOk, NimOk,
    PlacesOk, Inv
<1>14. ProcA' BY <1>0, <1>5, <1>6 DEF ProcInv, ProcA, ConnOk, ProcOk, NimOk, Inv
<1>15. ProcB' BY <1>0, <1>1, <1>2, <1>3, <1>4, <1>5, <1>6 DEF ProcInv, ProcB, FgNow, AdvNow, LinkUp, ConnOk, ProcOk,
    NimOk, PlacesOk, Inv
<1>16. ProcC' BY <1>0, <1>1, <1>2, <1>3, <1>4, <1>5, <1>6 DEF ProcInv, ProcC, FgNow, AdvNow, LinkUp, ConnOk, ProcOk,
    NimOk, PlacesOk, Inv
<1>17. MtuInv' BY <1>0, <1>1, <1>3, <1>4, <1>5 DEF MtuInv, FgNow, LinkUp, ConnOk, NimOk, PlacesOk, Inv
<1>18. QueuesQuiet BY <1>0, <1>6, <1>7 DEF QueuesQuiet, GattQuiet, Inv
<1>19. ConnGrows BY <1>0, <1>5 DEF ConnGrows, ConnOk, NimOk, Inv
<1> QED BY <1>8, <1>9, <1>10, <1>11, <1>12, <1>13, <1>14, <1>15, <1>16, <1>17, <1>18, <1>19, DataKept DEF Inv,
    ProcInv, QueuesQuiet

LEMMA ClearLinkKeeps ==
  ASSUME Inv, ClearLink
  PROVE  Inv' /\ QueuesQuiet
<1>0. ConnOk /\ IndOk /\ QueuesOk /\ ProcOk /\ NimOk /\ PlacesOk /\ UseOk
  BY TypesFlat DEF Inv
<1>1. fg.at = "clear.conn"
  BY <1>0 DEF At, Calls, ClearLink, Inv
<1>2. FgNow(fg.op, "clear.server", fg.gen)
  BY <1>0, FgGoes DEF GattPhases, RadioPhases, Holding, Closing, Clearing, Types, ClearLink, Inv
<1>3. fg'.stay = fg.stay
  BY <1>0 DEF Go, PlacesOk, Types, CallT, ClearLink, Inv
<1>4. ConnNow("FREE", "none", conn'.gen, FALSE, FALSE, FALSE, FALSE, FALSE, 0)
      /\ conn'.gen \in Nat /\ conn'.gen >= conn.gen /\ (conn.st # "FREE" => conn'.gen # conn.gen)
  BY <1>0, ClearedConn DEF ClearConnections, ClearLink, Inv
<1>5. notices' = <<>>
  BY <1>0, <1>4 DEF ClearConnections, ClearLink, Inv
<1>6. SrvNow(NoSub, srv.q, srv.cur, srv'.ind) /\ IndKept(srv.ind.pending /\ srv.ind.gen # conn'.gen)
  BY <1>0, <1>4, SrvClosed DEF Types, ConnNow, ConnT, ClearConnections, FreeConn, ClearLink, Inv
<1>7. CliNow(Unknown, cli.q, cli.cur, cli'.proc)
      /\ ProcNow(cli.proc.pending /\ cli.proc.gen # conn'.gen, cli.proc.abandoned, cli.proc.complete, cli.proc.stage,
           cli.proc.gen, cli.proc.id, cli.proc.mode, cli.proc.answer)
  BY <1>0, <1>4, CliClosed DEF Types, ConnNow, ConnT, ClearConnections, FreeConn, ClearLink, Inv
<1>8. UNCHANGED <<nim, cb>>
  BY <1>0 DEF ClearLink, LeaveRadio, flags, stack, ClearConnections
<1>9. UNCHANGED <<roles, scan, adv, heard, host, radio>>
  BY <1>0 DEF ClearLink, LeaveRadio, flags, stack, ClearConnections
<1>10. Types' BY <1>0, <1>1, <1>2, <1>3, <1>4, <1>5, <1>6, <1>7, <1>8, <1>9 DEF Types, ConnNow, SrvNow, CliNow, FgNow,
    IndKept, ProcNow, Inv
<1>11. CallInv' BY <1>0, <1>1, <1>2, <1>3 DEF CallInv, FgNow, Clearing, LinkInv, LinkUp, PlaceInv, Holding, Closing,
    Inv
<1>12. LinkInv' BY <1>0, <1>1, <1>4, <1>8, <1>9 DEF LinkInv, ConnNow, LinkUp, ConnOk, NimOk, PlacesOk, PlaceInv,
    Holding, Closing, Clearing, Inv
<1>13. PlaceInv' BY <1>0, <1>1, <1>2, <1>3, <1>4, <1>5, <1>6, <1>8, <1>9, Constants DEF PlaceInv, ConnNow, SrvNow,
    FgNow, Holding, Closing, Clearing, ConnOk, IndOk, NimOk, PlacesOk, Inv
<1>14. SubInv' BY <1>0, <1>1, <1>4, <1>6, <1>7, Constants, ClearedClient DEF SubInv, ConnNow, SrvNow, CliNow, ConnOk,
    IndOk, ProcOk, Inv
<1>15. IndInv' BY <1>0, <1>1, <1>2, <1>3, <1>4, <1>6, <1>8, <1>9 DEF IndInv, ConnNow, SrvNow, FgNow, IndKept, LinkUp,
    ConnOk, IndOk, NimOk, PlacesOk, LinkInv, PlaceInv, Holding, Closing, Clearing, Inv
<1>16. ProcA' BY <1>0, <1>1, <1>4, <1>7, <1>8 DEF ProcInv, ProcA, ConnNow, CliNow, ProcNow, ConnOk, ProcOk, NimOk,
    LinkInv, LinkUp, PlaceInv, Holding, Closing, Clearing, Inv
<1>17. ProcB' BY <1>0, <1>1, <1>2, <1>3, <1>4, <1>7, <1>8, <1>9 DEF ProcInv, ProcB, ConnNow, CliNow, FgNow, ProcNow,
    LinkUp, ConnOk, ProcOk, NimOk, PlacesOk, Inv
<1>18. ProcC' BY <1>0, <1>1, <1>2, <1>3, <1>4, <1>7, <1>8, <1>9 DEF ProcInv, ProcC, ConnNow, CliNow, FgNow, ProcNow,
    LinkUp, ConnOk, ProcOk, NimOk, PlacesOk, Inv
<1>19. MtuInv' BY <1>0, <1>1, <1>2, <1>3, <1>4, <1>8 DEF MtuInv, ConnNow, FgNow, LinkUp, ConnOk, NimOk, PlacesOk, Inv
<1>20. QueuesQuiet BY <1>0, <1>6, <1>7, <1>9 DEF QueuesQuiet, GattQuiet, SrvNow, CliNow, Inv
<1>21. ConnGrows BY <1>0, <1>1, <1>4, <1>8 DEF ConnGrows, ConnNow, ConnOk, NimOk, LinkInv, LinkUp, PlaceInv, Holding,
    Closing, Clearing, Inv
<1> QED BY <1>10, <1>11, <1>12, <1>13, <1>14, <1>15, <1>16, <1>17, <1>18, <1>19, <1>20, <1>21, DataKept DEF Inv,
    ProcInv, QueuesQuiet

LEMMA ClearServerKeeps ==
  ASSUME Inv, ClearServer
  PROVE  Inv' /\ QueuesQuiet
<1>0. ConnOk /\ IndOk /\ QueuesOk /\ ProcOk /\ NimOk /\ PlacesOk /\ UseOk
  BY TypesFlat DEF Inv
<1>1. fg.at = "clear.server"
  BY <1>0 DEF At, Calls, ClearServer, Inv
<1>2. FgNow(fg.op, "clear.client", fg.gen)
  BY <1>0, FgGoes DEF GattPhases, RadioPhases, Holding, Closing, Clearing, Types, ClearServer, Inv
<1>3. fg'.stay = fg.stay
  BY <1>0 DEF Go, PlacesOk, Types, CallT, ClearServer, Inv
<1>4. SrvNow(NoSub, <<>>, NoWrite, srv'.ind) /\ IndKept(FALSE)
  BY <1>0, SrvRadioOff DEF Types, ClearServer, Inv
<1>5. UNCHANGED <<conn, cb, nim>>
  BY <1>0 DEF ClearServer, LeaveRadio, KeepGap, flags, stack
<1>6. UNCHANGED <<cli>>
  BY <1>0 DEF ClearServer, LeaveRadio, KeepGap, flags, stack
<1>7. UNCHANGED <<roles, scan, adv, notices, heard, host, radio>>
  BY <1>0 DEF ClearServer, LeaveRadio, KeepGap, flags, stack
<1>8. Types' BY <1>0, <1>1, <1>2, <1>3, <1>4, <1>5, <1>6, <1>7 DEF Types, SrvNow, FgNow, IndKept, Inv
<1>9. CallInv' BY <1>0, <1>1, <1>2, <1>3 DEF CallInv, FgNow, Clearing, LinkInv, LinkUp, PlaceInv, Holding, Closing,
    Inv
<1>10. LinkInv' BY <1>0, <1>5, <1>7 DEF LinkInv, LinkUp, ConnOk, NimOk, PlacesOk, Inv
<1>11. PlaceInv' BY <1>0, <1>1, <1>2, <1>3, <1>4, <1>5, <1>7, Constants DEF PlaceInv, SrvNow, FgNow, Holding, Closing,
    Clearing, ConnOk, IndOk, NimOk, PlacesOk, Inv
<1>12. SubInv' BY <1>0, <1>4, <1>5, <1>6, Constants, ClearedClient DEF SubInv, SrvNow, ConnOk, IndOk, ProcOk, Inv
<1>13. IndInv' BY <1>0, <1>1, <1>2, <1>3, <1>4, <1>5, <1>7 DEF IndInv, SrvNow, FgNow, IndKept, LinkUp, ConnOk, IndOk,
    NimOk, PlacesOk, LinkInv, PlaceInv, Holding, Closing, Clearing, Inv
<1>14. ProcA' BY <1>0, <1>5, <1>6 DEF ProcInv, ProcA, ConnOk, ProcOk, NimOk, Inv
<1>15. ProcB' BY <1>0, <1>1, <1>2, <1>3, <1>5, <1>6, <1>7 DEF ProcInv, ProcB, FgNow, LinkUp, ConnOk, ProcOk, NimOk,
    PlacesOk, Inv
<1>16. ProcC' BY <1>0, <1>1, <1>2, <1>3, <1>5, <1>6, <1>7 DEF ProcInv, ProcC, FgNow, LinkUp, ConnOk, ProcOk, NimOk,
    PlacesOk, Inv
<1>17. MtuInv' BY <1>0, <1>1, <1>2, <1>3, <1>5 DEF MtuInv, FgNow, LinkUp, ConnOk, NimOk, PlacesOk, Inv
<1>18. QueuesQuiet BY <1>0, <1>4, <1>6, <1>7 DEF QueuesQuiet, GattQuiet, SrvNow, Inv
<1>19. ConnGrows BY <1>0, <1>5 DEF ConnGrows, ConnOk, NimOk, Inv
<1> QED BY <1>8, <1>9, <1>10, <1>11, <1>12, <1>13, <1>14, <1>15, <1>16, <1>17, <1>18, <1>19, DataKept DEF Inv,
    ProcInv, QueuesQuiet

LEMMA ClearClientKeeps ==
  ASSUME Inv, ClearClient
  PROVE  Inv' /\ QueuesQuiet
<1>0. ConnOk /\ IndOk /\ QueuesOk /\ ProcOk /\ NimOk /\ PlacesOk /\ UseOk
  BY TypesFlat DEF Inv
<1>1. fg.at = "clear.client"
  BY <1>0 DEF At, Calls, ClearClient, Inv
<1>2. FgNow(fg.op, "clean", fg.gen)
  BY <1>0, FgGoes DEF GattPhases, RadioPhases, Holding, Closing, Clearing, Types, ClearClient, Inv
<1>3. CliNow(Unknown, <<>>, NoWrite, cli'.proc) /\ ProcNow(FALSE, FALSE, FALSE, "none", 0, 0, cli'.proc.mode, 0)
  BY <1>0, CliClear DEF ClearClient, Inv
<1>4. UNCHANGED <<conn, cb, nim>>
  BY <1>0 DEF ClearClient, LeaveRadio, KeepGap, flags, stack
<1>5. UNCHANGED <<srv>>
  BY <1>0 DEF ClearClient, LeaveRadio, KeepGap, flags, stack
<1>6. UNCHANGED <<roles, scan, adv, notices, heard, host, radio>>
  BY <1>0 DEF ClearClient, LeaveRadio, KeepGap, flags, stack
<1>7. Types' BY <1>0, <1>1, <1>2, <1>3, <1>4, <1>5, <1>6 DEF Types, CliNow, FgNow, ProcNow, Inv
<1>8. CallInv' BY <1>0, <1>1, <1>2 DEF CallInv, FgNow, Clearing, Inv
<1>9. LinkInv' BY <1>0, <1>4, <1>6 DEF LinkInv, LinkUp, ConnOk, NimOk, PlacesOk, Inv
<1>10. PlaceInv' BY <1>0, <1>1, <1>2, <1>4, <1>5, <1>6 DEF PlaceInv, FgNow, Holding, Closing, Clearing, ConnOk, IndOk,
    NimOk, PlacesOk, Inv
<1>11. SubInv' BY <1>0, <1>3, <1>4, <1>5, Constants, ClearedClient DEF SubInv, CliNow, ConnOk, IndOk, ProcOk, Inv
<1>12. IndInv' BY <1>0, <1>1, <1>2, <1>4, <1>5, <1>6 DEF IndInv, FgNow, LinkUp, ConnOk, IndOk, NimOk, PlacesOk, Inv
<1>13. ProcA' BY <1>0, <1>3, <1>4 DEF ProcInv, ProcA, CliNow, ProcNow, ConnOk, ProcOk, NimOk, Inv
<1>14. ProcB' BY <1>0, <1>1, <1>2, <1>3, <1>4, <1>6 DEF ProcInv, ProcB, CliNow, FgNow, ProcNow, LinkUp, ConnOk,
    ProcOk, NimOk, PlacesOk, LinkInv, PlaceInv, Holding, Closing, Clearing, Inv
<1>15. ProcC' BY <1>0, <1>1, <1>2, <1>3, <1>4, <1>6 DEF ProcInv, ProcC, CliNow, FgNow, ProcNow, LinkUp, ConnOk,
    ProcOk, NimOk, PlacesOk, Inv
<1>16. MtuInv' BY <1>0, <1>1, <1>2, <1>4 DEF MtuInv, FgNow, LinkUp, ConnOk, NimOk, PlacesOk, Inv
<1>17. QueuesQuiet BY <1>0, <1>3, <1>5, <1>6 DEF QueuesQuiet, GattQuiet, CliNow, Inv
<1>18. ConnGrows BY <1>0, <1>4 DEF ConnGrows, ConnOk, NimOk, Inv
<1> QED BY <1>7, <1>8, <1>9, <1>10, <1>11, <1>12, <1>13, <1>14, <1>15, <1>16, <1>17, <1>18, DataKept DEF Inv, ProcInv,
    QueuesQuiet
=============================================================================
