----------------------------- MODULE FrothySend -----------------------------
(***************************************************************************)
(* `frothy send`, `frothy install` and `frothy wipe-user`                  *)
(* (cmd/frothy-session/main.go, install.go, wipe_user.go) over the serial  *)
(* line to a board's prompt (src/repl.c, targets/esp-idf/platform.c).      *)
(*                                                                         *)
(* The host writes a line and reads until the next prompt; nothing on the  *)
(* line says which request an answer belongs to.  A wait that times out is *)
(* followed by another line, or by Ctrl-C, while the first answer may      *)
(* still come.                                                             *)
(***************************************************************************)
EXTENDS Naturals, Sequences

CONSTANTS
    MaxForms,   \* bound: forms of a file or a library
    MaxResends, \* bound: status requests sent again before the deadline
    MaxSignals, \* bound: times the user presses Ctrl-C
    TypeAhead   \* lines FR_ESP_TYPEAHEAD_BYTES holds

ASSUME SendAssumption == {MaxForms, MaxResends, MaxSignals, TypeAhead} \subseteq Nat

VARIABLES
    rx,       \* what the host has written and the board not read
    ahead,    \* what the board read while a program ran
    board,    \* it boots, waits at its prompt, or evaluates a line
    req,      \* the line it evaluates
    tier,     \* runtime.install_tier
    tx,       \* what the board has written and the host not read
    verb,     \* what the host runs
    wait,     \* what the host waits for, or "done"
    text,     \* what it has read since it began to wait
    part,     \* the status in what it read of a form's answer before the time-out
    rest,     \* forms left to send
    tries,    \* answers readDeviceStatus has read
    resends,  \* status requests sent after a time-out
    failed,   \* a step failed
    tracker,  \* interruptTracker
    forward,  \* the signal goroutine is about to send Ctrl-C
    signals,  \* Ctrl-C pressed so far
    sends,    \* lines written so far: a line's number
    gaveUp,   \* history: the lines whose wait timed out
    late,     \* history: an answer came that the host had stopped waiting for
    verdict,  \* history: how the board ended each line
    answers   \* history: the line whose answer was taken for each line's

boardVars == <<rx, ahead, board, req, tier, tx>>
hostVars == <<verb, wait, text, part, rest, tries, resends, failed, tracker, forward, signals, sends>>
sendHistory == <<gaveUp, late, verdict, answers>>
sendVars == <<boardVars, hostVars, sendHistory>>

Lines == 1 .. MaxForms + MaxResends + 6
CtrlC == [n |-> 0, what |-> "ctrlc"]
Out(n, k) == [of |-> n, k |-> k]
Prompt(n) == Out(n, "prompt")
Idle == [active |-> FALSE, requested |-> FALSE]

SendInit ==
    /\ rx = <<>> /\ ahead = <<>> /\ req = CtrlC /\ tier = "user"
    /\ board \in {"booting", "prompt"}
    /\ tx \in IF board = "booting" THEN {<<>>} ELSE {<<>>, <<Prompt(0)>>}
    /\ verb \in {"send", "install", "wipe-user"}
    /\ wait = "start" /\ text = <<>> /\ part = "none" /\ tries = 0 /\ resends = 0
    /\ rest \in IF verb = "wipe-user" THEN {0} ELSE 1 .. MaxForms
    /\ failed = FALSE /\ tracker = Idle /\ forward = FALSE /\ signals = 0 /\ sends = 0
    /\ gaveUp = {} /\ late = FALSE
    /\ verdict = [n \in Lines |-> "none"] /\ answers = [n \in Lines |-> n]

(***************************************************************************)
(* The board.                                                              *)
(***************************************************************************)

\* What arrives before the console driver is up is lost; a program that could
\* not be restored is reported in the form of an answer.
Boot ==
    /\ board = "booting" /\ board' = "prompt"
    /\ rx' \in {<<>>, rx}
    /\ \E report \in {<<>>, <<Out(0, "error")>>} : tx' = tx \o report \o <<Prompt(0)>>
    /\ late' = (0 \in gaveUp)
    /\ UNCHANGED <<ahead, req, tier, hostVars, gaveUp, verdict, answers>>

Input == ahead \o rx
TakeInput ==
    IF ahead # <<>> THEN ahead' = Tail(ahead) /\ rx' = rx ELSE rx' = Tail(rx) /\ ahead' = ahead

ReadLine ==
    /\ board = "prompt" /\ Input # <<>> /\ Head(Input) # CtrlC
    /\ TakeInput /\ board' = "running" /\ req' = Head(Input)
    /\ UNCHANGED <<tier, tx, hostVars, sendHistory>>

\* At the prompt Ctrl-C is an empty line, and an empty line answers ok.
ReadCtrlC ==
    /\ board = "prompt" /\ Input # <<>> /\ Head(Input) = CtrlC
    /\ TakeInput /\ tx' = tx \o <<Out(0, "ok"), Prompt(0)>>
    /\ late' = TRUE
    /\ UNCHANGED <<board, req, tier, hostVars, gaveUp, verdict, answers>>

\* (Mutant of TierAfter: library mode is left by a restart only.)
TierAfterRestart(line, k) == IF line.what = "library" /\ k = "ok" THEN "library" ELSE tier
TierAfter(line, k) ==
    CASE line.what = "library" /\ k = "ok" -> "library"
      [] line.what = "user" -> "user"
      [] OTHER -> tier

Answered(k, end) ==
    /\ tx' = tx \o (IF req.what = "status" THEN <<Out(req.n, "info")>> ELSE <<>>)
                \o <<Out(req.n, k), Prompt(req.n)>>
    /\ board' = "prompt" /\ verdict' = [verdict EXCEPT ![req.n] = end]
    /\ late' = (late \/ (end # "interrupted" /\ req.n \in gaveUp))
    /\ UNCHANGED <<req, hostVars, gaveUp, answers>>

\* A line that is evaluated ends, in ok or in an error where it can fail.
Evaluate ==
    /\ board = "running"
    /\ \E k \in IF req.what \in {"library", "wipe", "form"} THEN {"ok", "error"} ELSE {"ok"} :
         /\ Answered(k, k) /\ tier' = TierAfter(req, k)
    /\ UNCHANGED <<rx, ahead>>

\* Only a program looks at the console: Ctrl-C ends it and drops what was typed
\* before, anything else waits in the typeahead.
Poll ==
    /\ board = "running" /\ req.what = "form" /\ rx # <<>>
    /\ rx' = Tail(rx) /\ UNCHANGED tier
    /\ \/ /\ Head(rx) = CtrlC
          /\ ahead' = <<>> /\ Answered("ok", "interrupted")
       \/ /\ Head(rx) # CtrlC
          /\ ahead' = IF Len(ahead) < TypeAhead THEN Append(ahead, Head(rx)) ELSE ahead
          /\ UNCHANGED <<board, req, tx, hostVars, sendHistory>>

BoardNext == Boot \/ ReadLine \/ ReadCtrlC \/ Evaluate \/ Poll

(***************************************************************************)
(* The host.                                                               *)
(***************************************************************************)

\* The places of the status lines in a text: the first one is its status.
Statuses(t) == {i \in DOMAIN t : t[i].k \in {"ok", "error"}}
Status(t) ==
    IF Statuses(t) = {} THEN "none"
    ELSE t[CHOOSE i \in Statuses(t) : \A j \in Statuses(t) : i <= j].k

\* (Mutant of PromptComplete: a prompt is enough.)
PromptCompleteBare(t, requireStatus) == t # <<>> /\ t[Len(t)].k = "prompt"
PromptComplete(t, requireStatus) ==
    /\ t # <<>> /\ t[Len(t)].k = "prompt"
    /\ requireStatus => Statuses(t) # {}

Arrived == Append(text, Head(tx))
Syncing == wait \in {"sync", "sync again"}
Waiting == wait \notin {"start", "done"}
Response == Waiting /\ tx # <<>> /\ PromptComplete(Arrived, ~Syncing)
TakeByte == tx' = Tail(tx) /\ UNCHANGED <<rx, ahead, board, req, tier>>

\* The byte the host has read does not complete an answer.
Receive ==
    /\ Waiting /\ tx # <<>> /\ ~PromptComplete(Arrived, ~Syncing)
    /\ text' = Arrived /\ TakeByte
    /\ UNCHANGED <<verb, wait, part, rest, tries, resends, failed, tracker, forward, signals,
                   sends, sendHistory>>

Write(line) == rx' = Append(rx, line)

\* sendLine writes the line and begins to wait.
Send(what, for) ==
    /\ sends' = sends + 1 /\ Write([n |-> sends + 1, what |-> what])
    /\ wait' = for /\ text' = <<>>

End(bad) ==
    /\ wait' = "done" /\ failed' = (failed \/ bad) /\ text' = <<>>
    /\ UNCHANGED <<rx, sends>>

\* The next form of a file: the tracker is armed first.
NextForm ==
    /\ Send("form", "form") /\ rest' = rest - 1 /\ UNCHANGED failed
    /\ tracker' = IF verb = "send" THEN [active |-> TRUE, requested |-> FALSE] ELSE tracker

\* endLibraryMode, after the last form or a failure.
LeaveLibrary(bad) ==
    /\ Send("user", "user") /\ failed' = (failed \/ bad) /\ UNCHANGED <<rest, tracker>>

Quiet == UNCHANGED <<ahead, board, req, tier, verb, part, forward, signals, gaveUp, late, verdict>>
Kept == UNCHANGED <<rest, tries, resends, failed, tracker>>
\* The prompt that completes an answer is of the same line as its status.
TookAnswer(n) == answers' = [answers EXCEPT ![n] = Head(tx).of]

Start ==
    /\ wait = "start" /\ UNCHANGED <<tx, answers>> /\ Quiet /\ Kept
    /\ IF verb = "send" THEN Send("status", "status")
       ELSE wait' = "sync" /\ UNCHANGED <<rx, text, sends>>

AnswerSync ==
    /\ Response /\ Syncing /\ tx' = Tail(tx) /\ Quiet /\ Kept /\ UNCHANGED answers
    /\ IF verb = "install" THEN Send("status", "status") ELSE Send("wipe", "wipe")

\* An answer without a status line is final the second time, an error at once.
AnswerStatus ==
    /\ Response /\ wait = "status" /\ tx' = Tail(tx) /\ Quiet
    /\ tries' = tries + 1 /\ UNCHANGED <<resends, answers>>
    /\ LET good == Status(Arrived) = "ok" /\ \E i \in DOMAIN Arrived : Arrived[i].k = "info"
       IN \/ /\ good /\ verb = "send" /\ NextForm
          \/ /\ good /\ verb = "install" /\ Send("library", "library")
             /\ UNCHANGED <<rest, failed, tracker>>
          \/ /\ ~good /\ Status(Arrived) # "error" /\ tries = 0
             /\ Send("status", "status") /\ UNCHANGED <<rest, failed, tracker>>
          \/ /\ ~good /\ (Status(Arrived) = "error" \/ tries # 0)
             /\ End(TRUE) /\ UNCHANGED <<rest, tracker>>

\* A library that was refused is not left: the board never entered it.
AnswerLibrary ==
    /\ Response /\ wait = "library" /\ tx' = Tail(tx) /\ Quiet /\ TookAnswer(sends)
    /\ UNCHANGED <<tries, resends>>
    /\ \/ Status(Arrived) = "ok" /\ NextForm
       \/ Status(Arrived) = "error" /\ End(TRUE) /\ UNCHANGED <<rest, tracker>>

\* (Mutant of AfterLibraryForm: a failed line ends the install.)
AfterLibraryFormStops(k) ==
    IF k = "error" THEN End(TRUE) /\ UNCHANGED <<rest, tracker>>
    ELSE IF rest = 0 THEN LeaveLibrary(FALSE) ELSE NextForm
AfterLibraryForm(k) ==
    IF k = "error" THEN LeaveLibrary(TRUE)
    ELSE IF rest = 0 THEN LeaveLibrary(FALSE) ELSE NextForm

AnswerLibraryForm ==
    /\ Response /\ wait = "form" /\ verb = "install" /\ tx' = Tail(tx) /\ Quiet
    /\ TookAnswer(sends) /\ UNCHANGED <<tries, resends>> /\ AfterLibraryForm(Status(Arrived))

\* The prompt disarms the tracker and says whether Ctrl-C was sent; a form that
\* failed ends the file.
AnswerForm ==
    /\ Response /\ wait = "form" /\ verb = "send" /\ tx' = Tail(tx) /\ Quiet
    /\ TookAnswer(sends) /\ UNCHANGED <<tries, resends>>
    /\ \/ Status(Arrived) = "error" /\ tracker' = Idle /\ End(TRUE) /\ UNCHANGED rest
       \/ /\ Status(Arrived) = "ok" /\ rest = 0
          /\ tracker' = Idle /\ End(FALSE) /\ UNCHANGED rest
       \/ Status(Arrived) = "ok" /\ rest # 0 /\ NextForm

\* The form's answer or the one to Ctrl-C: either may hold the status.
AnswerRecover ==
    /\ Response /\ wait = "recover" /\ tx' = Tail(tx) /\ Quiet /\ TookAnswer(sends)
    /\ UNCHANGED <<tries, resends>>
    /\ LET settled == "ok" \in {Status(Arrived), part}
       IN \/ settled /\ rest # 0 /\ NextForm
          \/ (settled => rest = 0) /\ End(~settled) /\ UNCHANGED <<rest, tracker>>

AnswerLast ==
    /\ Response /\ wait \in {"user", "wipe"} /\ tx' = Tail(tx) /\ Quiet /\ TookAnswer(sends)
    /\ UNCHANGED <<tries, resends, rest, tracker>> /\ End(Status(Arrived) = "error")

GiveUp == gaveUp' = gaveUp \cup {sends}
\* Part of the answer is on its way.
Coming == \E i \in DOMAIN (text \o tx) : (text \o tx)[i].of = sends
TimeoutKeeps ==
    /\ UNCHANGED <<tx, ahead, board, req, tier, verb, signals, verdict, answers, tries>>
    /\ late' = (late \/ Coming)

\* readUntilPrompt gives up while syncPrompt reads: an empty line asks again.
TimeoutSync ==
    /\ Syncing /\ TimeoutKeeps /\ GiveUp /\ UNCHANGED <<part, resends, rest, tracker, forward>>
    /\ IF wait = "sync" THEN Send("blank", "sync again") /\ UNCHANGED failed ELSE End(TRUE)

TimeoutStatus ==
    /\ wait = "status" /\ TimeoutKeeps /\ GiveUp /\ UNCHANGED <<part, rest, tracker, forward>>
    /\ \/ /\ resends < MaxResends /\ resends' = resends + 1
          /\ Send("status", "status") /\ UNCHANGED failed
       \/ End(TRUE) /\ UNCHANGED resends

\* A form of a file is interrupted; what was read of its answer is kept.
TimeoutForm ==
    /\ wait = "form" /\ verb = "send" /\ TimeoutKeeps /\ GiveUp
    /\ tracker' = Idle /\ Write(CtrlC) /\ wait' = "recover" /\ text' = <<>>
    /\ part' = Status(text)
    /\ UNCHANGED <<sends, rest, resends, failed, forward>>

TimeoutLibrary ==
    /\ wait \in {"library", "form"} /\ verb = "install" /\ TimeoutKeeps /\ GiveUp
    /\ UNCHANGED <<part, resends, forward>> /\ LeaveLibrary(TRUE)

TimeoutLast ==
    /\ wait \in {"recover", "user", "wipe"} /\ TimeoutKeeps /\ GiveUp
    /\ UNCHANGED <<part, rest, resends, tracker, forward>> /\ End(TRUE)

\* The user presses Ctrl-C: while a form runs the tracker asks the signal
\* goroutine to send it, which is a step of its own.
Interrupt ==
    /\ verb = "send" /\ Waiting /\ ~forward /\ signals < MaxSignals /\ signals' = signals + 1
    /\ IF tracker.active
       THEN tracker' = [tracker EXCEPT !.requested = TRUE] /\ forward' = TRUE
       ELSE UNCHANGED <<tracker, forward>>
    /\ UNCHANGED <<boardVars, verb, wait, text, part, rest, tries, resends, failed, sends, sendHistory>>

ForwardCtrlC ==
    /\ forward /\ forward' = FALSE /\ Write(CtrlC)
    /\ UNCHANGED <<ahead, board, req, tier, tx, verb, wait, text, part, rest, tries, resends,
                   failed, tracker, signals, sends, sendHistory>>

HostNext ==
    \/ Start \/ Receive \/ AnswerSync \/ AnswerStatus \/ AnswerLibrary \/ AnswerLibraryForm
    \/ AnswerForm \/ AnswerRecover \/ AnswerLast
    \/ TimeoutSync \/ TimeoutStatus \/ TimeoutForm \/ TimeoutLibrary \/ TimeoutLast
    \/ Interrupt \/ ForwardCtrlC

SendNext == BoardNext \/ HostNext

SendSpec == SendInit /\ [][SendNext]_sendVars

(***************************************************************************)
(* Properties.                                                             *)
(***************************************************************************)

\* As long as no answer comes that the host had stopped waiting for, the answer
\* it takes for a form or a command is that line's own, and a verb that reports
\* success has had every line it waited for carried out
\* (cmd/frothy-session/main.go:190-198).
AnswersMatch ==
    \/ late
    \/ /\ \A n \in Lines : answers[n] = n
       /\ (wait = "done" /\ ~failed) =>
                 \A n \in 1 .. sends :
                   \/ verdict[n] \in {"ok", "interrupted"}
                   \/ n \in gaveUp /\ verdict[n] = "none"

\* However an install ends, late answers or not, the board gets back to the user
\* tier if its lines end: CHANGELOG.md:326-327 says "`frothy install` sends `install-user` for
\* you, also when a library line fails" (cmd/frothy-session/install.go:116-166).
InstallLeavesLibrary ==
    (verb = "install" /\ wait = "done") ~>
      (board = "prompt" /\ Input = <<>> /\ tier = "user")

=============================================================================
