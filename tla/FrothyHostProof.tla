-------------------------- MODULE FrothyHostProof --------------------------
(***************************************************************************)
(* What the command-line program may conclude from the serial line.        *)
(*                                                                         *)
(* First, what `send`, `install` and `wipe-user` may conclude from the     *)
(* answers they read, for every number of forms, resends and signals and   *)
(* every typeahead.  Nothing on the line says which request an answer      *)
(* belongs to: the invariant says what a stream of outputs can hold while  *)
(* no answer came late (Exact), which lines are on their way, and how the  *)
(* lines before the last one ended.                                        *)
(*                                                                         *)
(* Then, that `connect` shows what the board writes, for every number of   *)
(* bytes, however they are split into chunks, and every line and key: the  *)
(* invariant says that the pump has told the meaning of the bytes it took  *)
(* (Took) and that the text shown and held is the text taken (Ordered).    *)
(***************************************************************************)
EXTENDS FrothyHost, SequenceTheorems, FiniteSetTheorems, WellFoundedInduction, TLAPS

Whats == {"ctrlc", "status", "library", "user", "wipe", "form", "blank"}
Kinds == {"info", "ok", "error", "prompt"}
Requests == [n : Nat, what : Whats]
Outputs == [of : Nat, k : Kinds]
Waits == {"start", "sync", "sync again", "status", "library", "form", "recover", "user", "wipe", "done"}

Types ==
  /\ rx \in Seq(Requests) /\ ahead \in Seq(Requests) /\ req \in Requests
  /\ board \in {"booting", "prompt", "running"}
  /\ tx \in Seq(Outputs) /\ text \in Seq(Outputs)
  /\ verb \in {"send", "install", "wipe-user"}
  /\ wait \in Waits
  /\ part \in {"none", "ok", "error"}
  /\ rest \in 0 .. MaxForms
  /\ tries \in Nat /\ resends \in 0 .. MaxResends
  /\ failed \in BOOLEAN /\ forward \in BOOLEAN /\ late \in BOOLEAN
  /\ tracker \in [active : BOOLEAN, requested : BOOLEAN]
  /\ signals \in Nat /\ sends \in Nat
  /\ gaveUp \subseteq 0 .. sends
  /\ verdict \in [Lines -> {"none", "ok", "error", "interrupted"}]
  /\ answers \in [Lines -> Nat]

Stage(w) == IF w \in {"start", "sync"} THEN 0 ELSE IF w = "sync again" THEN 1
            ELSE IF w \in {"status", "wipe"} THEN 2 ELSE IF w \in {"library", "form", "recover"} THEN 3
            ELSE 4
Retried == IF tries = 0 THEN 0 ELSE 1
Count == sends + rest <= MaxForms + resends + Stage(wait) + Retried
Stages ==
  /\ wait \in {"start", "sync"} => sends = 0
  /\ wait \in {"start", "sync", "sync again"} => tries = 0 /\ resends = 0
  /\ wait \notin {"start", "sync", "done"} => sends > 0
  /\ wait \in {"start", "sync", "sync again", "status", "library"} /\ verb # "wipe-user" => rest > 0
  /\ wait \in {"status", "library", "form", "recover"} => verb # "wipe-user"
  /\ wait \in {"library", "user"} => verb = "install"
  /\ wait = "recover" => verb = "send"
  /\ wait \in {"sync", "sync again"} => verb # "send"
Interrupts ==
  /\ forward \/ tracker.active => verb = "send"
  /\ \A i \in DOMAIN rx : rx[i] = CtrlC => verb = "send"
Budget == Count /\ Stages /\ Interrupts

Booting == board = "booting" => ~late /\ tx = <<>> /\ text = <<>> /\ ahead = <<>>
                            /\ \A n \in Lines : verdict[n] = "none"

Stream == text \o tx
Done(n) == verdict[n] \in {"ok", "interrupted"}

\* What a stream of outputs tells when n is the last line written: outputs of no
\* line come first, then those of line n and nothing after its prompt; an ok says
\* that the line is done.
Exact(s, n, v) ==
  /\ \A i \in DOMAIN s : s[i].of \in {0, n}
  /\ \A i \in DOMAIN s : s[i].of = 0 => s[i].k \in {"error", "prompt"}
  /\ \A i, j \in DOMAIN s : i < j /\ s[j].of = 0 => s[i].of = 0
  /\ \A i, j \in DOMAIN s : i < j /\ s[i].k = "prompt" => s[j].of # s[i].of
  /\ \A i \in DOMAIN s :
       s[i].of # 0 => v[n] # "none" /\ (s[i].k = "ok" => v[n] \in {"ok", "interrupted"})

StreamInv ==
  /\ Exact(Stream, sends, verdict)
  /\ wait \in {"sync again", "library", "form", "recover", "user", "wipe"} =>
       /\ \A i \in DOMAIN Stream : Stream[i].of # 0
       /\ board = "booting" => 0 \in gaveUp
  /\ wait = "sync again" => 0 \in gaveUp

\* The lines on their way.
LineInv ==
  /\ \A i \in DOMAIN rx : rx[i].n \in 0 .. sends /\ (rx[i].n = 0 => rx[i] = CtrlC)
  /\ \A i \in DOMAIN ahead : ahead[i].n \in 1 .. sends
  /\ board = "running" => req.n \in 1 .. sends
\* What holds of a line on its way, when n is the last one written, r says how it
\* ended, w is the host's wait, g the lines it gave up and b the verb.
OnItsWay(l, n, r, w, g, b) ==
  /\ l.n = n => /\ r = "none" /\ (w = "sync again" => l.what = "blank")
                /\ w = "status" => l.what = "status"
  /\ l.n = n \/ l.n \in g
  /\ b = "send" /\ l.what = "form" => l.n = n /\ w \in {"form", "recover", "done"}
Fitting ==
  /\ \A i \in DOMAIN rx : rx[i].n # 0 => OnItsWay(rx[i], sends, verdict[sends], wait, gaveUp, verb)
  /\ \A i \in DOMAIN ahead : OnItsWay(ahead[i], sends, verdict[sends], wait, gaveUp, verb)
  /\ board = "running" => OnItsWay(req, sends, verdict[sends], wait, gaveUp, verb)
\* No line is on its way twice.
Apart ==
  /\ \A i, j \in DOMAIN rx : i # j /\ rx[i].n = rx[j].n => rx[i].n = 0
  /\ \A i, j \in DOMAIN ahead : i # j => ahead[i].n # ahead[j].n
  /\ \A i \in DOMAIN rx, j \in DOMAIN ahead : rx[i].n # ahead[j].n
  /\ board = "running" =>
       /\ \A i \in DOMAIN rx : rx[i].n # req.n
       /\ \A i \in DOMAIN ahead : ahead[i].n # req.n
PendInv == Fitting /\ Apart

Settled(n) == Done(n) \/ (n \in gaveUp /\ verdict[n] = "none")
EndInv ==
  /\ \A n \in Lines : answers[n] = n
  /\ \A n \in Lines : n > sends => verdict[n] = "none"
  /\ \A n \in Lines : n < sends => failed \/ Settled(n)
  /\ wait = "done" => failed \/ (sends > 0 /\ Done(sends))
  /\ wait \in {"sync again", "status"} => verdict[sends] # "error"
  /\ wait = "recover" => part # "ok"

IInv == Types /\ Budget /\ Booting /\ LineInv /\ (late = FALSE => StreamInv /\ PendInv /\ EndInv)

LEMMA ConcatItems ==
  ASSUME NEW s \in Seq(Outputs), NEW r \in Seq(Outputs)
  PROVE  /\ s \o r \in Seq(Outputs) /\ Len(s \o r) = Len(s) + Len(r)
         /\ \A i \in 1 .. Len(s) + Len(r) :
              (s \o r)[i] = IF i <= Len(s) THEN s[i] ELSE r[i - Len(s)]
BY ConcatProperties

\* A set of numbers has a least one.
LEMMA BelowIsWellFounded ==
  \E R : IsWellFoundedOn(R, Nat) /\ \A x, y \in Nat : y < x => <<y, x>> \in R
<1>1. IsWellFoundedOn(OpToRel(<, Nat), Nat)
  BY NatLessThanWellFounded
<1>2. \A x, y \in Nat : y < x => <<y, x>> \in OpToRel(<, Nat)
  BY DEF OpToRel
<1> QED BY <1>1, <1>2

\* A text with a status line has a first one.
LEMMA StatusOf ==
  ASSUME NEW t \in Seq(Outputs)
  PROVE  /\ Statuses(t) = {} => Status(t) = "none"
         /\ Statuses(t) # {} =>
              Status(t) \in {"ok", "error"} /\ \E i \in DOMAIN t : t[i].k = Status(t)
<1>1. CASE Statuses(t) = {}
  BY <1>1 DEF Status
<1>2. CASE Statuses(t) # {}
  <2>1. Statuses(t) \subseteq Nat
    BY DEF Statuses
  <2>l. PICK R : IsWellFoundedOn(R, Nat) /\ \A x, y \in Nat : y < x => <<y, x>> \in R
    BY BelowIsWellFounded
  <2>w. \E x \in Statuses(t) : \A y \in Statuses(t) : <<y, x>> \notin R
    BY <1>2, <2>1, <2>l, WFMin
  <2>2. PICK x \in Statuses(t) : \A y \in Statuses(t) : <<y, x>> \notin R
    BY <2>w
  <2>3. ASSUME NEW j \in Statuses(t) PROVE x <= j
    <3>1. x \in Nat /\ j \in Nat
      BY <2>1
    <3>2. ~(j < x)
      BY <2>2, <2>l, <3>1
    <3> QED BY <3>1, <3>2
  <2> DEFINE f == CHOOSE i \in Statuses(t) : \A j \in Statuses(t) : i <= j
  <2>4. f \in Statuses(t)
    BY <2>3
  <2>5. Status(t) = t[f].k
    BY <1>2 DEF Status
  <2> QED BY <1>2, <2>4, <2>5 DEF Statuses
<1> QED BY <1>1, <1>2

LEMMA ExactEmpty ==
  ASSUME NEW n \in Nat, NEW v PROVE Exact(<<>>, n, v)
BY DEF Exact

\* What is left when the host drops what it has read.
LEMMA ExactRest ==
  ASSUME NEW s \in Seq(Outputs), NEW r \in Seq(Outputs), NEW n \in Nat, NEW v, Exact(s \o r, n, v)
  PROVE  Exact(r, n, v)
<1> DEFINE c == s \o r
<1>1. \A i \in DOMAIN r : Len(s) + i \in DOMAIN c /\ c[Len(s) + i] = r[i]
  BY ConcatItems
<1>2. \A i, j \in DOMAIN r : i < j => Len(s) + i < Len(s) + j
  OBVIOUS
<1>3. Exact(c, n, v)
  OBVIOUS
<1> HIDE DEF c
<1> QED BY <1>1, <1>2, <1>3 DEF Exact

LEMMA ExactTail ==
  ASSUME NEW s \in Seq(Outputs), s # <<>>, NEW n \in Nat, NEW v, Exact(s, n, v)
  PROVE  Exact(Tail(s), n, v)
<1>1. \A i \in DOMAIN Tail(s) : i + 1 \in DOMAIN s /\ s[i + 1] = Tail(s)[i]
  OBVIOUS
<1>2. \A i, j \in DOMAIN Tail(s) : i < j => i + 1 < j + 1
  OBVIOUS
<1> QED BY <1>1, <1>2 DEF Exact

LEMMA ExactZero ==
  ASSUME NEW s \in Seq(Outputs), NEW v, Exact(s, 0, v), NEW m \in Nat, NEW w
  PROVE  Exact(s, m, w)
BY DEF Exact

\* Outputs of no line stay so whatever is written next.
LEMMA ExactFree ==
  ASSUME NEW s \in Seq(Outputs), NEW n \in Nat, NEW v, Exact(s, n, v),
         \A i \in DOMAIN s : s[i].of # n, NEW m \in Nat, NEW w
  PROVE  Exact(s, m, w)
BY DEF Exact

\* The line's answer.
LEMMA ExactAnswer ==
  ASSUME NEW s \in Seq(Outputs), NEW n \in Nat, NEW v, NEW w, Exact(s, n, v), n # 0, v[n] = "none",
         NEW k \in {"ok", "error"}, NEW r \in {<<Out(n, k), Prompt(n)>>, <<Out(n, "info"), Out(n, k), Prompt(n)>>},
         w[n] # "none", k = "ok" => w[n] \in {"ok", "interrupted"}
  PROVE  /\ r \in Seq(Outputs)
         /\ Exact(s \o r, n, w)
         /\ (\A i \in DOMAIN s : s[i].of # 0) => \A i \in DOMAIN (s \o r) : (s \o r)[i].of # 0
<1>1. /\ r \in Seq(Outputs)
      /\ \A i \in DOMAIN r : r[i].of = n
      /\ \A i \in DOMAIN r : r[i].k = "ok" => k = "ok"
      /\ \A i, j \in DOMAIN r : i < j => r[i].k # "prompt"
  <2> DEFINE a == Out(n, "info")
             b == Out(n, k)
             c == Prompt(n)
  <2>1. /\ a \in Outputs /\ b \in Outputs /\ c \in Outputs
        /\ a.of = n /\ b.of = n /\ c.of = n
        /\ a.k = "info" /\ b.k = k /\ c.k = "prompt"
    BY DEF Out, Prompt, Outputs, Kinds
  <2> HIDE DEF a, b, c
  <2>2. CASE r = <<b, c>>
    BY <2>1, <2>2
  <2>3. CASE r = <<a, b, c>>
    BY <2>1, <2>3
  <2> QED BY <2>2, <2>3 DEF a, b, c
<1>2. \A i \in DOMAIN s : s[i].of = 0
  BY DEF Exact
<1> DEFINE c == s \o r
<1>3. c \in Seq(Outputs) /\ Len(c) = Len(s) + Len(r)
  BY <1>1, ConcatItems
<1>4. \A i \in DOMAIN c : \/ i \in DOMAIN s /\ c[i] = s[i]
                          \/ i - Len(s) \in DOMAIN r /\ c[i] = r[i - Len(s)]
  BY <1>1, <1>3, ConcatItems
<1>5. \A i, j \in DOMAIN c : i < j /\ i \notin DOMAIN s => j \notin DOMAIN s /\ i - Len(s) < j - Len(s)
  BY <1>3
<1> HIDE DEF c
<1>6. Exact(c, n, w)
  <2>1. \A i \in DOMAIN c : c[i].of \in {0, n}
    BY <1>1, <1>2, <1>4
  <2>2. \A i \in DOMAIN c : c[i].of = 0 => c[i].k \in {"error", "prompt"}
    BY <1>1, <1>2, <1>4 DEF Exact
  <2>3. \A i, j \in DOMAIN c : i < j /\ c[j].of = 0 => c[i].of = 0
    BY <1>1, <1>2, <1>4, <1>5
  <2>4. \A i, j \in DOMAIN c : i < j /\ c[i].k = "prompt" => c[j].of # c[i].of
    <3> SUFFICES ASSUME NEW i \in DOMAIN c, NEW j \in DOMAIN c, i < j, c[i].k = "prompt" PROVE c[j].of # c[i].of
      OBVIOUS
    <3>1. CASE i \in DOMAIN s
      <4>1. c[i] = s[i]
        BY <1>1, <1>3, ConcatItems, <3>1 DEF c
      <4>2. CASE j \in DOMAIN s
        <5>1. c[j] = s[j]
          BY <1>1, <1>3, ConcatItems, <4>2 DEF c
        <5> QED BY <3>1, <4>1, <4>2, <5>1 DEF Exact
      <4>3. CASE j \notin DOMAIN s
        BY <1>1, <1>2, <1>4, <3>1, <4>1, <4>3
      <4> QED BY <4>2, <4>3
    <3>2. CASE i \notin DOMAIN s
      BY <1>1, <1>4, <1>5, <3>2
    <3> QED BY <3>1, <3>2
  <2>5. \A i \in DOMAIN c : c[i].of # 0 => w[n] # "none" /\ (c[i].k = "ok" => w[n] \in {"ok", "interrupted"})
    BY <1>1, <1>2, <1>4
  <2> QED BY <2>1, <2>2, <2>3, <2>4, <2>5 DEF Exact
<1>7. (\A i \in DOMAIN s : s[i].of # 0) => \A i \in DOMAIN c : c[i].of # 0
  BY <1>1, <1>4
<1>8. r \in Seq(Outputs)
  BY <1>1
<1> QED BY <1>6, <1>7, <1>8 DEF c

\* The prompt of the last line written ends the stream.
LEMMA ExactEnd ==
  ASSUME NEW t \in Seq(Outputs), NEW u \in Seq(Outputs), u # <<>>, NEW n \in Nat, NEW v,
         Exact(t \o u, n, v), Head(u).k = "prompt", Head(u).of = n
  PROVE  Tail(u) = <<>>
<1> DEFINE c == t \o u
           h == Len(t) + 1
<1>1. c \in Seq(Outputs) /\ Len(c) = Len(t) + Len(u) /\ h \in DOMAIN c /\ c[h] = Head(u)
  BY ConcatItems
<1>2. SUFFICES ASSUME Tail(u) # <<>> PROVE FALSE
  OBVIOUS
<1>3. h + 1 \in DOMAIN c /\ h < h + 1
  BY <1>1, <1>2
<1> HIDE DEF c, h
<1>4. c[h + 1].of # n /\ c[h + 1].of \in {0, n} /\ (c[h + 1].of = 0 => c[h].of = 0)
  BY <1>1, <1>3 DEF Exact, c
<1> QED BY <1>1, <1>4

\* An answer that holds an ok is the last line's, and the line is done.
LEMMA ExactOk ==
  ASSUME NEW t \in Seq(Outputs), NEW u \in Seq(Outputs), u # <<>>, NEW n \in Nat, NEW v,
         Exact(t \o u, n, v), NEW i \in DOMAIN Append(t, Head(u)),
         Append(t, Head(u))[i].k \in {"ok", "info"}
  PROVE  /\ n # 0 /\ Head(u).of = n
         /\ Append(t, Head(u))[i].k = "ok" => v[n] \in {"ok", "interrupted"}
<1> DEFINE c == t \o u
           h == Len(t) + 1
<1>1. c \in Seq(Outputs) /\ Len(c) = Len(t) + Len(u) /\ h \in DOMAIN c /\ c[h] = Head(u)
  BY ConcatItems
<1>2. i \in DOMAIN c /\ c[i] = Append(t, Head(u))[i] /\ i <= h
  BY <1>1, ConcatItems
<1> HIDE DEF c, h
<1>3. c[i].of # 0
  BY <1>2 DEF Exact, c
<1>4. c[h].of # 0
  <2>1. CASE i = h
    BY <1>3, <2>1
  <2>2. CASE i < h
    BY <1>1, <1>2, <1>3, <2>2 DEF Exact, c
  <2> QED BY <1>1, <1>2, <2>1, <2>2 DEF h
<1>5. c[h].of \in {0, n} /\ (c[i].k = "ok" => v[n] \in {"ok", "interrupted"})
  BY <1>1, <1>2, <1>3 DEF Exact, c
<1> QED BY <1>1, <1>2, <1>4, <1>5

----------------------------------------------------------------------------
\* A line's number is one of Lines.
LEMMA Bounded ==
  ASSUME Types, Budget PROVE sends <= MaxForms + MaxResends + 5 /\ \A n \in 1 .. sends + 1 : n \in Lines
<1>1. MaxForms \in Nat /\ MaxResends \in Nat
  BY SendAssumption
<1>2. Stage(wait) \in 0 .. 4 /\ Retried \in 0 .. 1
  BY DEF Stage, Retried
<1>3. rest \in Nat /\ resends \in Nat /\ resends <= MaxResends /\ sends \in Nat
  BY <1>1 DEF Types
<1>4. sends + rest <= MaxForms + resends + Stage(wait) + Retried
  BY DEF Budget, Count
<1>5. sends <= MaxForms + MaxResends + 5
  BY <1>1, <1>2, <1>3, <1>4
<1> QED BY <1>1, <1>3, <1>5 DEF Lines

LEMMA MoveHead ==
  ASSUME NEW t \in Seq(Outputs), NEW u \in Seq(Outputs), u # <<>>
  PROVE  /\ Head(u) \in Outputs /\ Tail(u) \in Seq(Outputs)
         /\ Append(t, Head(u)) \in Seq(Outputs) /\ Append(t, Head(u)) # <<>>
         /\ Append(t, Head(u))[Len(Append(t, Head(u)))] = Head(u)
         /\ Append(t, Head(u)) \o Tail(u) = t \o u
<1>1. Head(u) \in Outputs /\ Tail(u) \in Seq(Outputs) /\ Len(Tail(u)) = Len(u) - 1 /\ Len(u) \in Nat /\ Len(u) > 0
  BY HeadTailProperties
<1> DEFINE h == Head(u)
           r == Tail(u)
           p == Append(t, h)
<1>2. \A i \in DOMAIN r : r[i] = u[i + 1]
  BY <1>1
<1>3. u[1] = h
  BY HeadTailProperties
<1>4. h \in Outputs /\ r \in Seq(Outputs) /\ Len(r) = Len(u) - 1
  BY <1>1
<1> HIDE DEF h, r
<1>5. p \in Seq(Outputs) /\ Len(p) = Len(t) + 1 /\ p # <<>> /\ p[Len(p)] = h
      /\ \A i \in 1 .. Len(t) : p[i] = t[i]
  BY <1>4
<1> HIDE DEF p
<1> DEFINE a == p \o r
           b == t \o u
<1>6. a \in Seq(Outputs) /\ Len(a) = Len(p) + Len(r)
  BY <1>4, <1>5, ConcatItems
<1>7. b \in Seq(Outputs) /\ Len(b) = Len(t) + Len(u)
  BY ConcatItems
<1>8. Len(a) = Len(b)
  BY <1>1, <1>4, <1>5, <1>6, <1>7
<1>9. \A i \in 1 .. Len(a) : a[i] = b[i]
  <2> SUFFICES ASSUME NEW i \in 1 .. Len(a) PROVE a[i] = b[i]
    OBVIOUS
  <2>1. a[i] = IF i <= Len(p) THEN p[i] ELSE r[i - Len(p)]
    BY <1>4, <1>5, <1>6, ConcatItems
  <2>2. b[i] = IF i <= Len(t) THEN t[i] ELSE u[i - Len(t)]
    BY <1>7, <1>8, ConcatItems
  <2>3. CASE i \in 1 .. Len(t)
    BY <1>5, <2>1, <2>2, <2>3
  <2>4. CASE i = Len(t) + 1
    BY <1>3, <1>5, <2>1, <2>2, <2>4
  <2>5. CASE i > Len(t) + 1
    <3>1. i - Len(p) \in DOMAIN r /\ i - Len(t) = i - Len(p) + 1
      BY <1>4, <1>5, <1>6, <2>5
    <3>2. r[i - Len(p)] = u[i - Len(t)]
      BY <1>2, <3>1
    <3> QED BY <1>5, <2>1, <2>2, <2>5, <3>2
  <2>6. Len(t) \in Nat /\ i \in Nat /\ 1 <= i
    BY <1>6
  <2>7. i \in 1 .. Len(t) \/ i = Len(t) + 1 \/ i > Len(t) + 1
    BY <2>6
  <2> QED BY <2>3, <2>4, <2>5, <2>7, Zenon
<1> HIDE DEF a, b
<1>10. a = b
  BY <1>6, <1>7, <1>8, <1>9, SeqEqual
<1> QED BY <1>4, <1>5, <1>10 DEF a, b, p, h, r

LEMMA StreamType ==
  ASSUME Types PROVE /\ text \in Seq(Outputs) /\ tx \in Seq(Outputs) /\ Stream \in Seq(Outputs)
                     /\ tx # <<>> => Head(tx) \in Outputs /\ Tail(tx) \in Seq(Outputs)
                     /\ tx # <<>> => Arrived \in Seq(Outputs) /\ Arrived # <<>> /\ Arrived[Len(Arrived)] = Head(tx)
                     /\ tx # <<>> => Arrived \o Tail(tx) = Stream
<1>1. text \in Seq(Outputs) /\ tx \in Seq(Outputs)
  BY DEF Types
<1>2. text \o tx \in Seq(Outputs)
  BY <1>1
<1>3. ASSUME tx # <<>>
      PROVE  /\ Head(tx) \in Outputs /\ Tail(tx) \in Seq(Outputs)
             /\ Arrived \in Seq(Outputs) /\ Arrived # <<>> /\ Arrived[Len(Arrived)] = Head(tx)
             /\ Arrived \o Tail(tx) = text \o tx
  BY <1>1, <1>3, MoveHead DEF Arrived
<1> QED BY <1>1, <1>2, <1>3 DEF Stream

\* What an answer tells while nothing came late.
LEMMA Taken ==
  ASSUME Types, StreamInv, Response
  PROVE  /\ tx # <<>> /\ Head(tx).k = "prompt"
         /\ Head(tx).of = sends => Tail(tx) = <<>>
         /\ ~Syncing => Status(Arrived) \in {"ok", "error"}
         /\ Status(Arrived) = "ok" => sends # 0 /\ Done(sends) /\ Head(tx).of = sends
         /\ \A i \in DOMAIN Arrived : Arrived[i].k = "info" => Head(tx).of = sends
         /\ Head(tx).of \in {0, sends}
         /\ wait \in {"sync again", "library", "form", "recover", "user", "wipe"} =>
              Head(tx).of = sends /\ verdict[sends] # "none"
<1>1. /\ text \in Seq(Outputs) /\ tx \in Seq(Outputs) /\ Stream \in Seq(Outputs)
      /\ tx # <<>> /\ Arrived \in Seq(Outputs) /\ Arrived # <<>> /\ Arrived[Len(Arrived)] = Head(tx)
  BY StreamType DEF Response
<1>2. Head(tx).k = "prompt" /\ (~Syncing => Statuses(Arrived) # {})
  BY <1>1 DEF Response, PromptComplete
<1>3. sends \in Nat /\ Exact(text \o tx, sends, verdict)
  BY DEF Types, StreamInv, Stream
<1>4. Head(tx).of = sends => Tail(tx) = <<>>
  BY <1>1, <1>2, <1>3, ExactEnd
<1>5. Statuses(Arrived) # {} => Status(Arrived) \in {"ok", "error"}
  BY <1>1, StatusOf
<1>6. \A i \in DOMAIN Arrived :
        Arrived[i].k \in {"ok", "info"} =>
          sends # 0 /\ Head(tx).of = sends /\ (Arrived[i].k = "ok" => Done(sends))
  BY <1>1, <1>3, ExactOk DEF Arrived, Done
<1>7. Status(Arrived) = "ok" => \E i \in DOMAIN Arrived : Arrived[i].k = "ok"
  BY <1>1, StatusOf
<1>8. Len(text) + 1 \in DOMAIN Stream /\ Stream[Len(text) + 1] = Head(tx)
  BY <1>1, ConcatItems DEF Stream
<1>9. Head(tx).of \in {0, sends} /\ (Head(tx).of # 0 => verdict[sends] # "none")
  BY <1>8 DEF StreamInv, Exact
<1>10. wait \in {"sync again", "library", "form", "recover", "user", "wipe"} => Head(tx).of # 0
  BY <1>8 DEF StreamInv
<1> QED BY <1>1, <1>2, <1>4, <1>5, <1>6, <1>7, <1>9, <1>10

\* What a time-out tells when nothing of the answer is on its way.
LEMMA Silent ==
  ASSUME Types, StreamInv, ~Coming
  PROVE  /\ \A m \in Nat : \A w : Exact(<<>> \o tx, m, w) /\ Exact(tx, m, w)
         /\ sends = 0 => text = <<>> /\ tx = <<>>
         /\ \A i \in DOMAIN Stream : Stream[i].of = 0
<1>1. text \in Seq(Outputs) /\ tx \in Seq(Outputs) /\ Stream \in Seq(Outputs) /\ sends \in Nat
  BY StreamType DEF Types
<1>2. Exact(Stream, sends, verdict) /\ \A i \in DOMAIN Stream : Stream[i].of # sends
  BY DEF StreamInv, Coming, Stream
<1>3. \A i \in DOMAIN Stream : Stream[i].of = 0
  BY <1>2 DEF Exact
<1>4. ASSUME NEW m \in Nat, NEW w PROVE Exact(tx, m, w)
  <2>1. Exact(Stream, m, w)
    BY <1>1, <1>2, ExactFree
  <2> QED BY <1>1, <2>1, ExactRest DEF Stream
<1>5. <<>> \o tx = tx
  BY <1>1
<1>6. ASSUME sends = 0 PROVE text = <<>> /\ tx = <<>>
  <2>1. DOMAIN Stream = {}
    BY <1>2, <1>3, <1>6
  <2>2. Len(Stream) = 0
    BY <1>1, <2>1
  <2>3. Len(text) = 0 /\ Len(tx) = 0
    BY <1>1, <2>2, ConcatItems DEF Stream
  <2> QED BY <1>1, <2>3
<1> QED BY <1>3, <1>4, <1>5, <1>6

----------------------------------------------------------------------------
(* What the host's steps do to the lines on their way.                     *)

\* Nothing is written, or Ctrl-C is.
LEMMA LinesKept ==
  ASSUME Types, LineInv, rx' \in {rx, Append(rx, CtrlC)}, sends' = sends,
         UNCHANGED <<ahead, board, req>>
  PROVE  LineInv'
<1>1. rx \in Seq(Requests) /\ sends \in Nat /\ CtrlC \in Requests
  BY DEF Types, CtrlC, Requests, Whats
<1>2. \A i \in DOMAIN rx' : (i \in DOMAIN rx /\ rx'[i] = rx[i]) \/ rx'[i] = CtrlC
  BY <1>1
<1> QED BY <1>1, <1>2 DEF LineInv, CtrlC

WaitSuits ==
  /\ wait' \in {"sync again", "status"} => wait' = wait
  /\ verb = "send" => wait' = wait \/ wait' \in {"form", "recover", "done"}

LEMMA PendingKept ==
  ASSUME Types, LineInv, PendInv, rx' \in {rx, Append(rx, CtrlC)}, sends' = sends,
         UNCHANGED <<ahead, board, req, verb, verdict>>, gaveUp \subseteq gaveUp',
         WaitSuits
  PROVE  PendInv'
<1>1. rx \in Seq(Requests) /\ CtrlC \in Requests /\ CtrlC.n = 0
  BY DEF Types, CtrlC, Requests, Whats
<1>2. \A i \in DOMAIN rx' : (i \in DOMAIN rx /\ rx'[i] = rx[i]) \/ rx'[i].n = 0
  BY <1>1
<1>3. \A i, j \in DOMAIN rx' :
        i # j => (i \in DOMAIN rx /\ j \in DOMAIN rx) \/ rx'[i].n = 0 \/ rx'[j].n = 0
  BY <1>1
<1> DEFINE Here(l) == OnItsWay(l, sends, verdict[sends], wait, gaveUp, verb)
           After(l) == OnItsWay(l, sends', verdict'[sends'], wait', gaveUp', verb')
<1>4. \A l : Here(l) => After(l)
  BY DEF OnItsWay, WaitSuits
<1>5. (\A i \in DOMAIN rx : rx[i].n # 0 => Here(rx[i])) /\ (\A i \in DOMAIN ahead : Here(ahead[i]))
      /\ (board = "running" => Here(req))
  BY DEF PendInv, Fitting, Apart
<1> HIDE DEF Here, After
<1>6. \A i \in DOMAIN rx' : rx'[i].n # 0 => After(rx'[i])
  BY <1>2, <1>4, <1>5
<1>7. (\A i \in DOMAIN ahead' : After(ahead'[i])) /\ (board' = "running" => After(req'))
  BY <1>4, <1>5
<1>8. \A i, j \in DOMAIN rx' : i # j /\ rx'[i].n = rx'[j].n => rx'[i].n = 0
  BY <1>2, <1>3 DEF PendInv, Fitting, Apart
<1>9. \A i, j \in DOMAIN ahead' : i # j => ahead'[i].n # ahead'[j].n
  BY DEF PendInv, Fitting, Apart
<1>t. sends \in Nat
  BY DEF Types
<1>10. \A i \in DOMAIN ahead : ahead[i].n # 0
  BY <1>t DEF LineInv
<1>11. \A i \in DOMAIN rx', j \in DOMAIN ahead' : rx'[i].n # ahead'[j].n
  BY <1>2, <1>10 DEF PendInv, Fitting, Apart
<1>12. board = "running" => req.n # 0
  BY <1>t DEF LineInv
<1>13. board' = "running" => /\ \A i \in DOMAIN rx' : rx'[i].n # req'.n
                             /\ \A i \in DOMAIN ahead' : ahead'[i].n # req'.n
  BY <1>2, <1>12 DEF PendInv, Fitting, Apart
<1> QED BY <1>6, <1>7, <1>8, <1>9, <1>11, <1>13 DEF PendInv, Fitting, Apart, After

\* A line is written.
LEMMA LinesSent ==
  ASSUME Types, LineInv, NEW what \in Whats, NEW w, Send(what, w),
         UNCHANGED <<ahead, board, req>>
  PROVE  LineInv'
<1>1. rx \in Seq(Requests) /\ sends \in Nat
  BY DEF Types
<1> DEFINE l == [n |-> sends + 1, what |-> what]
<1>2. l \in Requests /\ l.n = sends + 1
  BY <1>1 DEF Requests
<1>3. rx' = Append(rx, l) /\ sends' = sends + 1
  BY DEF Send, Write
<1> HIDE DEF l
<1>4. \A i \in DOMAIN rx' : (i \in DOMAIN rx /\ rx'[i] = rx[i]) \/ rx'[i] = l
  BY <1>1, <1>2, <1>3
<1>5. 0 .. sends \subseteq 0 .. sends' /\ 1 .. sends \subseteq 1 .. sends' /\ sends + 1 \in 1 .. sends' /\ sends + 1 # 0
      /\ sends + 1 \in 0 .. sends'
  BY <1>1, <1>3
<1>6. \A i \in DOMAIN rx' : rx'[i].n \in 0 .. sends' /\ (rx'[i].n = 0 => rx'[i] = CtrlC)
  BY <1>2, <1>4, <1>5 DEF LineInv
<1>7. (\A i \in DOMAIN ahead' : ahead'[i].n \in 1 .. sends') /\ (board' = "running" => req'.n \in 1 .. sends')
  BY <1>5 DEF LineInv
<1> QED BY <1>6, <1>7 DEF LineInv

NextIsNew == verdict[sends + 1] = "none"
Suits(what, w) ==
  /\ w = "sync again" => what = "blank"
  /\ w = "status" => what = "status"
  /\ verb = "send" /\ what = "form" => w = "form"
LastIsKnown ==
  \/ sends = 0
  \/ verdict[sends] # "none"
  \/ sends \in gaveUp' /\ (verb = "send" => wait \notin {"form", "recover", "done"})

LEMMA PendingSent ==
  ASSUME Types, LineInv, PendInv, NEW what \in Whats, NEW w, Send(what, w),
         UNCHANGED <<ahead, board, req, verb, verdict>>, gaveUp \subseteq gaveUp',
         NextIsNew, Suits(what, w), LastIsKnown
  PROVE  PendInv'
<1>1. rx \in Seq(Requests) /\ sends \in Nat
  BY DEF Types
<1> DEFINE l == [n |-> sends + 1, what |-> what]
<1>2. l \in Requests /\ l.n = sends + 1 /\ l.what = what
  BY <1>1 DEF Requests
<1>3. rx' = Append(rx, l) /\ sends' = sends + 1 /\ wait' = w
  BY DEF Send, Write
<1> HIDE DEF l
<1>4. \A i \in DOMAIN rx' : (i \in DOMAIN rx /\ rx'[i] = rx[i]) \/ rx'[i] = l
  BY <1>1, <1>2, <1>3
<1>5. \A i, j \in DOMAIN rx' : i # j => i \in DOMAIN rx \/ j \in DOMAIN rx
  BY <1>1, <1>2, <1>3
<1> DEFINE Here(q) == OnItsWay(q, sends, verdict[sends], wait, gaveUp, verb)
           After(q) == OnItsWay(q, sends', verdict'[sends'], wait', gaveUp', verb')
<1>6. ASSUME NEW q, q.n \in 1 .. sends, Here(q) PROVE After(q)
  <2>1. q.n # sends' /\ (q.n = sends => sends # 0)
    BY <1>1, <1>3, <1>6
  <2>2. q.n = sends => verdict[sends] = "none"
    BY <1>6 DEF OnItsWay
  <2>3. q.n = sends => sends \in gaveUp' /\ ~(verb = "send" /\ q.what = "form")
    BY <1>6, <2>1, <2>2 DEF OnItsWay, LastIsKnown
  <2>4. q.n \in gaveUp' /\ ~(verb = "send" /\ q.what = "form")
    BY <1>6, <2>3 DEF OnItsWay
  <2> QED BY <2>1, <2>4 DEF OnItsWay
<1>7. After(l)
  BY <1>2, <1>3 DEF OnItsWay, NextIsNew, Suits
<1>8. /\ \A i \in DOMAIN rx : rx[i].n \in 0 .. sends /\ (rx[i].n # 0 => rx[i].n \in 1 .. sends /\ Here(rx[i]))
      /\ \A i \in DOMAIN ahead : ahead[i].n \in 1 .. sends /\ Here(ahead[i])
      /\ board = "running" => req.n \in 1 .. sends /\ Here(req)
  BY <1>1 DEF LineInv, PendInv, Fitting, Apart
<1> HIDE DEF Here, After
<1>9. \A i \in DOMAIN rx' : rx'[i].n # 0 => After(rx'[i])
  BY <1>4, <1>6, <1>7, <1>8
<1>10. (\A i \in DOMAIN ahead' : After(ahead'[i])) /\ (board' = "running" => After(req'))
  BY <1>6, <1>8
<1>11. \A m \in 0 .. sends : m # l.n
  BY <1>1, <1>2
<1>12. \A m \in 1 .. sends : m # l.n
  BY <1>1, <1>2
<1>13. \A i, j \in DOMAIN rx' : i # j /\ rx'[i].n = rx'[j].n => rx'[i].n = 0
  <2> SUFFICES ASSUME NEW i \in DOMAIN rx', NEW j \in DOMAIN rx', i # j, rx'[i].n = rx'[j].n PROVE rx'[i].n = 0
    OBVIOUS
  <2>1. rx'[i] # l \/ rx'[j] # l
    <3>1. i \in DOMAIN rx => i <= Len(rx) /\ rx'[i] = rx[i]
      BY <1>1, <1>2, <1>3
    <3>2. j \in DOMAIN rx => j <= Len(rx) /\ rx'[j] = rx[j]
      BY <1>1, <1>2, <1>3
    <3> QED BY <1>5, <1>8, <1>11, <3>1, <3>2
  <2>2. i \in DOMAIN rx /\ rx'[i] = rx[i] /\ j \in DOMAIN rx /\ rx'[j] = rx[j]
    BY <1>4, <1>8, <1>11, <2>1
  <2> QED BY <2>2 DEF PendInv, Fitting, Apart
<1>14. \A i, j \in DOMAIN ahead' : i # j => ahead'[i].n # ahead'[j].n
  BY DEF PendInv, Fitting, Apart
<1>15. \A i \in DOMAIN rx', j \in DOMAIN ahead' : rx'[i].n # ahead'[j].n
  BY <1>4, <1>8, <1>12 DEF PendInv, Fitting, Apart
<1>16. board' = "running" => /\ \A i \in DOMAIN rx' : rx'[i].n # req'.n
                             /\ \A i \in DOMAIN ahead' : ahead'[i].n # req'.n
  BY <1>4, <1>8, <1>12 DEF PendInv, Fitting, Apart
<1> QED BY <1>9, <1>10, <1>13, <1>14, <1>15, <1>16 DEF PendInv, Fitting, Apart, After

----------------------------------------------------------------------------
(* What the host's steps do to the ends of the lines.                      *)

OwnAnswer == answers' = answers \/ (Head(tx).of = sends /\ TookAnswer(sends))
LastSettled == \/ sends = 0
               \/ verdict'[sends] \in {"ok", "interrupted"}
               \/ sends \in gaveUp' /\ verdict'[sends] = "none"
               \/ failed'
HostEnds == verdict' = verdict /\ gaveUp \subseteq gaveUp' /\ (failed => failed')

LEMMA AnswersOwn ==
  ASSUME EndInv, OwnAnswer, Types PROVE \A n \in Lines : answers'[n] = n
BY DEF EndInv, OwnAnswer, TookAnswer, Types

LEMMA EndsSent ==
  ASSUME Types, Budget, EndInv, NEW what \in Whats, NEW w \in Waits \ {"done", "recover"}, Send(what, w),
         HostEnds, OwnAnswer, LastSettled
  PROVE  EndInv'
<1>1. sends \in Nat /\ sends + 1 \in Lines
  BY Bounded DEF Types
<1>2. sends' = sends + 1 /\ wait' = w
  BY DEF Send
<1>3. \A n \in Lines : n \in Nat /\ n > 0
  BY DEF Lines
<1>4. \A n \in Lines : n > sends' => verdict'[n] = "none"
  <2>1. \A n \in Lines : n > sends' => n > sends
    BY <1>1, <1>2, <1>3
  <2>2. \A n \in Lines : n > sends => verdict[n] = "none"
    BY DEF EndInv
  <2> QED BY <2>1, <2>2 DEF HostEnds
<1>5. ASSUME NEW n \in Lines, n < sends' PROVE failed' \/ Settled(n)'
  <2>1. n < sends \/ (n = sends /\ sends # 0)
    BY <1>1, <1>2, <1>3, <1>5
  <2>2. n < sends => failed \/ Settled(n)
    BY DEF EndInv
  <2>3. Settled(n) => Settled(n)'
    BY DEF Settled, Done, HostEnds
  <2>4. n = sends /\ sends # 0 => failed' \/ Settled(n)'
    BY DEF Settled, Done, LastSettled
  <2> QED BY <2>1, <2>2, <2>3, <2>4 DEF HostEnds
<1>6. verdict'[sends'] = "none"
  <2>1. sends + 1 > sends
    BY <1>1
  <2>2. \A n \in Lines : n > sends => verdict[n] = "none"
    BY DEF EndInv
  <2> QED BY <1>1, <1>2, <2>1, <2>2 DEF HostEnds
<1>7. \A n \in Lines : answers'[n] = n
  BY AnswersOwn
<1>8. \A n \in Lines : n < sends' => failed' \/ Settled(n)'
  BY <1>5
<1> QED BY <1>2, <1>4, <1>6, <1>7, <1>8 DEF EndInv, Waits

LEMMA EndsEnded ==
  ASSUME Types, EndInv, NEW bad, End(bad), HostEnds, OwnAnswer,
         failed' \/ (sends > 0 /\ Done(sends))
  PROVE  EndInv'
<1>1. sends' = sends /\ wait' = "done"
  BY DEF End
<1>2. \A n \in Lines : n > sends' => verdict'[n] = "none"
  BY <1>1 DEF EndInv, HostEnds
<1>3. ASSUME NEW n \in Lines, n < sends' PROVE failed' \/ Settled(n)'
  <2>1. failed \/ Settled(n)
    BY <1>1, <1>3 DEF EndInv
  <2>2. Settled(n) => Settled(n)'
    BY DEF Settled, Done, HostEnds
  <2> QED BY <2>1, <2>2 DEF HostEnds
<1>4. \A n \in Lines : answers'[n] = n
  BY AnswersOwn
<1>5. failed' \/ (sends' > 0 /\ Done(sends)')
  BY <1>1 DEF Done, HostEnds
<1>6. \A n \in Lines : n < sends' => failed' \/ Settled(n)'
  BY <1>3
<1> QED BY <1>1, <1>2, <1>4, <1>5, <1>6 DEF EndInv

LEMMA EndsKept ==
  ASSUME Types, EndInv, HostEnds, UNCHANGED <<answers, sends, failed>>, WaitSuits, wait' = wait \/ wait' # "done",
         wait' = "recover" => part' # "ok"
  PROVE  EndInv'
<1>1. ASSUME NEW n \in Lines, n < sends' PROVE failed' \/ Settled(n)'
  <2>1. failed \/ Settled(n)
    BY <1>1 DEF EndInv
  <2>2. Settled(n) => Settled(n)'
    BY DEF Settled, Done, HostEnds
  <2> QED BY <2>1, <2>2
<1>2. (\A n \in Lines : answers'[n] = n) /\ \A n \in Lines : n > sends' => verdict'[n] = "none"
  BY DEF EndInv, HostEnds
<1>3. wait' = "done" => failed' \/ (sends' > 0 /\ Done(sends)')
  BY DEF EndInv, HostEnds, Done
<1>4. wait' \in {"sync again", "status"} => verdict'[sends'] # "error"
  BY DEF EndInv, HostEnds, WaitSuits
<1>5. \A n \in Lines : n < sends' => failed' \/ Settled(n)'
  BY <1>1
<1> QED BY <1>2, <1>3, <1>4, <1>5 DEF EndInv

----------------------------------------------------------------------------
(* An answer, or a time-out, and what the host does next.                  *)

Holds == LineInv /\ Booting /\ (late = FALSE => StreamInv /\ PendInv /\ EndInv)

LEMMA NothingComes ==
  ASSUME text = <<>>, tx = <<>> PROVE ~Coming
<1>1. text \o tx = <<>>
  BY EmptySeq, ConcatEmptySeq
<1>2. DOMAIN (text \o tx) = {}
  BY <1>1
<1> QED BY <1>2 DEF Coming

\* The stream when nothing is left in it, or only what no line asked for.
LEMMA StreamLeft ==
  ASSUME sends' \in Nat, text' = <<>>, tx' \in Seq(Outputs), Exact(tx', sends', verdict'),
         wait' \in {"sync again", "library", "form", "recover", "user", "wipe"} =>
           /\ \A i \in DOMAIN tx' : tx'[i].of # 0
           /\ board' = "booting" => 0 \in gaveUp',
         wait' = "sync again" => 0 \in gaveUp'
  PROVE  StreamInv'
<1>1. (text \o tx)' = tx'
  BY ConcatEmptySeq
<1> QED BY <1>1 DEF StreamInv, Stream

AnswerKnown == \/ sends = 0
               \/ verdict[sends] # "none" /\ (Done(sends) \/ failed')
AnswerFits == late = FALSE => OwnAnswer /\ Tail(tx) = <<>> /\ AnswerKnown

Consumed == tx' = Tail(tx)

LEMMA AnswerSends ==
  ASSUME IInv, Response, Consumed, Quiet, NEW what \in Whats,
         NEW w \in {"status", "library", "form", "user", "wipe"}, Send(what, w), Suits(what, w),
         failed => failed', AnswerFits
  PROVE  Holds'
<1>1. sends \in Nat /\ sends + 1 \in Lines /\ Types /\ Budget /\ LineInv /\ Booting
  BY Bounded DEF Types, IInv
<1>2. UNCHANGED <<ahead, board, req>> /\ UNCHANGED <<ahead, board, req, verb, verdict>>
      /\ gaveUp' = gaveUp /\ late' = late /\ HostEnds
  BY DEF Quiet, HostEnds
<1>3. tx # <<>> /\ board # "booting"
  BY <1>1 DEF Response, Booting
<1>4. LineInv'
  BY <1>1, <1>2, LinesSent
<1>5. Booting'
  BY <1>2, <1>3 DEF Booting
<1>6. ASSUME late = FALSE PROVE StreamInv' /\ PendInv' /\ EndInv'
  <2>1. StreamInv /\ PendInv /\ EndInv /\ OwnAnswer /\ Tail(tx) = <<>> /\ AnswerKnown
    BY <1>6 DEF IInv, AnswerFits
  <2>2. sends' = sends + 1 /\ wait' = w /\ text' = <<>> /\ tx' = <<>>
    BY <2>1 DEF Send, Consumed
  <2>3. StreamInv'
    <3>0. sends' = sends + 1 /\ wait' = w
      BY DEF Send
    <3>5. sends' \in Nat
      BY <1>1, <3>0
    <3>6. wait' # "sync again"
      BY <3>0
    <3>1. sends' \in Nat /\ wait' # "sync again"
      BY <3>5, <3>6
    <3>3. tx' \in Seq(Outputs) /\ DOMAIN tx' = {}
      BY <2>2
    <3>4. board' # "booting"
      BY <1>2, <1>3
    <3>2. Exact(tx', sends', verdict')
      BY <2>2, <3>1, ExactEmpty
    <3> QED BY <2>2, <3>1, <3>2, <3>3, <3>4, StreamLeft
  <2>4. NextIsNew
    <3>1. sends + 1 > sends
      BY <1>1
    <3> QED BY <1>1, <2>1, <3>1 DEF NextIsNew, EndInv
  <2>5. LastIsKnown /\ LastSettled
    BY <1>2, <2>1 DEF AnswerKnown, LastIsKnown, LastSettled, Done
  <2>6. PendInv'
    BY <1>1, <1>2, <2>1, <2>4, <2>5, PendingSent
  <2>7. w \in Waits \ {"done", "recover"}
    BY DEF Waits
  <2>8. EndInv'
    BY <1>1, <1>2, <2>1, <2>5, <2>7, EndsSent
  <2> QED BY <2>3, <2>6, <2>8
<1> QED BY <1>2, <1>4, <1>5, <1>6 DEF Holds

LEMMA AnswerEnds ==
  ASSUME IInv, Response, Consumed, Quiet, NEW bad, End(bad),
         failed => failed', late = FALSE => OwnAnswer /\ (failed' \/ (sends > 0 /\ Done(sends)))
  PROVE  Holds'
<1>1. sends \in Nat /\ Types /\ LineInv /\ Booting
  BY DEF Types, IInv
<1>2. UNCHANGED <<ahead, board, req>> /\ UNCHANGED <<ahead, board, req, verb, verdict>>
      /\ gaveUp' = gaveUp /\ late' = late /\ HostEnds
  BY DEF Quiet, HostEnds
<1>3. tx # <<>> /\ board # "booting"
  BY <1>1 DEF Response, Booting
<1>4. sends' = sends /\ wait' = "done" /\ text' = <<>> /\ rx' \in {rx, Append(rx, CtrlC)}
  BY DEF End
<1>5. LineInv'
  BY <1>1, <1>2, <1>4, LinesKept
<1>6. Booting'
  BY <1>2, <1>3 DEF Booting
<1>7. WaitSuits
  BY <1>4 DEF WaitSuits
<1>8. ASSUME late = FALSE PROVE StreamInv' /\ PendInv' /\ EndInv'
  <2>1. StreamInv /\ PendInv /\ EndInv /\ OwnAnswer /\ (failed' \/ (sends > 0 /\ Done(sends)))
    BY <1>8 DEF IInv
  <2>2. Exact(Stream, sends, verdict) /\ Stream = Arrived \o Tail(tx) /\ Arrived \in Seq(Outputs) /\ Tail(tx) \in Seq(Outputs)
    BY <1>1, <1>3, <2>1, StreamType DEF StreamInv
  <2>3. Exact(Tail(tx), sends, verdict)
    BY <1>1, <2>2, ExactRest
  <2>4. Exact(tx', sends', verdict') /\ tx' \in Seq(Outputs)
    BY <1>2, <1>4, <2>2, <2>3 DEF Consumed
  <2>5. StreamInv'
    BY <1>1, <1>4, <2>4, StreamLeft
  <2>6. PendInv'
    BY <1>1, <1>2, <1>4, <1>7, <2>1, PendingKept
  <2>7. EndInv'
    BY <1>1, <1>2, <2>1, EndsEnded
  <2> QED BY <2>5, <2>6, <2>7
<1> QED BY <1>2, <1>5, <1>6, <1>8 DEF Holds

AsksAgain(w) ==
  \/ wait = "sync" /\ w = "sync again"
  \/ wait = "status" /\ w = "status"
  \/ wait \in {"library", "form"} /\ verb = "install" /\ w = "user" /\ failed'

LEMMA TimeoutSends ==
  ASSUME IInv, TimeoutKeeps, GiveUp, NEW what \in Whats, NEW w, Send(what, w), Suits(what, w), failed => failed',
         AsksAgain(w)
  PROVE  Holds'
<1>1. sends \in Nat /\ sends + 1 \in Lines /\ Types /\ Budget /\ LineInv /\ Booting
  BY Bounded DEF Types, IInv
<1>2. UNCHANGED <<ahead, board, req>> /\ UNCHANGED <<ahead, board, req, verb, verdict>>
      /\ gaveUp \subseteq gaveUp' /\ sends \in gaveUp' /\ tx' = tx /\ answers' = answers /\ HostEnds
      /\ late' = (late \/ Coming) /\ late \in BOOLEAN
  BY <1>1 DEF TimeoutKeeps, GiveUp, HostEnds, Types
<1>3. LineInv'
  BY <1>1, <1>2, LinesSent
<1>4. sends' = sends + 1 /\ wait' = w /\ text' = <<>>
  BY DEF Send
<1>5. ASSUME board' = "booting" PROVE ~Coming
  <2>1. tx = <<>> /\ text = <<>>
    BY <1>1, <1>2, <1>5 DEF Booting
  <2> QED BY <2>1, NothingComes
<1>6. Booting'
  BY <1>1, <1>2, <1>4, <1>5 DEF Booting
<1>7. ASSUME late' = FALSE PROVE StreamInv' /\ PendInv' /\ EndInv'
  <2>1. late = FALSE /\ ~Coming
    BY <1>2, <1>7
  <2>2. StreamInv /\ PendInv /\ EndInv
    BY <2>1 DEF IInv
  <2>3. /\ \A m \in Nat : \A v : Exact(tx, m, v)
        /\ sends = 0 => text = <<>> /\ tx = <<>>
        /\ \A i \in DOMAIN Stream : Stream[i].of = 0
    BY <1>1, <2>1, <2>2, Silent
  <2>4. wait = "sync" => sends = 0
    BY <1>1 DEF Budget, Stages
  <2>5. ASSUME w \in {"sync again", "user"} PROVE DOMAIN tx = {} /\ (board = "booting" => 0 \in gaveUp')
    <3>1. CASE w = "sync again"
      <4>1. sends = 0
        BY <2>4, <3>1 DEF AsksAgain
      <4>2. tx = <<>>
        BY <2>3, <4>1
      <4> QED BY <1>2, <4>1, <4>2
    <3>2. CASE w = "user"
      <4>1. DOMAIN Stream = {} /\ (board = "booting" => 0 \in gaveUp)
        BY <2>2, <2>3, <3>2 DEF StreamInv, AsksAgain
      <4>2. Stream \in Seq(Outputs) /\ Len(Stream) = 0 /\ tx \in Seq(Outputs) /\ text \in Seq(Outputs)
        BY <1>1, <4>1, StreamType
      <4>3. Len(tx) = 0
        BY <4>2, ConcatItems DEF Stream
      <4> QED BY <1>2, <4>1, <4>2, <4>3
    <3> QED BY <2>5, <3>1, <3>2
  <2>6. StreamInv'
    <3>1. sends' \in Nat /\ tx' \in Seq(Outputs) /\ Exact(tx', sends', verdict')
      BY <1>1, <1>2, <1>4, <2>3, StreamType
    <3>2. w = "sync again" => 0 \in gaveUp'
      BY <1>2, <2>4 DEF AsksAgain
    <3>3. w \in {"sync again", "user", "status"}
      BY DEF AsksAgain
    <3>4. wait' \in {"sync again", "library", "form", "recover", "user", "wipe"} =>
            (\A i \in DOMAIN tx' : tx'[i].of # 0) /\ (board' = "booting" => 0 \in gaveUp')
      BY <1>2, <1>4, <2>5, <3>3
    <3> QED BY <1>4, <3>1, <3>2, <3>4, StreamLeft
  <2>7. NextIsNew
    <3>1. sends + 1 > sends
      BY <1>1
    <3> QED BY <1>1, <2>2, <3>1 DEF NextIsNew, EndInv
  <2>8. LastIsKnown
    BY <1>2, <2>4 DEF LastIsKnown, AsksAgain
  <2>9. LastSettled
    <3>1. CASE wait = "status"
      <4>1. sends \in Lines /\ sends # 0
        BY <1>1, <3>1, Bounded DEF Budget, Stages
      <4>2. verdict[sends] # "error" /\ verdict[sends] \in {"none", "ok", "error", "interrupted"}
        BY <1>1, <2>2, <3>1, <4>1 DEF EndInv, Types
      <4> QED BY <1>2, <4>2 DEF LastSettled
    <3> QED BY <2>4, <3>1 DEF LastSettled, AsksAgain
  <2>10. PendInv'
    BY <1>1, <1>2, <2>2, <2>7, <2>8, PendingSent
  <2>11. w \in Waits \ {"done", "recover"} /\ OwnAnswer
    BY <1>2 DEF Waits, OwnAnswer, AsksAgain
  <2>12. EndInv'
    BY <1>1, <1>2, <2>2, <2>9, <2>11, EndsSent
  <2> QED BY <2>6, <2>10, <2>12
<1> QED BY <1>3, <1>6, <1>7 DEF Holds

LEMMA TimeoutEnds ==
  ASSUME IInv, TimeoutKeeps, GiveUp, End(TRUE) PROVE Holds'
<1>1. sends \in Nat /\ Types /\ LineInv /\ Booting
  BY DEF Types, IInv
<1>2. UNCHANGED <<ahead, board, req>> /\ UNCHANGED <<ahead, board, req, verb, verdict>>
      /\ gaveUp \subseteq gaveUp' /\ tx' = tx /\ answers' = answers
      /\ late' = (late \/ Coming) /\ late \in BOOLEAN
  BY <1>1 DEF TimeoutKeeps, GiveUp, Types
<1>3. sends' = sends /\ wait' = "done" /\ text' = <<>> /\ rx' \in {rx, Append(rx, CtrlC)} /\ failed'
  BY DEF End
<1>4. LineInv'
  BY <1>1, <1>2, <1>3, LinesKept
<1>5. ASSUME board' = "booting" PROVE ~Coming
  <2>1. tx = <<>> /\ text = <<>>
    BY <1>1, <1>2, <1>5 DEF Booting
  <2> QED BY <2>1, NothingComes
<1>6. Booting'
  BY <1>1, <1>2, <1>3, <1>5 DEF Booting
<1>7. WaitSuits /\ HostEnds /\ OwnAnswer
  BY <1>2, <1>3 DEF WaitSuits, HostEnds, OwnAnswer
<1>8. ASSUME late' = FALSE PROVE StreamInv' /\ PendInv' /\ EndInv'
  <2>1. late = FALSE
    BY <1>2, <1>8
  <2>2. StreamInv /\ PendInv /\ EndInv
    BY <2>1 DEF IInv
  <2>3. Exact(text \o tx, sends, verdict) /\ text \in Seq(Outputs) /\ tx \in Seq(Outputs)
    BY <1>1, <2>2, StreamType DEF StreamInv, Stream
  <2>4. Exact(tx, sends, verdict)
    BY <1>1, <2>3, ExactRest
  <2>5. Exact(tx', sends', verdict') /\ tx' \in Seq(Outputs)
    BY <1>2, <1>3, <2>3, <2>4
  <2>6. StreamInv'
    BY <1>1, <1>3, <2>5, StreamLeft
  <2>7. PendInv'
    BY <1>1, <1>2, <1>3, <1>7, <2>2, PendingKept
  <2>8. EndInv'
    BY <1>1, <1>3, <1>7, <2>2, EndsEnded
  <2> QED BY <2>6, <2>7, <2>8
<1> QED BY <1>4, <1>6, <1>8 DEF Holds

----------------------------------------------------------------------------
(* The steps of the host.                                                  *)

LEMMA SentTypes ==
  ASSUME Types, NEW what \in Whats, NEW w \in Waits, Send(what, w)
  PROVE  /\ rx' \in Seq(Requests) /\ sends' \in Nat /\ sends' = sends + 1 /\ wait' = w /\ wait' \in Waits
         /\ text' = <<>> /\ text' \in Seq(Outputs)
         /\ \A g : g \subseteq 0 .. sends => g \subseteq 0 .. sends'
<1>1. rx \in Seq(Requests) /\ sends \in Nat
  BY DEF Types
<1>2. [n |-> sends + 1, what |-> what] \in Requests
  BY <1>1 DEF Requests
<1>3. sends' = sends + 1 /\ rx' = Append(rx, [n |-> sends + 1, what |-> what]) /\ wait' = w /\ text' = <<>>
  BY DEF Send, Write
<1>4. rx' \in Seq(Requests)
  BY <1>1, <1>2, <1>3
<1>5. sends' \in Nat /\ 0 .. sends \subseteq 0 .. sends'
  BY <1>1, <1>3
<1>6. text' \in Seq(Outputs)
  BY <1>3
<1> QED BY <1>3, <1>4, <1>5, <1>6

LEMMA TookTypes ==
  ASSUME Types, tx # <<>>, Consumed
  PROVE  /\ tx' \in Seq(Outputs)
         /\ answers' = answers \/ TookAnswer(sends) => answers' \in [Lines -> Nat]
<1>1. tx \in Seq(Outputs) /\ Head(tx) \in Outputs /\ Tail(tx) \in Seq(Outputs) /\ answers \in [Lines -> Nat]
  BY StreamType DEF Types
<1>2. Head(tx).of \in Nat
  BY <1>1 DEF Outputs
<1> QED BY <1>1, <1>2 DEF TookAnswer, Consumed

LEMMA Sums ==
  ASSUME NEW s \in Nat, NEW r \in Nat, NEW f \in Nat, NEW e \in Nat, NEW a \in Nat, NEW x \in Nat,
         s + r <= f + e + a + x, NEW b \in Nat, NEW y \in Nat
  PROVE  /\ a < b /\ x <= y => s + 1 + r <= f + e + b + y
         /\ a <= b /\ x <= y => s + r <= f + e + b + y
         /\ a <= b /\ x <= y /\ r > 0 => s + 1 + (r - 1) <= f + e + b + y
         /\ a <= b /\ x < y => s + 1 + r <= f + e + b + y
         /\ a <= b /\ x <= y => s + 1 + r <= f + (e + 1) + b + y
OBVIOUS

LEMMA Numbers ==
  ASSUME Types
  PROVE  /\ sends \in Nat /\ rest \in Nat /\ resends \in Nat /\ tries \in Nat /\ MaxForms \in Nat /\ MaxResends \in Nat
         /\ Retried \in Nat /\ \A w : Stage(w) \in Nat
BY SendAssumption DEF Types, Retried, Stage

Rises == Stage(wait) < Stage(wait')
NotFalls == Stage(wait) <= Stage(wait')

\* A line is written, the last time-out moves the host on or a form less is left.
LEMMA CountStep ==
  ASSUME Types, Count, tries' \in Nat, Retried <= Retried'
  PROVE  /\ sends' = sends + 1 /\ rest' = rest /\ resends' = resends /\ Rises => Count'
         /\ sends' = sends /\ rest' = rest /\ resends' = resends /\ NotFalls => Count'
         /\ sends' = sends + 1 /\ rest' = rest - 1 /\ rest > 0 /\ resends' = resends /\ NotFalls => Count'
         /\ sends' = sends + 1 /\ rest' = rest /\ resends' = resends + 1 /\ NotFalls => Count'
         /\ sends' = sends + 1 /\ rest' = rest /\ resends' = resends /\ NotFalls /\ Retried < Retried' => Count'
<1>1. /\ sends \in Nat /\ rest \in Nat /\ resends \in Nat /\ MaxForms \in Nat
      /\ Retried \in Nat /\ Stage(wait) \in Nat /\ Stage(wait') \in Nat
  BY Numbers
<1>2. Retried' \in Nat
  BY DEF Retried
<1> DEFINE x == Retried
           y == Retried'
           a == Stage(wait)
           b == Stage(wait')
<1>3. sends + rest <= MaxForms + resends + a + x
  BY DEF Count
<1>4. sends' + rest' <= MaxForms + resends' + b + y => Count'
  BY DEF Count
<1>5. x \in Nat /\ y \in Nat /\ a \in Nat /\ b \in Nat /\ x <= y
  BY <1>1, <1>2
<1>6. (Rises <=> a < b) /\ (NotFalls <=> a <= b) /\ (Retried < Retried' <=> x < y)
  BY DEF Rises, NotFalls
<1> HIDE DEF x, y, a, b
<1>7. /\ a < b /\ x <= y => sends + 1 + rest <= MaxForms + resends + b + y
      /\ a <= b /\ x <= y => sends + rest <= MaxForms + resends + b + y
      /\ a <= b /\ x <= y /\ rest > 0 => sends + 1 + (rest - 1) <= MaxForms + resends + b + y
      /\ a <= b /\ x < y => sends + 1 + rest <= MaxForms + resends + b + y
      /\ a <= b /\ x <= y => sends + 1 + rest <= MaxForms + (resends + 1) + b + y
  BY <1>1, <1>3, <1>5, Sums
<1> QED BY <1>4, <1>5, <1>6, <1>7

\* Whatever the host writes, it sends no Ctrl-C but for a file.
LEMMA InterruptsSent ==
  ASSUME Types, Interrupts, NEW what \in Whats, NEW w, Send(what, w), verb' = verb, forward' = forward,
         tracker'.active => tracker.active \/ verb = "send"
  PROVE  Interrupts'
<1>1. rx \in Seq(Requests) /\ sends \in Nat
  BY DEF Types
<1> DEFINE l == [n |-> sends + 1, what |-> what]
<1>2. l \in Requests /\ l # CtrlC
  <2>1. l.n = sends + 1 /\ CtrlC.n = 0 /\ sends + 1 # 0
    BY <1>1 DEF CtrlC
  <2>2. l \in Requests
    BY <1>1 DEF Requests
  <2> QED BY <2>1, <2>2
<1>3. rx' = Append(rx, l)
  BY DEF Send, Write
<1> HIDE DEF l
<1>4. \A i \in DOMAIN rx' : (i \in DOMAIN rx /\ rx'[i] = rx[i]) \/ rx'[i] = l
  BY <1>1, <1>2, <1>3
<1> QED BY <1>2, <1>4 DEF Interrupts

LEMMA InterruptsKept ==
  ASSUME Interrupts, rx' = rx, verb' = verb, forward' => forward \/ verb = "send",
         tracker'.active => tracker.active \/ verb = "send"
  PROVE  Interrupts'
BY DEF Interrupts

\* What a step spends of the lines it may write.
Spent ==
  /\ tries' \in Nat /\ Retried <= Retried' /\ rest' \in 0 .. MaxForms /\ resends' \in 0 .. MaxResends
  /\ \/ rest' = rest /\ resends' = resends /\ Rises
     \/ rest' = rest - 1 /\ rest > 0 /\ resends' = resends /\ NotFalls
     \/ rest' = rest /\ resends' = resends + 1 /\ NotFalls
     \/ rest' = rest /\ resends' = resends /\ NotFalls /\ Retried < Retried'
Tracked ==
  /\ tracker' \in [active : BOOLEAN, requested : BOOLEAN]
  /\ tracker'.active => tracker.active \/ verb = "send"
Fails == failed' \in BOOLEAN /\ (failed => failed')
Answers == answers' = answers \/ TookAnswer(sends)

LEMMA AnswerSendsStep ==
  ASSUME IInv, Response, Consumed, Quiet, NEW what \in Whats,
         NEW w \in {"status", "library", "form", "user", "wipe"}, Send(what, w), Suits(what, w), AnswerFits,
         Spent, Tracked, Fails, Answers, Stages'
  PROVE  IInv'
<1>1. Types /\ Budget /\ tx # <<>> /\ w \in Waits
  BY DEF IInv, Response, Waits
<1>2. /\ rx' \in Seq(Requests) /\ sends' \in Nat /\ sends' = sends + 1 /\ wait' \in Waits
      /\ text' \in Seq(Outputs)
      /\ \A g : g \subseteq 0 .. sends => g \subseteq 0 .. sends'
  BY <1>1, SentTypes
<1>3. tx' \in Seq(Outputs) /\ answers' \in [Lines -> Nat]
  BY <1>1, TookTypes DEF Answers
<1>4. gaveUp' \subseteq 0 .. sends'
  BY <1>1, <1>2 DEF Types, Quiet
<1>5. tries' \in Nat /\ rest' \in 0 .. MaxForms /\ resends' \in 0 .. MaxResends /\ failed' \in BOOLEAN
      /\ tracker' \in [active : BOOLEAN, requested : BOOLEAN]
  BY DEF Spent, Fails, Tracked
<1>6. Types'
  BY <1>1, <1>2, <1>3, <1>4, <1>5 DEF Types, Quiet
<1>7. Count'
  BY <1>1, <1>2, CountStep DEF Spent, Budget
<1>8. Interrupts'
  BY <1>1, InterruptsSent DEF Budget, Quiet, Tracked
<1>9. Holds'
  BY AnswerSends DEF Fails
<1> QED BY <1>6, <1>7, <1>8, <1>9 DEF IInv, Holds, Budget

\* The command ends.
EndFits == late = FALSE => OwnAnswer /\ (failed' \/ (sends > 0 /\ Done(sends)))

LEMMA EndedTypes ==
  ASSUME Types, Budget, NEW bad \in BOOLEAN, End(bad), UNCHANGED <<rest, resends, verb, forward>>, tries' \in Nat,
         Retried <= Retried', Tracked
  PROVE  /\ rx' = rx /\ sends' = sends /\ wait' = "done" /\ wait' \in Waits /\ text' \in Seq(Outputs)
         /\ failed' \in BOOLEAN /\ (failed => failed') /\ Budget'
<1>1. rx' = rx /\ sends' = sends /\ wait' = "done" /\ wait' \in Waits /\ text' = <<>> /\ failed' = (failed \/ bad)
  BY DEF End, Waits
<1>2. text' \in Seq(Outputs) /\ failed' \in BOOLEAN /\ (failed => failed')
  BY <1>1 DEF Types
<1>3. NotFalls
  <2>1. Stage(wait) <= 4 /\ Stage(wait') = 4
    BY <1>1 DEF Stage
  <2> QED BY <2>1 DEF NotFalls
<1>4. Count'
  BY <1>1, <1>3, CountStep DEF Budget
<1>5. Stages'
  BY <1>1 DEF Stages
<1>6. Interrupts'
  BY <1>1, InterruptsKept DEF Budget, Tracked
<1> QED BY <1>1, <1>2, <1>4, <1>5, <1>6 DEF Budget

LEMMA AnswerEndsStep ==
  ASSUME IInv, Response, Consumed, Quiet, NEW bad \in BOOLEAN, End(bad), EndFits,
         UNCHANGED <<rest, resends>>, tries' \in Nat, Retried <= Retried', Tracked, Answers
  PROVE  IInv'
<1>1. Types /\ Budget /\ tx # <<>> /\ UNCHANGED <<rest, resends, verb, forward>>
  BY DEF IInv, Response, Quiet
<1>2. /\ rx' = rx /\ sends' = sends /\ wait' = "done" /\ wait' \in Waits /\ text' \in Seq(Outputs)
      /\ failed' \in BOOLEAN /\ (failed => failed') /\ Budget'
  BY <1>1, EndedTypes
<1>3. tx' \in Seq(Outputs) /\ answers' \in [Lines -> Nat]
  BY <1>1, TookTypes DEF Answers
<1>4. Types'
  BY <1>1, <1>2, <1>3 DEF Types, Quiet, Tracked
<1>5. Holds'
  BY <1>2, AnswerEnds DEF EndFits
<1> QED BY <1>2, <1>4, <1>5 DEF IInv, Holds

LEMMA TimeoutSendsStep ==
  ASSUME IInv, TimeoutKeeps, GiveUp, NEW what \in Whats, NEW w \in Waits, Send(what, w), Suits(what, w),
         AsksAgain(w), Spent, Tracked, Fails, Stages', UNCHANGED <<part, forward>>
  PROVE  IInv'
<1>1. Types /\ Budget
  BY DEF IInv
<1>2. /\ rx' \in Seq(Requests) /\ sends' \in Nat /\ sends' = sends + 1 /\ wait' \in Waits
      /\ text' \in Seq(Outputs)
      /\ \A g : g \subseteq 0 .. sends => g \subseteq 0 .. sends'
  BY <1>1, SentTypes
<1>3. gaveUp' \subseteq 0 .. sends'
  <2>1. gaveUp \cup {sends} \subseteq 0 .. sends
    BY <1>1 DEF Types
  <2> QED BY <1>2, <2>1 DEF GiveUp
<1>4. late' \in BOOLEAN
  BY <1>1 DEF TimeoutKeeps, Types
<1>5. tries' \in Nat /\ rest' \in 0 .. MaxForms /\ resends' \in 0 .. MaxResends /\ failed' \in BOOLEAN
      /\ tracker' \in [active : BOOLEAN, requested : BOOLEAN]
  BY DEF Spent, Fails, Tracked
<1>6. Types'
  BY <1>1, <1>2, <1>3, <1>4, <1>5 DEF Types, TimeoutKeeps
<1>7. Count'
  BY <1>1, <1>2, CountStep DEF Spent, Budget
<1>8. Interrupts'
  BY <1>1, InterruptsSent DEF Budget, TimeoutKeeps, Tracked
<1>9. Holds'
  BY TimeoutSends DEF Fails
<1> QED BY <1>6, <1>7, <1>8, <1>9 DEF IInv, Holds, Budget

LEMMA TimeoutEndsStep ==
  ASSUME IInv, TimeoutKeeps, GiveUp, End(TRUE), UNCHANGED <<part, forward, rest, resends, tracker>>
  PROVE  IInv'
<1>1. Types /\ Budget /\ UNCHANGED <<rest, resends, verb, forward>> /\ tries' = tries
  BY DEF IInv, TimeoutKeeps
<1>2. tries' \in Nat /\ Retried <= Retried' /\ Tracked
  BY <1>1 DEF Types, Retried, Tracked
<1>3. /\ rx' = rx /\ sends' = sends /\ wait' \in Waits /\ text' \in Seq(Outputs)
      /\ failed' \in BOOLEAN /\ (failed => failed') /\ Budget'
  BY <1>1, <1>2, EndedTypes
<1>4. gaveUp' \subseteq 0 .. sends' /\ late' \in BOOLEAN
  BY <1>1, <1>3 DEF Types, GiveUp, TimeoutKeeps
<1>5. Types'
  BY <1>1, <1>3, <1>4 DEF Types, TimeoutKeeps
<1>6. Holds'
  BY TimeoutEnds
<1> QED BY <1>3, <1>5, <1>6 DEF IInv, Holds

\* An answer that lets the host go on is the last line's own.
LEMMA OkFits ==
  ASSUME IInv, Response, Status(Arrived) = "ok", OwnAnswer \/ TookAnswer(sends)
  PROVE  AnswerFits
<1>1. Types
  BY DEF IInv
<1>2. ASSUME late = FALSE PROVE OwnAnswer /\ Tail(tx) = <<>> /\ AnswerKnown
  <2>1. StreamInv
    BY <1>2 DEF IInv
  <2>2. Head(tx).of = sends /\ Tail(tx) = <<>> /\ Done(sends)
    BY <1>1, <2>1, Taken
  <2> QED BY <2>2 DEF OwnAnswer, AnswerKnown, Done
<1> QED BY <1>2 DEF AnswerFits

\* So is one to a line that is sent after the board has answered before.
LEMMA OwnFits ==
  ASSUME IInv, Response, wait \in {"library", "form", "recover", "user", "wipe"}, OwnAnswer \/ TookAnswer(sends)
  PROVE  /\ Status(Arrived) \in {"ok", "error"}
         /\ failed' => AnswerFits /\ EndFits
         /\ Status(Arrived) = "ok" => EndFits
<1>1. Types /\ sends \in Nat
  BY DEF IInv, Types
<1>2. ASSUME late = FALSE
      PROVE  /\ OwnAnswer /\ Tail(tx) = <<>> /\ verdict[sends] # "none"
             /\ Status(Arrived) = "ok" => sends # 0 /\ Done(sends)
  <2>1. StreamInv
    BY <1>2 DEF IInv
  <2>2. Head(tx).of = sends /\ verdict[sends] # "none" /\ Tail(tx) = <<>>
    BY <1>1, <2>1, Taken
  <2>3. Status(Arrived) = "ok" => sends # 0 /\ Done(sends)
    BY <1>1, <2>1, Taken
  <2> QED BY <2>2, <2>3 DEF OwnAnswer
<1>3. Status(Arrived) \in {"ok", "error"}
  <2>1. tx # <<>> /\ Arrived \in Seq(Outputs) /\ Statuses(Arrived) # {}
    BY <1>1, StreamType DEF Response, PromptComplete, Syncing
  <2> QED BY <2>1, StatusOf
<1>4. sends # 0 => sends > 0
  BY <1>1
<1> QED BY <1>2, <1>3, <1>4 DEF AnswerFits, AnswerKnown, EndFits

LEMMA KeptCounts ==
  ASSUME Types, tries' = tries PROVE tries' \in Nat /\ Retried' = Retried /\ Retried <= Retried'
BY Numbers DEF Types, Retried

LEMMA AnswerSyncStep ==
  ASSUME IInv, AnswerSync PROVE IInv'
<1> DEFINE what == IF verb = "install" THEN "status" ELSE "wipe"
<1>1. Types /\ Budget /\ LineInv /\ Booting /\ tx # <<>>
  BY DEF IInv, AnswerSync, Response
<1>2. /\ Send(what, what) /\ Response /\ Consumed /\ Quiet /\ Kept /\ UNCHANGED answers
      /\ wait \in {"sync", "sync again"}
  BY DEF AnswerSync, Syncing, Consumed
<1>3. what \in Whats /\ what \in Waits /\ what \in {"status", "wipe"} /\ (what = "status" <=> verb = "install")
  BY DEF Whats, Waits
<1> HIDE DEF what
<1>4. sends' = sends + 1 /\ wait' = what /\ sends \in Nat
  BY <1>1, <1>2 DEF Send, Types
<1>5. Spent
  <2>1. rest' = rest /\ resends' = resends /\ rest' \in 0 .. MaxForms /\ resends' \in 0 .. MaxResends /\ tries' = tries
    BY <1>1, <1>2 DEF Kept, Types
  <2>2. Stage(wait) \in {0, 1} /\ Stage(wait') = 2
    BY <1>2, <1>3, <1>4 DEF Stage
  <2>3. Rises
    BY <2>2 DEF Rises
  <2> QED BY <1>1, <2>1, <2>3, KeptCounts DEF Spent
<1>6. Stages'
  <2>1. verb \in {"send", "install", "wipe-user"} /\ rest' = rest /\ verb' = verb
    BY <1>1, <1>2 DEF Types, Kept, Quiet
  <2>2. sends' > 0
    BY <1>4
  <2>3. verb # "wipe-user" => rest > 0
    BY <1>1, <1>2 DEF Budget, Stages
  <2> QED BY <1>3, <1>4, <2>1, <2>2, <2>3 DEF Stages
<1>7. AnswerFits
  <2> SUFFICES ASSUME late = FALSE PROVE OwnAnswer /\ Tail(tx) = <<>> /\ AnswerKnown
    BY DEF AnswerFits
  <2>1. StreamInv /\ EndInv
    BY DEF IInv
  <2>2. /\ Head(tx).of = sends => Tail(tx) = <<>>
        /\ Head(tx).of \in {0, sends}
        /\ wait = "sync again" => Head(tx).of = sends /\ verdict[sends] # "none"
    BY <1>1, <1>2, <2>1, Taken
  <2>3. CASE wait = "sync"
    BY <1>1, <1>2, <2>2, <2>3 DEF Budget, Stages, AnswerKnown, OwnAnswer
  <2>4. CASE wait = "sync again"
    <3>1. sends > 0
      BY <1>1, <2>4 DEF Budget, Stages
    <3>2. sends \in Lines
      BY <1>1, <1>4, <3>1, Bounded
    <3>3. verdict[sends] \in {"none", "ok", "error", "interrupted"} /\ verdict[sends] # "error"
      BY <1>1, <2>1, <2>4, <3>2 DEF Types, EndInv
    <3> QED BY <1>2, <2>2, <2>4, <3>3 DEF AnswerKnown, OwnAnswer, Done
  <2> QED BY <1>2, <2>3, <2>4
<1>8. Suits(what, what) /\ Answers
  BY <1>2, <1>3 DEF Suits, Answers
<1>9. Tracked /\ Fails
  BY <1>1, <1>2 DEF Kept, Tracked, Fails, Types
<1> QED BY <1>2, <1>3, <1>5, <1>6, <1>7, <1>8, <1>9, AnswerSendsStep

\* The next form of a file or a library.
LEMMA NextFormStep ==
  ASSUME IInv, Response, Consumed, Quiet, NextForm, AnswerFits, Answers,
         wait \in {"status", "library", "form", "recover"}, rest > 0,
         wait = "status" => verb = "send",
         tries' \in Nat, Retried <= Retried', resends' = resends
  PROVE  IInv'
<1>1. Types /\ Budget
  BY DEF IInv
<1>2. Send("form", "form") /\ rest' = rest - 1 /\ UNCHANGED failed
  BY DEF NextForm
<1>3. sends' = sends + 1 /\ wait' = "form" /\ sends \in Nat /\ verb' = verb
  BY <1>1, <1>2 DEF Send, Types, Quiet
<1>4. NotFalls
  <2>1. Stage(wait) \in {2, 3} /\ Stage(wait') = 3
    BY <1>3 DEF Stage
  <2> QED BY <2>1 DEF NotFalls
<1>5. rest - 1 \in 0 .. MaxForms
  BY <1>1, SendAssumption DEF Types
<1>6. Spent
  BY <1>1, <1>2, <1>4, <1>5 DEF Spent, Types
<1>7. sends' > 0
  BY <1>3
<1>8. verb # "wipe-user"
  BY <1>1 DEF Budget, Stages
<1>9. Stages'
  BY <1>3, <1>7, <1>8 DEF Stages
<1>10. Tracked
  BY <1>1 DEF NextForm, Tracked, Types
<1>11. Fails /\ Suits("form", "form") /\ "form" \in Whats /\ "form" \in {"status", "library", "form", "user", "wipe"}
  BY <1>1, <1>2 DEF Fails, Types, Suits, Whats
<1> QED BY <1>2, <1>6, <1>9, <1>10, <1>11, AnswerSendsStep

\* The host leaves library mode.
LEMMA LeaveLibraryStep ==
  ASSUME IInv, Response, Consumed, Quiet, NEW bad \in BOOLEAN, LeaveLibrary(bad), AnswerFits, Answers,
         wait = "form", verb = "install", UNCHANGED <<tries, resends>>
  PROVE  IInv'
<1>1. Types /\ Budget
  BY DEF IInv
<1>2. Send("user", "user") /\ failed' = (failed \/ bad) /\ UNCHANGED <<rest, tracker>>
  BY DEF LeaveLibrary
<1>3. sends' = sends + 1 /\ wait' = "user" /\ sends \in Nat /\ verb' = verb
  BY <1>1, <1>2 DEF Send, Types, Quiet
<1>4. Rises
  <2>1. Stage(wait) = 3 /\ Stage(wait') = 4
    BY <1>3 DEF Stage
  <2> QED BY <2>1 DEF Rises
<1>5. Spent
  BY <1>1, <1>2, <1>4, KeptCounts DEF Spent, Types
<1>6. sends' > 0
  BY <1>3
<1>7. Stages'
  BY <1>3, <1>6 DEF Stages
<1>8. Tracked /\ Fails
  BY <1>1, <1>2 DEF Tracked, Fails, Types
<1>9. Suits("user", "user") /\ "user" \in Whats /\ "user" \in {"status", "library", "form", "user", "wipe"}
  BY DEF Suits, Whats
<1> QED BY <1>2, <1>5, <1>7, <1>8, <1>9, AnswerSendsStep

LEMMA AnswerStatusStep ==
  ASSUME IInv, AnswerStatus PROVE IInv'
<1> DEFINE good == Status(Arrived) = "ok" /\ \E i \in DOMAIN Arrived : Arrived[i].k = "info"
<1>1. Types /\ Budget /\ Response /\ Consumed /\ Quiet /\ wait = "status"
      /\ tries' = tries + 1 /\ UNCHANGED <<resends, answers>>
  BY DEF IInv, AnswerStatus, Consumed
<1>2. \/ good /\ verb = "send" /\ NextForm
      \/ good /\ verb = "install" /\ Send("library", "library") /\ UNCHANGED <<rest, failed, tracker>>
      \/ /\ Status(Arrived) # "error" /\ tries = 0
         /\ Send("status", "status") /\ UNCHANGED <<rest, failed, tracker>>
      \/ End(TRUE) /\ UNCHANGED <<rest, tracker>>
  BY DEF AnswerStatus
<1>3. tries' \in Nat /\ Retried <= Retried' /\ Answers /\ (tries = 0 => Retried < Retried')
  <2>1. tries \in Nat /\ tries + 1 \in Nat /\ tries + 1 # 0
    BY <1>1 DEF Types
  <2>2. Retried' = 1 /\ Retried \in {0, 1} /\ (tries = 0 => Retried = 0)
    BY <1>1, <2>1 DEF Retried
  <2> QED BY <1>1, <2>1, <2>2 DEF Answers
<1>4. rest > 0 /\ verb # "wipe-user" /\ sends \in Nat /\ sends > 0
  BY <1>1 DEF Budget, Stages, Types
<1>5. Status(Arrived) \in {"ok", "error"}
  <2>1. tx # <<>> /\ Arrived \in Seq(Outputs) /\ Statuses(Arrived) # {}
    BY <1>1, StreamType DEF Response, PromptComplete, Syncing
  <2> QED BY <2>1, StatusOf
<1>6. ASSUME Status(Arrived) = "ok" PROVE AnswerFits
  <2>1. ASSUME late = FALSE PROVE OwnAnswer
    BY <1>1 DEF OwnAnswer
  <2>2. ASSUME late = FALSE PROVE AnswerFits
    BY <1>1, <1>6, <2>1, <2>2, OkFits
  <2> QED BY <2>2 DEF AnswerFits
<1> HIDE DEF good
<1>7. good => Status(Arrived) = "ok"
  BY DEF good
<1>8. CASE good /\ verb = "send" /\ NextForm
  BY <1>1, <1>3, <1>4, <1>6, <1>7, <1>8, NextFormStep
<1>9. ASSUME NEW w \in {"library", "status"}, Send(w, w), UNCHANGED <<rest, failed, tracker>>,
             Status(Arrived) = "ok", w = "library" => verb = "install", w = "status" => tries = 0
      PROVE  IInv'
  <2>1. sends' = sends + 1 /\ wait' = w /\ verb' = verb /\ rest' = rest
    BY <1>1, <1>9 DEF Send, Quiet
  <2>2. w = "library" => Rises
    BY <1>1, <2>1 DEF Rises, Stage
  <2>3. w = "status" => NotFalls
    BY <1>1, <2>1, <2>2 DEF NotFalls, Stage
  <2>4. Spent
    BY <1>1, <1>3, <1>9, <2>2, <2>3 DEF Spent, Types
  <2>5. sends' > 0
    BY <1>4, <2>1
  <2>6. Stages'
    BY <1>4, <1>9, <2>1, <2>5 DEF Stages
  <2>7. Tracked /\ Fails /\ Suits(w, w) /\ w \in Whats /\ w \in {"status", "library", "form", "user", "wipe"}
    BY <1>1, <1>9 DEF Tracked, Fails, Types, Suits, Whats
  <2> QED BY <1>1, <1>3, <1>6, <1>9, <2>4, <2>6, <2>7, AnswerSendsStep
<1>10. CASE good /\ verb = "install" /\ Send("library", "library") /\ UNCHANGED <<rest, failed, tracker>>
  BY <1>7, <1>9, <1>10
<1>11. CASE Status(Arrived) # "error" /\ tries = 0 /\ Send("status", "status") /\ UNCHANGED <<rest, failed, tracker>>
  BY <1>5, <1>9, <1>11
<1>12. CASE End(TRUE) /\ UNCHANGED <<rest, tracker>>
  <2>1. EndFits
    BY <1>1, <1>12 DEF EndFits, OwnAnswer, End
  <2>2. Tracked
    BY <1>1, <1>12 DEF Tracked, Types
  <2> QED BY <1>1, <1>3, <1>12, <2>1, <2>2, AnswerEndsStep
<1> QED BY <1>2, <1>8, <1>10, <1>11, <1>12

LEMMA AnswerLibraryStep ==
  ASSUME IInv, AnswerLibrary PROVE IInv'
<1>1. /\ Types /\ Budget /\ Response /\ Consumed /\ Quiet /\ wait = "library" /\ TookAnswer(sends)
      /\ UNCHANGED <<tries, resends>> /\ Answers
  BY DEF IInv, AnswerLibrary, Consumed, Answers
<1>2. tries' \in Nat /\ Retried <= Retried'
  BY <1>1, KeptCounts
<1>3. CASE Status(Arrived) = "ok" /\ NextForm
  <2>1. AnswerFits
    BY <1>1, <1>3, OkFits
  <2>2. rest > 0
    BY <1>1 DEF Budget, Stages
  <2> QED BY <1>1, <1>2, <1>3, <2>1, <2>2, NextFormStep
<1>4. CASE Status(Arrived) = "error" /\ End(TRUE) /\ UNCHANGED <<rest, tracker>>
  <2>1. failed'
    BY <1>4 DEF End
  <2>2. EndFits
    BY <1>1, <2>1, OwnFits
  <2>3. Tracked
    BY <1>1, <1>4 DEF Tracked, Types
  <2> QED BY <1>1, <1>2, <1>4, <2>2, <2>3, AnswerEndsStep
<1> QED BY <1>3, <1>4 DEF AnswerLibrary

LEMMA AnswerLibraryFormStep ==
  ASSUME IInv, AnswerLibraryForm PROVE IInv'
<1>1. /\ Types /\ Budget /\ Response /\ Consumed /\ Quiet /\ wait = "form" /\ verb = "install" /\ TookAnswer(sends)
      /\ UNCHANGED <<tries, resends>> /\ Answers
  BY DEF IInv, AnswerLibraryForm, Consumed, Answers
<1>2. tries' \in Nat /\ Retried <= Retried'
  BY <1>1, KeptCounts
<1>3. Status(Arrived) \in {"ok", "error"}
  BY <1>1, OwnFits
<1>4. Status(Arrived) = "ok" => AnswerFits
  BY <1>1, OkFits
<1>5. CASE Status(Arrived) = "error"
  <2>1. LeaveLibrary(TRUE)
    BY <1>5 DEF AnswerLibraryForm, AfterLibraryForm
  <2>2. failed'
    BY <2>1 DEF LeaveLibrary
  <2>3. AnswerFits
    BY <1>1, <2>2, OwnFits
  <2> QED BY <1>1, <2>1, <2>3, LeaveLibraryStep
<1>6. CASE Status(Arrived) = "ok" /\ rest = 0
  <2>1. LeaveLibrary(FALSE)
    BY <1>6 DEF AnswerLibraryForm, AfterLibraryForm
  <2> QED BY <1>1, <1>4, <1>6, <2>1, LeaveLibraryStep
<1>7. CASE Status(Arrived) = "ok" /\ rest # 0
  <2>1. NextForm
    BY <1>7 DEF AnswerLibraryForm, AfterLibraryForm
  <2>2. rest \in Nat
    BY <1>1, Numbers
  <2>3. rest > 0
    BY <1>7, <2>2
  <2> QED BY <1>1, <1>2, <1>4, <1>7, <2>1, <2>3, NextFormStep
<1> QED BY <1>3, <1>5, <1>6, <1>7

LEMMA AnswerFormStep ==
  ASSUME IInv, AnswerForm PROVE IInv'
<1>1. /\ Types /\ Budget /\ Response /\ Consumed /\ Quiet /\ wait = "form" /\ verb = "send" /\ TookAnswer(sends)
      /\ UNCHANGED <<tries, resends>> /\ Answers
  BY DEF IInv, AnswerForm, Consumed, Answers
<1>2. tries' \in Nat /\ Retried <= Retried'
  BY <1>1, KeptCounts
<1>3. CASE Status(Arrived) = "ok" /\ rest # 0 /\ NextForm
  <2>1. rest \in Nat
    BY <1>1, Numbers
  <2>2. rest > 0
    BY <1>3, <2>1
  <2>3. AnswerFits
    BY <1>1, <1>3, OkFits
  <2> QED BY <1>1, <1>2, <1>3, <2>2, <2>3, NextFormStep
<1>4. ASSUME NEW bad \in BOOLEAN, End(bad), tracker' = Idle, UNCHANGED rest, bad \/ Status(Arrived) = "ok"
      PROVE  IInv'
  <2>1. bad => failed'
    BY <1>4 DEF End
  <2>2. EndFits
    BY <1>1, <1>4, <2>1, OwnFits
  <2>3. Tracked
    BY <1>4 DEF Tracked, Idle
  <2> QED BY <1>1, <1>2, <1>4, <2>2, <2>3, AnswerEndsStep
<1> QED BY <1>3, <1>4 DEF AnswerForm

LEMMA AnswerRecoverStep ==
  ASSUME IInv, AnswerRecover PROVE IInv'
<1>1. /\ Types /\ Budget /\ Response /\ Consumed /\ Quiet /\ wait = "recover" /\ TookAnswer(sends)
      /\ UNCHANGED <<tries, resends>> /\ Answers
  BY DEF IInv, AnswerRecover, Consumed, Answers
<1>2. tries' \in Nat /\ Retried <= Retried'
  BY <1>1, KeptCounts
<1> DEFINE settled == "ok" \in {Status(Arrived), part}
<1>3. ASSUME settled, late = FALSE PROVE Status(Arrived) = "ok"
  BY <1>1, <1>3 DEF IInv, EndInv
<1>4. (settled /\ rest # 0 /\ NextForm) \/ ((settled => rest = 0) /\ End(~settled) /\ UNCHANGED <<rest, tracker>>)
  BY DEF AnswerRecover
<1> HIDE DEF settled
<1>5. CASE settled /\ rest # 0 /\ NextForm
  <2>1. rest \in Nat
    BY <1>1, Numbers
  <2>2. rest > 0
    BY <1>5, <2>1
  <2>3. AnswerFits
    <3>1. ASSUME late = FALSE PROVE AnswerFits
      BY <1>1, <1>3, <1>5, <3>1, OkFits
    <3> QED BY <3>1 DEF AnswerFits
  <2> QED BY <1>1, <1>2, <1>5, <2>2, <2>3, NextFormStep
<1>6. CASE End(~settled) /\ UNCHANGED <<rest, tracker>>
  <2>1. ~settled => failed'
    BY <1>6 DEF End
  <2>2. EndFits
    <3>1. ASSUME late = FALSE PROVE EndFits
      BY <1>1, <1>3, <2>1, <3>1, OwnFits
    <3> QED BY <3>1 DEF EndFits
  <2>3. Tracked
    BY <1>1, <1>6 DEF Tracked, Types
  <2>4. (~settled) \in BOOLEAN
    OBVIOUS
  <2> QED BY <1>1, <1>2, <1>6, <2>2, <2>3, <2>4, AnswerEndsStep
<1> QED BY <1>4, <1>5, <1>6

LEMMA AnswerLastStep ==
  ASSUME IInv, AnswerLast PROVE IInv'
<1>1. /\ Types /\ Budget /\ Response /\ Consumed /\ Quiet /\ wait \in {"user", "wipe"} /\ TookAnswer(sends)
      /\ UNCHANGED <<tries, resends, rest, tracker>> /\ Answers
  BY DEF IInv, AnswerLast, Consumed, Answers
<1>2. tries' \in Nat /\ Retried <= Retried'
  BY <1>1, KeptCounts
<1>3. Status(Arrived) \in {"ok", "error"}
  BY <1>1, OwnFits
<1>4. PICK bad \in BOOLEAN : bad = (Status(Arrived) = "error") /\ End(bad)
  BY DEF AnswerLast
<1>5. bad => failed'
  BY <1>4 DEF End
<1>6. EndFits
  BY <1>1, <1>3, <1>4, <1>5, OwnFits
<1>7. Tracked
  BY <1>1 DEF Tracked, Types
<1> QED BY <1>1, <1>2, <1>4, <1>6, <1>7, AnswerEndsStep

LEMMA TimeoutSyncStep ==
  ASSUME IInv, TimeoutSync PROVE IInv'
<1>1. /\ Types /\ Budget /\ wait \in {"sync", "sync again"} /\ TimeoutKeeps /\ GiveUp
      /\ UNCHANGED <<part, resends, rest, tracker, forward>> /\ tries' = tries
  BY DEF IInv, TimeoutSync, Syncing, TimeoutKeeps
<1>2. CASE wait = "sync"
  <2>1. Send("blank", "sync again") /\ UNCHANGED failed
    BY <1>2 DEF TimeoutSync
  <2>2. sends' = sends + 1 /\ wait' = "sync again" /\ sends \in Nat /\ verb' = verb
    BY <1>1, <2>1 DEF Send, Types, TimeoutKeeps
  <2>3. Rises
    <3>1. Stage(wait) = 0 /\ Stage(wait') = 1
      BY <1>2, <2>2 DEF Stage
    <3> QED BY <3>1 DEF Rises
  <2>4. Spent
    BY <1>1, <2>3, KeptCounts DEF Spent, Types
  <2>5. sends' > 0
    <3>1. sends' = sends + 1 /\ sends \in Nat
      BY <2>2
    <3> QED BY <3>1
  <2>6. Stages'
    BY <1>1, <1>2, <2>2, <2>5 DEF Stages, Budget
  <2>7. Tracked /\ Fails /\ Suits("blank", "sync again") /\ "blank" \in Whats /\ "sync again" \in Waits
    BY <1>1, <2>1 DEF Tracked, Fails, Types, Suits, Whats, Waits
  <2>8. AsksAgain("sync again")
    BY <1>2 DEF AsksAgain
  <2> QED BY <1>1, <2>1, <2>4, <2>6, <2>7, <2>8, TimeoutSendsStep
<1>3. CASE wait # "sync"
  <2>1. End(TRUE)
    BY <1>3 DEF TimeoutSync
  <2> QED BY <1>1, <2>1, TimeoutEndsStep
<1> QED BY <1>2, <1>3

LEMMA TimeoutStatusStep ==
  ASSUME IInv, TimeoutStatus PROVE IInv'
<1>1. /\ Types /\ Budget /\ wait = "status" /\ TimeoutKeeps /\ GiveUp
      /\ UNCHANGED <<part, rest, tracker, forward>> /\ tries' = tries
  BY DEF IInv, TimeoutStatus, TimeoutKeeps
<1>2. CASE resends < MaxResends /\ resends' = resends + 1 /\ Send("status", "status") /\ UNCHANGED failed
  <2>1. sends' = sends + 1 /\ wait' = "status" /\ sends \in Nat /\ verb' = verb
    BY <1>1, <1>2 DEF Send, Types, TimeoutKeeps
  <2>2. NotFalls
    BY <1>1, <2>1 DEF NotFalls, Stage
  <2>3. resends' \in 0 .. MaxResends
    BY <1>1, <1>2, SendAssumption DEF Types
  <2>4. Spent
    BY <1>1, <1>2, <2>2, <2>3, KeptCounts DEF Spent, Types
  <2>5. sends' > 0
    BY <2>1
  <2>6. Stages'
    BY <1>1, <2>1, <2>5 DEF Stages, Budget
  <2>7. Tracked /\ Fails /\ Suits("status", "status") /\ "status" \in Whats /\ "status" \in Waits
    BY <1>1, <1>2 DEF Tracked, Fails, Types, Suits, Whats, Waits
  <2>8. AsksAgain("status")
    BY <1>1 DEF AsksAgain
  <2> QED BY <1>1, <1>2, <2>4, <2>6, <2>7, <2>8, TimeoutSendsStep
<1>3. CASE End(TRUE) /\ UNCHANGED resends
  BY <1>1, <1>3, TimeoutEndsStep
<1> QED BY <1>2, <1>3 DEF TimeoutStatus

LEMMA TimeoutLibraryStep ==
  ASSUME IInv, TimeoutLibrary PROVE IInv'
<1>1. /\ Types /\ Budget /\ wait \in {"library", "form"} /\ verb = "install" /\ TimeoutKeeps /\ GiveUp
      /\ UNCHANGED <<part, resends, forward>> /\ tries' = tries
  BY DEF IInv, TimeoutLibrary, TimeoutKeeps
<1>2. Send("user", "user") /\ failed' = (failed \/ TRUE) /\ UNCHANGED <<rest, tracker>>
  BY DEF TimeoutLibrary, LeaveLibrary
<1>3. sends' = sends + 1 /\ wait' = "user" /\ sends \in Nat /\ verb' = verb
  BY <1>1, <1>2 DEF Send, Types, TimeoutKeeps
<1>4. Rises
  <2>1. Stage(wait) = 3 /\ Stage(wait') = 4
    BY <1>1, <1>3 DEF Stage
  <2> QED BY <2>1 DEF Rises
<1>5. Spent
  BY <1>1, <1>2, <1>4, KeptCounts DEF Spent, Types
<1>6. sends' > 0
  BY <1>3
<1>7. Stages'
  BY <1>1, <1>3, <1>6 DEF Stages
<1>8. Tracked /\ Fails /\ Suits("user", "user") /\ "user" \in Whats /\ "user" \in Waits
  BY <1>1, <1>2 DEF Tracked, Fails, Types, Suits, Whats, Waits
<1>9. AsksAgain("user")
  BY <1>1, <1>2 DEF AsksAgain
<1> QED BY <1>1, <1>2, <1>5, <1>7, <1>8, <1>9, TimeoutSendsStep

LEMMA TimeoutLastStep ==
  ASSUME IInv, TimeoutLast PROVE IInv'
BY TimeoutEndsStep DEF TimeoutLast

LEMMA TimeoutFormStep ==
  ASSUME IInv, TimeoutForm PROVE IInv'
<1>1. /\ Types /\ Budget /\ LineInv /\ Booting /\ wait = "form" /\ verb = "send" /\ TimeoutKeeps /\ GiveUp
      /\ tracker' = Idle /\ rx' = Append(rx, CtrlC) /\ wait' = "recover" /\ text' = <<>> /\ part' = Status(text)
      /\ UNCHANGED <<sends, rest, resends, failed, forward>> /\ tries' = tries
  BY DEF IInv, TimeoutForm, Write, TimeoutKeeps
<1>2. UNCHANGED <<ahead, board, req>> /\ UNCHANGED <<ahead, board, req, verb, verdict>>
      /\ gaveUp \subseteq gaveUp' /\ tx' = tx /\ answers' = answers
      /\ late' = (late \/ Coming) /\ late \in BOOLEAN
  BY <1>1 DEF TimeoutKeeps, GiveUp, Types
<1>3. text \in Seq(Outputs) /\ tx \in Seq(Outputs) /\ rx \in Seq(Requests) /\ CtrlC \in Requests /\ sends \in Nat
  BY <1>1, StreamType DEF Types, CtrlC, Requests, Whats
<1>4. Types'
  <2>1. rx' \in Seq(Requests) /\ text' \in Seq(Outputs) /\ part' \in {"none", "ok", "error"}
    BY <1>1, <1>3, StatusOf
  <2>2. gaveUp' \subseteq 0 .. sends' /\ late' \in BOOLEAN /\ wait' \in Waits
        /\ tracker' \in [active : BOOLEAN, requested : BOOLEAN]
    BY <1>1, <1>2 DEF Types, GiveUp, Waits, Idle
  <2> QED BY <1>1, <1>2, <2>1, <2>2 DEF Types, TimeoutKeeps
<1>5. Budget'
  <2>1. NotFalls
    BY <1>1 DEF NotFalls, Stage
  <2>2. Count'
    BY <1>1, <2>1, KeptCounts, CountStep DEF Budget
  <2>3. Stages'
    BY <1>1, <1>2 DEF Budget, Stages
  <2>4. Interrupts'
    BY <1>1, <1>2 DEF Interrupts
  <2> QED BY <2>2, <2>3, <2>4 DEF Budget
<1>6. LineInv'
  BY <1>1, <1>2, LinesKept
<1>7. ASSUME board' = "booting" PROVE ~Coming
  <2>1. tx = <<>> /\ text = <<>>
    BY <1>1, <1>2, <1>7 DEF Booting
  <2> QED BY <2>1, NothingComes
<1>8. Booting'
  BY <1>1, <1>2, <1>7 DEF Booting
<1>9. ASSUME late' = FALSE PROVE StreamInv' /\ PendInv' /\ EndInv'
  <2>1. late = FALSE /\ ~Coming
    BY <1>2, <1>9
  <2>2. StreamInv /\ PendInv /\ EndInv
    BY <2>1 DEF IInv
  <2>3. Exact(tx, sends, verdict) /\ \A i \in DOMAIN Stream : Stream[i].of = 0
    BY <1>1, <1>3, <2>1, <2>2, Silent
  <2>4. DOMAIN Stream = {} /\ (board = "booting" => 0 \in gaveUp)
    BY <1>1, <2>2, <2>3 DEF StreamInv
  <2>5. Len(Stream) = 0
    <3>1. Stream \in Seq(Outputs)
      BY <1>1, StreamType
    <3> QED BY <2>4, <3>1
  <2>6. Len(text) = 0 /\ Len(tx) = 0
    <3>1. Len(Stream) = Len(text) + Len(tx) /\ Len(text) \in Nat /\ Len(tx) \in Nat
      BY <1>3, ConcatItems DEF Stream
    <3>2. \A a, b \in Nat : a + b = 0 => a = 0 /\ b = 0
      OBVIOUS
    <3> QED BY <2>5, <3>1, <3>2
  <2>7. part' # "ok"
    <3>1. Statuses(text) = {}
      BY <1>3, <2>6 DEF Statuses
    <3>2. Status(text) = "none"
      BY <1>3, <3>1, StatusOf
    <3> QED BY <1>1, <3>2
  <2>8. WaitSuits /\ HostEnds
    BY <1>1, <1>2 DEF WaitSuits, HostEnds
  <2>9. StreamInv'
    <3>1. \A i \in DOMAIN tx' : tx'[i].of # 0
      BY <1>2, <1>3, <2>6
    <3>2. board' = "booting" => 0 \in gaveUp'
      BY <1>2, <2>4
    <3>3. sends' \in Nat /\ tx' \in Seq(Outputs) /\ Exact(tx', sends', verdict') /\ wait' # "sync again"
      BY <1>1, <1>2, <1>3, <2>3
    <3> QED BY <1>1, <3>1, <3>2, <3>3, StreamLeft
  <2>10. PendInv'
    BY <1>1, <1>2, <2>2, <2>8, PendingKept
  <2>11. EndInv'
    BY <1>1, <1>2, <2>2, <2>7, <2>8, EndsKept
  <2> QED BY <2>9, <2>10, <2>11
<1> QED BY <1>4, <1>5, <1>6, <1>8, <1>9 DEF IInv

\* Steps that leave the stream and the lines' ends alone.
LEMMA StreamStays ==
  ASSUME StreamInv, Stream' = Stream, UNCHANGED <<sends, verdict, gaveUp>>,
         wait' = wait \/ wait' = "sync", board' = board
  PROVE  StreamInv'
BY DEF StreamInv

LEMMA StartStep ==
  ASSUME IInv, Start PROVE IInv'
<1>1. /\ Types /\ Budget /\ LineInv /\ Booting /\ sends = 0 /\ sends \in Nat /\ wait = "start"
      /\ UNCHANGED <<tx, answers>> /\ Quiet /\ Kept
  BY DEF IInv, Budget, Stages, Start, Types
<1>2. /\ UNCHANGED <<ahead, board, req>> /\ UNCHANGED <<ahead, board, req, verb, verdict>> /\ gaveUp' = gaveUp
      /\ HostEnds /\ late' = late /\ tries' = tries /\ OwnAnswer /\ LastSettled /\ LastIsKnown
  BY <1>1 DEF Quiet, Kept, HostEnds, OwnAnswer, LastSettled, LastIsKnown
<1>3. CASE verb = "send"
  <2>1. Send("status", "status")
    BY <1>3 DEF Start
  <2>2. "status" \in Whats /\ "status" \in Waits \ {"done", "recover"} /\ Suits("status", "status")
    BY DEF Whats, Waits, Suits
  <2>3. /\ rx' \in Seq(Requests) /\ sends' \in Nat /\ sends' = sends + 1 /\ wait' = "status" /\ wait' \in Waits
        /\ text' = <<>> /\ text' \in Seq(Outputs)
        /\ \A g : g \subseteq 0 .. sends => g \subseteq 0 .. sends'
    BY <1>1, <2>1, <2>2, SentTypes
  <2>4. Types'
    BY <1>1, <2>3 DEF Types, Quiet, Kept
  <2>5. Count'
    <3>1. Stage(wait) = 0 /\ Stage(wait') = 2
      BY <1>1, <2>3 DEF Stage
    <3>2. Rises
      BY <3>1 DEF Rises
    <3> QED BY <1>1, <1>2, <2>3, <3>2, KeptCounts, CountStep DEF Budget, Kept
  <2>6. Stages'
    <3>1. sends' > 0
      BY <1>1, <2>3
    <3>2. rest > 0
      BY <1>1, <1>3 DEF Budget, Stages
    <3> QED BY <1>1, <1>2, <1>3, <2>3, <3>1, <3>2 DEF Stages, Kept
  <2>7. Interrupts'
    BY <1>1, <2>1, <2>2, InterruptsSent DEF Budget, Quiet, Kept
  <2>8. LineInv'
    BY <1>1, <1>2, <2>1, <2>2, LinesSent
  <2>9. Booting'
    BY <1>1, <1>2, <2>3 DEF Booting
  <2>10. ASSUME late = FALSE PROVE StreamInv' /\ PendInv' /\ EndInv'
    <3>1. StreamInv /\ PendInv /\ EndInv
      BY <2>10 DEF IInv
    <3>2. Exact(text \o tx, 0, verdict) /\ text \in Seq(Outputs) /\ tx \in Seq(Outputs)
      BY <1>1, <3>1, StreamType DEF StreamInv, Stream
    <3>3. Exact(tx, 0, verdict)
      BY <3>2, ExactRest
    <3>4. Exact(tx, sends', verdict)
      BY <2>3, <3>2, <3>3, ExactZero
    <3>5. tx' \in Seq(Outputs) /\ Exact(tx', sends', verdict')
      BY <1>1, <1>2, <3>2, <3>4
    <3>6. StreamInv'
      BY <2>3, <3>5, StreamLeft
    <3>7. NextIsNew
      <4>1. 1 \in Lines /\ sends + 1 = 1 /\ 1 > sends
        BY <1>1, SendAssumption DEF Lines
      <4> QED BY <3>1, <4>1 DEF NextIsNew, EndInv
    <3>8. PendInv'
      BY <1>1, <1>2, <2>1, <2>2, <3>1, <3>7, PendingSent
    <3>9. EndInv'
      BY <1>1, <1>2, <2>1, <2>2, <3>1, EndsSent
    <3> QED BY <3>6, <3>8, <3>9
  <2> QED BY <1>2, <2>4, <2>5, <2>6, <2>7, <2>8, <2>9, <2>10 DEF IInv, Budget
<1>4. CASE verb # "send"
  <2>1. wait' = "sync" /\ UNCHANGED <<rx, text, sends>>
    BY <1>4 DEF Start
  <2>2. Types'
    BY <1>1, <2>1 DEF Types, Quiet, Kept, Waits
  <2>3. Count'
    <3>1. Stage(wait) = 0 /\ Stage(wait') = 0
      BY <1>1, <2>1 DEF Stage
    <3>2. NotFalls
      BY <3>1 DEF NotFalls
    <3> QED BY <1>1, <1>2, <2>1, <3>2, KeptCounts, CountStep DEF Budget, Kept
  <2>4. Stages' /\ Interrupts'
    BY <1>1, <1>4, <2>1 DEF Budget, Stages, Interrupts, Quiet, Kept
  <2>5. LineInv' /\ Booting'
    BY <1>1, <1>2, <2>1, LinesKept DEF Booting
  <2>6. ASSUME late = FALSE PROVE StreamInv' /\ PendInv' /\ EndInv'
    <3>1. StreamInv /\ PendInv /\ EndInv
      BY <2>6 DEF IInv
    <3>2. WaitSuits /\ wait' # "done" /\ wait' # "recover" /\ UNCHANGED <<answers, sends, failed>>
      BY <1>1, <1>4, <2>1 DEF WaitSuits, Kept
    <3>3. Stream' = Stream
      BY <1>1, <2>1 DEF Stream
    <3>4. StreamInv'
      BY <1>2, <2>1, <3>1, <3>3, StreamStays
    <3>5. PendInv'
      BY <1>1, <1>2, <2>1, <3>1, <3>2, PendingKept
    <3>6. EndInv'
      BY <1>1, <1>2, <3>1, <3>2, EndsKept
    <3> QED BY <3>4, <3>5, <3>6
  <2> QED BY <1>2, <2>2, <2>3, <2>4, <2>5, <2>6 DEF IInv, Budget
<1> QED BY <1>3, <1>4

\* A byte is read that completes nothing, or the user presses Ctrl-C.
LEMMA QuietStep ==
  ASSUME IInv, UNCHANGED <<ahead, board, req, tier, verb, wait, part, rest, tries, resends, failed, sends, sendHistory>>,
         rx' \in {rx, Append(rx, CtrlC)}, Interrupts', Types', Stream' = Stream, board = "booting" => text' = text /\ tx' = tx
  PROVE  IInv'
<1>1. Types /\ Budget /\ LineInv /\ Booting /\ sends' = sends
  BY DEF IInv
<1>2. /\ UNCHANGED <<ahead, board, req>> /\ UNCHANGED <<ahead, board, req, verb, verdict>> /\ gaveUp' = gaveUp
      /\ UNCHANGED <<answers, sends, failed>> /\ UNCHANGED <<sends, verdict, gaveUp>>
      /\ HostEnds /\ late' = late /\ tries' = tries /\ WaitSuits
  BY DEF sendHistory, HostEnds, WaitSuits
<1>3. Count' /\ Stages'
  BY <1>1 DEF Budget, Count, Stages, Stage, Retried
<1>4. LineInv' /\ Booting'
  BY <1>1, <1>2, LinesKept DEF Booting
<1>5. ASSUME late = FALSE PROVE StreamInv' /\ PendInv' /\ EndInv'
  <2>1. StreamInv /\ PendInv /\ EndInv
    BY <1>5 DEF IInv
  <2>2. StreamInv'
    BY <1>2, <2>1, StreamStays
  <2>3. PendInv'
    BY <1>1, <1>2, <2>1, PendingKept
  <2>4. EndInv'
    <3>1. wait' = "recover" => part' # "ok"
      BY <2>1 DEF EndInv
    <3> QED BY <1>1, <1>2, <2>1, <3>1, EndsKept
  <2> QED BY <2>2, <2>3, <2>4
<1> QED BY <1>2, <1>3, <1>4, <1>5 DEF IInv, Budget

LEMMA ReceiveStep ==
  ASSUME IInv, Receive PROVE IInv'
<1>1. Types /\ Booting /\ tx # <<>> /\ Budget
  BY DEF IInv, Receive
<1>2. UNCHANGED <<ahead, board, req, tier, verb, wait, part, rest, tries, resends, failed, sends, sendHistory>>
  BY DEF Receive, TakeByte
<1>3. rx' = rx /\ text' = Arrived /\ tx' = Tail(tx) /\ UNCHANGED <<tracker, forward, signals>>
  BY DEF Receive, TakeByte
<1>4. text' \in Seq(Outputs) /\ tx' \in Seq(Outputs) /\ text' \o tx' = Stream
  BY <1>1, <1>3, StreamType
<1>5. Types'
  BY <1>1, <1>2, <1>3, <1>4 DEF Types, sendHistory
<1>6. Stream' = Stream
  BY <1>4 DEF Stream
<1>7. Interrupts'
  BY <1>1, <1>2, <1>3 DEF Budget, Interrupts
<1>8. board # "booting" /\ rx' \in {rx, Append(rx, CtrlC)}
  BY <1>1, <1>3 DEF Booting
<1> QED BY <1>2, <1>5, <1>6, <1>7, <1>8, QuietStep

LEMMA InterruptStep ==
  ASSUME IInv, Interrupt PROVE IInv'
<1>1. Types /\ Budget
  BY DEF IInv
<1>2. UNCHANGED <<ahead, board, req, tier, verb, wait, part, rest, tries, resends, failed, sends, sendHistory>>
      /\ rx' = rx /\ text' = text /\ tx' = tx
  BY DEF Interrupt, boardVars
<1>3. verb = "send" /\ signals' \in Nat /\ forward' \in BOOLEAN /\ tracker' \in [active : BOOLEAN, requested : BOOLEAN]
  <2>1. verb = "send" /\ signals' = signals + 1
    BY DEF Interrupt
  <2>2. signals' \in Nat
    BY <1>1, <2>1 DEF Types
  <2>3. CASE tracker.active
    <3>1. tracker \in [active : BOOLEAN, requested : BOOLEAN]
      BY <1>1 DEF Types
    <3>2. forward' = TRUE /\ tracker' = [tracker EXCEPT !.requested = TRUE]
      BY <2>3 DEF Interrupt
    <3>3. tracker' \in [active : BOOLEAN, requested : BOOLEAN]
      BY <3>1, <3>2
    <3> QED BY <2>1, <2>2, <3>2, <3>3
  <2>4. CASE ~tracker.active
    <3>1. forward' = forward /\ tracker' = tracker
      BY <2>4 DEF Interrupt
    <3> QED BY <1>1, <2>1, <2>2, <3>1 DEF Types
  <2> QED BY <2>3, <2>4
<1>4. Types'
  BY <1>1, <1>2, <1>3 DEF Types, sendHistory
<1>5. Stream' = Stream /\ Interrupts' /\ rx' \in {rx, Append(rx, CtrlC)}
  BY <1>1, <1>2, <1>3 DEF Stream, Interrupts, Budget
<1> QED BY <1>2, <1>4, <1>5, QuietStep

LEMMA ForwardCtrlCStep ==
  ASSUME IInv, ForwardCtrlC PROVE IInv'
<1>1. Types /\ Budget
  BY DEF IInv
<1>2. UNCHANGED <<ahead, board, req, tier, verb, wait, part, rest, tries, resends, failed, sends, sendHistory>>
      /\ text' = text /\ tx' = tx
  BY DEF ForwardCtrlC
<1>3. verb = "send" /\ rx' = Append(rx, CtrlC) /\ forward' = FALSE /\ UNCHANGED <<tracker, signals>>
  BY <1>1 DEF ForwardCtrlC, Write, Budget, Interrupts
<1>4. rx' \in Seq(Requests)
  <2>1. CtrlC \in Requests
    BY DEF CtrlC, Requests, Whats
  <2> QED BY <1>1, <1>3, <2>1 DEF Types
<1>5. Types'
  BY <1>1, <1>2, <1>3, <1>4 DEF Types, sendHistory
<1>6. Stream' = Stream /\ Interrupts' /\ rx' \in {rx, Append(rx, CtrlC)}
  BY <1>2, <1>3 DEF Stream, Interrupts
<1> QED BY <1>2, <1>5, <1>6, QuietStep
----------------------------------------------------------------------------
(* The board's steps.                                                      *)

LEMMA TailItems ==
  ASSUME NEW S, NEW s \in Seq(S), s # <<>>
  PROVE  /\ Tail(s) \in Seq(S) /\ Head(s) \in S /\ 1 \in DOMAIN s /\ Head(s) = s[1]
         /\ \A i \in DOMAIN Tail(s) : i \in Nat /\ i # 0 /\ i + 1 \in DOMAIN s /\ Tail(s)[i] = s[i + 1]
OBVIOUS

LEMMA InputHead ==
  ASSUME Types, Input # <<>>
  PROVE  /\ ahead # <<>> => Head(Input) = Head(ahead)
         /\ ahead = <<>> => rx # <<>> /\ Head(Input) = Head(rx)
<1>1. rx \in Seq(Requests) /\ ahead \in Seq(Requests)
  BY DEF Types
<1>2. Len(ahead \o rx) = Len(ahead) + Len(rx) /\ (ahead \o rx) \in Seq(Requests)
  BY <1>1
<1>3. Head(ahead \o rx) = (ahead \o rx)[1]
  <2> DEFINE c == ahead \o rx
  <2>1. c \in Seq(Requests) /\ c # <<>>
    BY <1>2 DEF Input
  <2> HIDE DEF c
  <2>2. Head(c) = c[1]
    BY <2>1, TailItems
  <2> QED BY <2>2 DEF c
<1>4. CASE ahead # <<>>
  <2>1. (ahead \o rx)[1] = ahead[1] /\ Head(ahead) = ahead[1]
    BY <1>1, <1>4
  <2> QED BY <1>3, <1>4, <2>1 DEF Input
<1>5. CASE ahead = <<>>
  <2>1. ahead \o rx = rx
    BY <1>1, <1>5
  <2> QED BY <1>5, <2>1 DEF Input
<1> QED BY <1>4, <1>5

\* A line is read from what the board holds or from the line.
ReadsAhead == ahead # <<>> /\ ahead' = Tail(ahead) /\ rx' = rx
ReadsLine == ahead = <<>> /\ rx # <<>> /\ rx' = Tail(rx) /\ ahead' = ahead

LEMMA Taking ==
  ASSUME Types, Input # <<>>, TakeInput
  PROVE  \/ ReadsAhead /\ Head(Input) = Head(ahead)
         \/ ReadsLine /\ Head(Input) = Head(rx)
BY InputHead DEF TakeInput, ReadsAhead, ReadsLine

\* What is on its way after a step was on its way before it.
Fewer ==
  /\ rx' \in Seq(Requests) /\ ahead' \in Seq(Requests)
  /\ \A i \in DOMAIN rx' : \E j \in DOMAIN rx : rx'[i] = rx[j]
  /\ \A i \in DOMAIN ahead' : \E j \in DOMAIN ahead : ahead'[i] = ahead[j]

LEMMA TakingFewer ==
  ASSUME Types, ReadsAhead \/ ReadsLine PROVE Fewer
<1>1. rx \in Seq(Requests) /\ ahead \in Seq(Requests)
  BY DEF Types
<1>2. CASE ReadsAhead
  BY <1>1, <1>2, TailItems DEF ReadsAhead, Fewer
<1>3. CASE ReadsLine
  BY <1>1, <1>3, TailItems DEF ReadsLine, Fewer
<1> QED BY <1>2, <1>3

\* What a step of the board leaves alone.
BoardKeeps ==
  /\ UNCHANGED hostVars
  /\ UNCHANGED <<gaveUp, answers>>
BoardTypes ==
  /\ rx' \in Seq(Requests) /\ ahead' \in Seq(Requests) /\ req' \in Requests
  /\ board' \in {"booting", "prompt", "running"}
  /\ tx' \in Seq(Outputs) /\ late' \in BOOLEAN
  /\ verdict' \in [Lines -> {"none", "ok", "error", "interrupted"}]

LEMMA BoardBasics ==
  ASSUME Types, Budget, BoardKeeps, BoardTypes,
         \A i \in DOMAIN rx' : \E j \in DOMAIN rx : rx'[i] = rx[j]
  PROVE  Types' /\ Budget'
<1>1. UNCHANGED <<verb, wait, text, part, rest, tries, resends, failed, tracker, forward, signals, sends, gaveUp, answers>>
  BY DEF BoardKeeps, hostVars
<1>2. Types'
  BY <1>1 DEF Types, BoardTypes
<1>3. Count' /\ Stages'
  BY <1>1 DEF Budget, Count, Stages, Stage, Retried
<1>4. Interrupts'
  BY <1>1 DEF Budget, Interrupts
<1> QED BY <1>2, <1>3, <1>4 DEF Budget

LEMMA LinesFewer ==
  ASSUME LineInv, Fewer, sends' = sends, board' = "running" => req'.n \in 1 .. sends
  PROVE  LineInv'
BY DEF LineInv, Fewer

\* Lines move up by the same number of places.
Moved(t, s, d) == \A i \in DOMAIN t : i + d \in DOMAIN s /\ t[i] = s[i + d]

LEMMA MovedKept ==
  ASSUME NEW s \in Seq(Requests) PROVE Moved(s, s, 0) /\ Moved(<<>>, s, 0) /\ (s # <<>> => Moved(Tail(s), s, 1))
<1>1. \A i \in DOMAIN s : i + 0 = i
  OBVIOUS
<1>2. s # <<>> => Moved(Tail(s), s, 1)
  BY TailItems DEF Moved
<1> QED BY <1>1, <1>2 DEF Moved

LEMMA ApartMoved ==
  ASSUME Types, Apart, NEW d \in Nat, NEW e \in Nat, rx' \in Seq(Requests), ahead' \in Seq(Requests),
         Moved(rx', rx, d), Moved(ahead', ahead, e),
         board' # "running" \/ (board = "running" /\ req' = req)
  PROVE  Apart'
<1>1. \A i, j \in DOMAIN rx' : i # j => i + d # j + d
  OBVIOUS
<1>2. \A i, j \in DOMAIN ahead' : i # j => i + e # j + e
  OBVIOUS
<1>3. \A i \in DOMAIN rx' : i + d \in DOMAIN rx /\ rx'[i] = rx[i + d]
  BY DEF Moved
<1>4. \A i \in DOMAIN ahead' : i + e \in DOMAIN ahead /\ ahead'[i] = ahead[i + e]
  BY DEF Moved
<1>5. \A i, j \in DOMAIN rx' : i # j /\ rx'[i].n = rx'[j].n => rx'[i].n = 0
  BY <1>1, <1>3 DEF Apart
<1>6. \A i, j \in DOMAIN ahead' : i # j => ahead'[i].n # ahead'[j].n
  BY <1>2, <1>4 DEF Apart
<1>7. \A i \in DOMAIN rx', j \in DOMAIN ahead' : rx'[i].n # ahead'[j].n
  BY <1>3, <1>4 DEF Apart
<1>8. board' = "running" => /\ \A i \in DOMAIN rx' : rx'[i].n # req'.n
                            /\ \A i \in DOMAIN ahead' : ahead'[i].n # req'.n
  BY <1>3, <1>4 DEF Apart
<1> QED BY <1>5, <1>6, <1>7, <1>8 DEF Apart

LEMMA BootText ==
  ASSUME NEW r \in {<<>>, <<Out(0, "error")>>}, NEW u, u = <<>> \o r \o <<Prompt(0)>>
  PROVE  u \in Seq(Outputs) /\ \A n \in Nat : \A v : Exact(u, n, v)
<1> DEFINE a == Out(0, "error")
           b == Prompt(0)
<1>1. a \in Outputs /\ b \in Outputs /\ a.of = 0 /\ b.of = 0 /\ a.k = "error" /\ b.k = "prompt"
  BY DEF Out, Prompt, Outputs, Kinds
<1> HIDE DEF a, b
<1>2. r \in Seq(Outputs) /\ Len(r) \in 0 .. 1 /\ \A i \in DOMAIN r : r[i] = a
  <2>1. CASE r = <<>>
    BY <2>1
  <2>2. CASE r = <<a>>
    BY <1>1, <2>2
  <2> QED BY <2>1, <2>2 DEF a
<1> DEFINE q == <<b>>
<1>3. q \in Seq(Outputs) /\ Len(q) = 1 /\ q[1] = b
  BY <1>1
<1>4. u = r \o q
  BY <1>2, ConcatEmptySeq DEF b
<1> HIDE DEF q
<1>5. u \in Seq(Outputs) /\ Len(u) = Len(r) + 1
      /\ \A i \in 1 .. Len(r) + 1 : u[i] = IF i <= Len(r) THEN r[i] ELSE q[i - Len(r)]
  BY <1>2, <1>3, <1>4, ConcatItems
<1>6. \A i \in DOMAIN u : /\ i <= Len(r) \/ i = Len(r) + 1
                          /\ i <= Len(r) => u[i] = a
                          /\ i = Len(r) + 1 => u[i] = b
  BY <1>2, <1>3, <1>5
<1>7. \A i \in DOMAIN u : u[i] = a \/ u[i] = b
  BY <1>6
<1>8. \A i, j \in DOMAIN u : i < j => u[i] = a
  BY <1>2, <1>6
<1> HIDE DEF a, b
<1>9. \A n \in Nat : \A v : Exact(u, n, v)
  BY <1>1, <1>7, <1>8 DEF Exact
<1> QED BY <1>5, <1>9

LEMMA BootStep ==
  ASSUME IInv, Boot PROVE IInv'
<1>1. /\ Types /\ Budget /\ LineInv /\ Booting /\ board = "booting" /\ board' = "prompt" /\ BoardKeeps
      /\ UNCHANGED <<ahead, req, verdict>> /\ rx' \in {<<>>, rx} /\ late' = (0 \in gaveUp)
  BY DEF IInv, Boot, BoardKeeps
<1>2. late = FALSE /\ tx = <<>> /\ text = <<>> /\ ahead = <<>> /\ rx \in Seq(Requests) /\ sends \in Nat
  BY <1>1 DEF Booting, Types
<1>3. tx' \in Seq(Outputs) /\ \A n \in Nat : \A v : Exact(tx', n, v)
  <2>1. PICK report \in {<<>>, <<Out(0, "error")>>} : tx' = tx \o report \o <<Prompt(0)>>
    BY DEF Boot
  <2>2. tx' = <<>> \o report \o <<Prompt(0)>>
    BY <1>2, <2>1
  <2> QED BY <2>2, BootText
<1>4. Fewer
  <2>1. <<>> \in Seq(Requests) /\ DOMAIN (<<>>) = {} /\ ahead \in Seq(Requests)
    BY <1>1 DEF Types
  <2>2. CASE rx' = <<>>
    BY <1>1, <1>2, <2>1, <2>2 DEF Fewer
  <2>3. CASE rx' = rx
    BY <1>1, <1>2, <2>1, <2>3 DEF Fewer
  <2> QED BY <1>1, <2>2, <2>3
<1>5. BoardTypes
  <2>1. late' \in BOOLEAN
    BY <1>1
  <2> QED BY <1>1, <1>3, <1>4, <2>1 DEF BoardTypes, Fewer, Types
<1>6. Types' /\ Budget'
  BY <1>1, <1>4, <1>5, BoardBasics DEF Fewer
<1>7. UNCHANGED <<verb, wait, text, part, rest, sends, failed>> /\ gaveUp' = gaveUp /\ answers' = answers
  BY <1>1 DEF BoardKeeps, hostVars
<1>8. LineInv'
  BY <1>1, <1>4, <1>7, LinesFewer
<1>9. Booting'
  BY <1>1 DEF Booting
<1>10. ASSUME late' = FALSE PROVE StreamInv' /\ PendInv' /\ EndInv'
  <2>1. StreamInv /\ PendInv /\ EndInv /\ 0 \notin gaveUp
    BY <1>1, <1>2, <1>10 DEF IInv
  <2>2. wait \notin {"sync again", "library", "form", "recover", "user", "wipe"}
    BY <1>1, <2>1 DEF StreamInv
  <2>3. StreamInv'
    <3>1. sends' \in Nat /\ text' = <<>> /\ tx' \in Seq(Outputs) /\ Exact(tx', sends', verdict')
      BY <1>2, <1>3, <1>7
    <3>2. wait' \notin {"sync again", "library", "form", "recover", "user", "wipe"}
      BY <1>7, <2>2
    <3> QED BY <3>1, <3>2, StreamLeft
  <2>4. Fitting'
    BY <1>1, <1>2, <1>4, <1>7, <2>1 DEF PendInv, Fitting, Fewer
  <2>5. Apart'
    <3>1. Moved(ahead', ahead, 0)
      BY <1>1, MovedKept DEF Types
    <3>2. Moved(rx', rx, 0)
      BY <1>1, <1>2, MovedKept
    <3> QED BY <1>1, <1>4, <2>1, <3>1, <3>2, ApartMoved DEF Fewer, PendInv
  <2>6. EndInv'
    BY <1>1, <1>7, <2>1 DEF EndInv, Settled, Done
  <2> QED BY <2>3, <2>4, <2>5, <2>6 DEF PendInv
<1> QED BY <1>6, <1>8, <1>9, <1>10 DEF IInv

LEMMA ReadLineStep ==
  ASSUME IInv, ReadLine PROVE IInv'
<1>1. /\ Types /\ Budget /\ LineInv /\ Booting /\ board = "prompt" /\ board' = "running" /\ BoardKeeps
      /\ Input # <<>> /\ Head(Input) # CtrlC /\ TakeInput /\ req' = Head(Input)
      /\ UNCHANGED <<tx, late, verdict>>
  BY DEF IInv, ReadLine, BoardKeeps, sendHistory
<1>2. rx \in Seq(Requests) /\ ahead \in Seq(Requests) /\ sends \in Nat
  BY <1>1 DEF Types
<1>3. \/ ReadsAhead /\ req' = Head(ahead)
      \/ ReadsLine /\ req' = Head(rx)
  BY <1>1, Taking
<1>4. Fewer
  BY <1>1, <1>3, TakingFewer
<1>5. req' \in Requests /\ req'.n \in 1 .. sends
  <2>1. CASE ReadsAhead /\ req' = Head(ahead)
    <3>1. req' \in Requests /\ 1 \in DOMAIN ahead /\ req' = ahead[1]
      BY <1>2, <2>1, TailItems DEF ReadsAhead
    <3> QED BY <1>1, <3>1 DEF LineInv
  <2>2. CASE ReadsLine /\ req' = Head(rx)
    <3>1. req' \in Requests /\ 1 \in DOMAIN rx /\ req' = rx[1]
      BY <1>2, <2>2, TailItems DEF ReadsLine
    <3>2. req'.n \in 0 .. sends /\ req'.n # 0
      BY <1>1, <3>1 DEF LineInv
    <3> QED BY <1>2, <3>1, <3>2
  <2> QED BY <1>3, <2>1, <2>2
<1>6. BoardTypes
  BY <1>1, <1>4, <1>5 DEF BoardTypes, Fewer, Types
<1>7. Types' /\ Budget'
  BY <1>1, <1>4, <1>6, BoardBasics DEF Fewer
<1>8. UNCHANGED <<verb, wait, text, part, rest, sends, failed>> /\ gaveUp' = gaveUp /\ answers' = answers
  BY <1>1 DEF BoardKeeps, hostVars
<1>9. LineInv'
  BY <1>1, <1>4, <1>5, <1>8, LinesFewer
<1>10. Booting'
  BY <1>1 DEF Booting
<1>11. ASSUME late' = FALSE PROVE StreamInv' /\ PendInv' /\ EndInv'
  <2>1. StreamInv /\ Fitting /\ Apart /\ EndInv
    BY <1>1, <1>11 DEF IInv, PendInv
  <2>2. StreamInv'
    BY <1>1, <1>8, <2>1 DEF StreamInv, Stream
  <2>3. EndInv'
    BY <1>1, <1>8, <2>1 DEF EndInv, Settled, Done
  <2>4. CASE ReadsAhead /\ req' = Head(ahead)
    <3>1. /\ 1 \in DOMAIN ahead /\ req' = ahead[1] /\ rx' = rx /\ ahead' = Tail(ahead)
          /\ \A i \in DOMAIN ahead' : i \in Nat /\ i # 0 /\ i + 1 \in DOMAIN ahead /\ ahead'[i] = ahead[i + 1]
      BY <1>2, <2>4, TailItems DEF ReadsAhead
    <3>2. Fitting'
      BY <1>1, <1>8, <2>1, <3>1 DEF Fitting
    <3>3. \A i \in DOMAIN ahead' : i + 1 # 1
      BY <3>1
    <3>4. \A i, j \in DOMAIN ahead' : i # j => i + 1 # j + 1
      BY <3>1
    <3>5. Apart'
      BY <2>1, <3>1, <3>3, <3>4 DEF Apart
    <3> QED BY <2>2, <2>3, <3>2, <3>5 DEF PendInv
  <2>5. CASE ReadsLine /\ req' = Head(rx)
    <3>1. /\ 1 \in DOMAIN rx /\ req' = rx[1] /\ ahead' = <<>> /\ rx' = Tail(rx)
          /\ \A i \in DOMAIN rx' : i \in Nat /\ i # 0 /\ i + 1 \in DOMAIN rx /\ rx'[i] = rx[i + 1]
      BY <1>2, <2>5, TailItems DEF ReadsLine
    <3>n. rx[1].n # 0
      BY <1>2, <1>5, <3>1
    <3>d. DOMAIN ahead' = {}
      BY <3>1
    <3>2. Fitting'
      BY <1>1, <1>8, <2>1, <3>1, <3>n, <3>d DEF Fitting
    <3>3. \A i \in DOMAIN rx' : i + 1 # 1
      BY <3>1
    <3>4. \A i, j \in DOMAIN rx' : i # j => i + 1 # j + 1
      BY <3>1
    <3>5. Apart'
      BY <2>1, <3>1, <3>n, <3>d, <3>3, <3>4 DEF Apart
    <3> QED BY <2>2, <2>3, <3>2, <3>5 DEF PendInv
  <2> QED BY <1>3, <2>4, <2>5
<1> QED BY <1>7, <1>9, <1>10, <1>11 DEF IInv

LEMMA ReadCtrlCStep ==
  ASSUME IInv, ReadCtrlC PROVE IInv'
<1>1. /\ Types /\ Budget /\ LineInv /\ board = "prompt" /\ BoardKeeps
      /\ Input # <<>> /\ TakeInput /\ late' = TRUE
      /\ UNCHANGED <<board, req, verdict>>
  BY DEF IInv, ReadCtrlC, BoardKeeps
<1>2. Fewer
  BY <1>1, Taking, TakingFewer
<1>3. tx' \in Seq(Outputs)
  <2> DEFINE r == <<Out(0, "ok"), Prompt(0)>>
  <2>1. Out(0, "ok") \in Outputs /\ Prompt(0) \in Outputs
    BY DEF Out, Prompt, Outputs, Kinds
  <2>2. r \in Seq(Outputs)
    <3> HIDE DEF Out, Prompt
    <3> QED BY <2>1
  <2>3. tx' = tx \o r /\ tx \in Seq(Outputs)
    BY <1>1 DEF ReadCtrlC, Types
  <2> HIDE DEF r
  <2> QED BY <2>2, <2>3
<1>4. BoardTypes
  BY <1>1, <1>2, <1>3 DEF BoardTypes, Fewer, Types
<1>5. Types' /\ Budget'
  BY <1>1, <1>2, <1>4, BoardBasics DEF Fewer
<1>6. LineInv'
  BY <1>1, <1>2, LinesFewer DEF BoardKeeps, hostVars
<1>7. Booting'
  BY <1>1 DEF Booting
<1> QED BY <1>1, <1>5, <1>6, <1>7 DEF IInv

\* What a line's answer adds to the stream.
Written(u, n, k, what) ==
  u \o (IF what = "status" THEN <<Out(n, "info")>> ELSE <<>>) \o <<Out(n, k), Prompt(n)>>
Replies(n, k) == {<<Out(n, k), Prompt(n)>>, <<Out(n, "info"), Out(n, k), Prompt(n)>>}
Appended(s, c, n, k) == \E r \in Replies(n, k) : s = c \o r

LEMMA AnswerText ==
  ASSUME NEW t \in Seq(Outputs), NEW u \in Seq(Outputs), NEW n \in Nat, NEW k \in {"ok", "error"}, NEW what
  PROVE  /\ Written(u, n, k, what) \in Seq(Outputs)
         /\ Appended(t \o Written(u, n, k, what), t \o u, n, k)
<1> DEFINE v == Written(u, n, k, what)
           a == Out(n, "info")
           b == Out(n, k)
           c == Prompt(n)
           p == IF what = "status" THEN <<a>> ELSE <<>>
           q == <<b, c>>
<1>1. a \in Outputs /\ b \in Outputs /\ c \in Outputs
  BY DEF Out, Prompt, Outputs, Kinds
<1>2. v = (u \o p) \o q
  BY DEF Written
<1> HIDE DEF a, b, c, v
<1>3. p \in Seq(Outputs) /\ q \in Seq(Outputs)
  BY <1>1
<1>4. p \o q \in {<<b, c>>, <<a, b, c>>}
  <2>1. CASE what = "status"
    <3>1. p = <<a>>
      BY <2>1
    <3>2. <<a>> \o <<b, c>> = <<a, b, c>>
      <4> DEFINE x == <<a>> \o <<b, c>>
                 y == <<a, b, c>>
      <4>1. <<a>> \in Seq(Outputs) /\ <<b, c>> \in Seq(Outputs) /\ y \in Seq(Outputs) /\ Len(<<a>>) = 1
            /\ Len(<<b, c>>) = 2 /\ Len(y) = 3 /\ y[1] = a /\ y[2] = b /\ y[3] = c
            /\ (<<a>>)[1] = a /\ (<<b, c>>)[1] = b /\ (<<b, c>>)[2] = c
        BY <1>1
      <4>2. x \in Seq(Outputs) /\ Len(x) = 1 + 2 /\ x[1] = a /\ x[2] = b /\ x[3] = c
        BY <4>1, ConcatItems
      <4>3. Len(x) = Len(y) /\ \A i \in 1 .. Len(x) : x[i] = y[i]
        BY <4>1, <4>2
      <4> HIDE DEF x, y
      <4>4. x = y
        BY <4>1, <4>2, <4>3, SeqEqual
      <4> QED BY <4>4 DEF x, y
    <3> QED BY <3>1, <3>2
  <2>2. CASE what # "status"
    <3>1. p = <<>>
      BY <2>2
    <3> QED BY <1>3, <3>1, ConcatEmptySeq
  <2> QED BY <2>1, <2>2
<1> DEFINE r == p \o q
<1>6. r \in Seq(Outputs)
  BY <1>3
<1> HIDE DEF p, q
<1>5. v = u \o r
  <2>1. (u \o p) \o q = u \o (p \o q)
    BY <1>3, ConcatAssociative
  <2> QED BY <1>2, <2>1
<1> HIDE DEF r
<1>7. v \in Seq(Outputs) /\ t \o v = (t \o u) \o r
  <2>1. (t \o u) \o r = t \o (u \o r)
    BY <1>6, ConcatAssociative
  <2>2. u \o r \in Seq(Outputs)
    BY <1>6
  <2> QED BY <1>5, <2>1, <2>2
<1>8. r \in {<<b, c>>, <<a, b, c>>}
  BY <1>4 DEF r, q
<1> QED BY <1>7, <1>8 DEF a, b, c, v, Replies, Appended

\* The board answers the line it evaluates.
LEMMA AnsweredStep ==
  ASSUME IInv, board = "running", NEW k \in {"ok", "error"}, NEW end \in {k, "interrupted"},
         Answered(k, end), end = "interrupted" => k = "ok",
         k = "error" => req.what \notin {"status", "blank"},
         Fewer, NEW d \in Nat, NEW e \in Nat, Moved(rx', rx, d), Moved(ahead', ahead, e),
         late' = FALSE => late = FALSE /\ (late = FALSE /\ PendInv => req.n = sends)
  PROVE  IInv'
<1>1. /\ Types /\ Budget /\ LineInv /\ Booting /\ board' = "prompt" /\ BoardKeeps /\ req' = req
      /\ verdict' = [verdict EXCEPT ![req.n] = end]
      /\ late' = (late \/ (end # "interrupted" /\ req.n \in gaveUp))
  BY DEF IInv, Answered, BoardKeeps
<1>2. rx \in Seq(Requests) /\ ahead \in Seq(Requests) /\ sends \in Nat /\ tx \in Seq(Outputs) /\ text \in Seq(Outputs)
      /\ req \in Requests
  BY <1>1 DEF Types
<1>3. req.n \in 1 .. sends /\ req.n \in Nat
  BY <1>1, <1>2 DEF LineInv
<1>4. req.n \in Lines
  <2>1. sends \in Nat /\ \A n \in 1 .. sends + 1 : n \in Lines
    BY <1>1, Bounded DEF Types
  <2>2. req.n \in 1 .. sends + 1
    BY <1>3, <2>1
  <2> QED BY <2>1, <2>2
<1>5. PICK r \in Replies(req.n, k) : tx' \in Seq(Outputs) /\ text \o tx' = Stream \o r
  <2>1. tx' = Written(tx, req.n, k, req.what)
    BY DEF Answered, Written
  <2>2. tx' \in Seq(Outputs) /\ Appended(text \o tx', text \o tx, req.n, k)
    BY <1>2, <1>3, <2>1, AnswerText
  <2> QED BY <2>2 DEF Stream, Appended
<1>6. BoardTypes
  <2>1. late' \in BOOLEAN
    BY <1>1
  <2>2. verdict' \in [Lines -> {"none", "ok", "error", "interrupted"}]
    BY <1>1, <1>4 DEF Types
  <2> QED BY <1>1, <1>2, <1>5, <2>1, <2>2 DEF BoardTypes, Fewer
<1>7. Types' /\ Budget'
  BY <1>1, <1>6, BoardBasics DEF Fewer
<1>8. UNCHANGED <<verb, wait, text, part, rest, sends, failed>> /\ gaveUp' = gaveUp /\ answers' = answers
  BY <1>1 DEF BoardKeeps, hostVars
<1>9. LineInv'
  BY <1>1, <1>8, LinesFewer
<1>10. Booting'
  BY <1>1 DEF Booting
<1>11. ASSUME late' = FALSE PROVE StreamInv' /\ PendInv' /\ EndInv'
  <2>1. StreamInv /\ PendInv /\ Fitting /\ Apart /\ EndInv /\ req.n = sends
    BY <1>11 DEF IInv, PendInv
  <2>2. /\ verdict[sends] = "none" /\ sends # 0 /\ sends \in Lines
        /\ wait = "sync again" => req.what = "blank"
        /\ wait = "status" => req.what = "status"
    <3>1. OnItsWay(req, sends, verdict[sends], wait, gaveUp, verb)
      BY <2>1 DEF Fitting
    <3>2. sends # 0 /\ sends \in Lines
      BY <1>2, <1>3, <1>4, <2>1
    <3> QED BY <2>1, <3>1, <3>2 DEF OnItsWay
  <2>3. verdict'[sends] = end /\ \A n \in Lines : n # sends => verdict'[n] = verdict[n]
    BY <1>1, <2>1, <2>2 DEF Types
  <2>4. StreamInv'
    <3>1. Stream \in Seq(Outputs) /\ Exact(Stream, sends, verdict)
      BY <1>1, <2>1, StreamType DEF StreamInv
    <3>2. end # "none" /\ (k = "ok" => end \in {"ok", "interrupted"})
      OBVIOUS
    <3>3. /\ Exact(Stream \o r, sends, verdict')
          /\ (\A i \in DOMAIN Stream : Stream[i].of # 0) => \A i \in DOMAIN (Stream \o r) : (Stream \o r)[i].of # 0
      <4>1. r \in {<<Out(sends, k), Prompt(sends)>>, <<Out(sends, "info"), Out(sends, k), Prompt(sends)>>}
        BY <2>1 DEF Replies
      <4>2. verdict'[sends] # "none" /\ (k = "ok" => verdict'[sends] \in {"ok", "interrupted"})
        BY <2>3, <3>2
      <4> HIDE DEF Stream
      <4> QED BY <1>2, <2>2, <3>1, <4>1, <4>2, ExactAnswer
    <3>4. Stream' = Stream \o r
      BY <1>5, <1>8 DEF Stream
    <3> HIDE DEF Stream
    <3>5. Exact(Stream', sends', verdict')
      BY <1>8, <3>3, <3>4
    <3>6. wait' \in {"sync again", "library", "form", "recover", "user", "wipe"} => \A i \in DOMAIN Stream' : Stream'[i].of # 0
      BY <1>8, <2>1, <3>3, <3>4 DEF StreamInv
    <3>7. wait' = "sync again" => 0 \in gaveUp'
      BY <1>8, <2>1 DEF StreamInv
    <3> QED BY <1>1, <3>5, <3>6, <3>7 DEF StreamInv
  <2>5. Fitting'
    <3>1. ASSUME NEW l, l.n # sends, OnItsWay(l, sends, verdict[sends], wait, gaveUp, verb)
          PROVE  OnItsWay(l, sends', verdict'[sends'], wait', gaveUp', verb')
      BY <1>8, <3>1 DEF OnItsWay
    <3>2. /\ \A i \in DOMAIN rx' : i + d \in DOMAIN rx /\ rx'[i] = rx[i + d]
          /\ \A i \in DOMAIN ahead' : i + e \in DOMAIN ahead /\ ahead'[i] = ahead[i + e]
      BY DEF Moved
    <3>3. (\A i \in DOMAIN rx : rx[i].n # sends) /\ (\A i \in DOMAIN ahead : ahead[i].n # sends)
      BY <2>1 DEF Apart
    <3>4. \A i \in DOMAIN rx : rx[i].n # 0 => OnItsWay(rx[i], sends, verdict[sends], wait, gaveUp, verb)
      BY <2>1 DEF Fitting
    <3>5. \A i \in DOMAIN ahead : OnItsWay(ahead[i], sends, verdict[sends], wait, gaveUp, verb)
      BY <2>1 DEF Fitting
    <3>6. \A i \in DOMAIN rx' : rx'[i].n # 0 => OnItsWay(rx'[i], sends', verdict'[sends'], wait', gaveUp', verb')
      BY <3>1, <3>2, <3>3, <3>4
    <3>7. \A i \in DOMAIN ahead' : OnItsWay(ahead'[i], sends', verdict'[sends'], wait', gaveUp', verb')
      BY <3>1, <3>2, <3>3, <3>5
    <3> QED BY <1>1, <3>6, <3>7 DEF Fitting
  <2>6. Apart'
    BY <1>1, <2>1, ApartMoved DEF Fewer
  <2>7. EndInv'
    <3>1. \A n \in Lines : n \in Nat
      BY DEF Lines
    <3>2. \A n \in Lines : n > sends => n # sends
      BY <1>2, <3>1
    <3>3. \A n \in Lines : n < sends => n # sends
      BY <1>2, <3>1
    <3>4. \A n \in Lines : n > sends' => verdict'[n] = "none"
      BY <1>8, <2>1, <2>3, <3>2 DEF EndInv
    <3>5. \A n \in Lines : n < sends' => failed' \/ Settled(n)'
      BY <1>8, <2>1, <2>3, <3>3 DEF EndInv, Settled, Done
    <3>6. wait' = "done" => failed'
      BY <1>8, <2>1, <2>2 DEF EndInv, Done
    <3>7. wait' \in {"sync again", "status"} => verdict'[sends'] # "error"
      BY <1>8, <2>2, <2>3
    <3> QED BY <1>8, <2>1, <3>4, <3>5, <3>6, <3>7 DEF EndInv
  <2> QED BY <2>4, <2>5, <2>6, <2>7 DEF PendInv
<1> QED BY <1>7, <1>9, <1>10, <1>11 DEF IInv

LEMMA EvaluateStep ==
  ASSUME IInv, Evaluate PROVE IInv'
<1>1. Types /\ rx \in Seq(Requests) /\ ahead \in Seq(Requests) /\ board = "running" /\ UNCHANGED <<rx, ahead>>
  BY DEF IInv, Types, Evaluate
<1>2. PICK k \in IF req.what \in {"library", "wipe", "form"} THEN {"ok", "error"} ELSE {"ok"} :
        Answered(k, k)
  BY DEF Evaluate
<1>3. k \in {"ok", "error"} /\ (k = "error" => req.what \notin {"status", "blank"})
  <2>1. CASE req.what \in {"library", "wipe", "form"}
    BY <1>2, <2>1
  <2>2. CASE req.what \notin {"library", "wipe", "form"}
    BY <1>2, <2>2
  <2> QED BY <2>1, <2>2
<1>4. k # "interrupted"
  BY <1>3
<1>5. late' = FALSE => late = FALSE /\ req.n \notin gaveUp
  BY <1>1, <1>2, <1>4 DEF Answered, Types
<1>6. PendInv => req.n = sends \/ req.n \in gaveUp
  BY <1>1 DEF PendInv, Fitting, OnItsWay
<1>7. Fewer
  BY <1>1 DEF Fewer
<1>8. Moved(rx', rx, 0) /\ Moved(ahead', ahead, 0) /\ 0 \in Nat
  BY <1>1, MovedKept
<1>9. late' = FALSE => late = FALSE /\ (late = FALSE /\ PendInv => req.n = sends)
  BY <1>5, <1>6
<1> QED BY <1>1, <1>2, <1>3, <1>4, <1>7, <1>8, <1>9, AnsweredStep

LEMMA PollStep ==
  ASSUME IInv, Poll PROVE IInv'
<1>1. /\ Types /\ Budget /\ LineInv /\ Booting
      /\ rx \in Seq(Requests) /\ ahead \in Seq(Requests) /\ board = "running" /\ req.what = "form" /\ rx # <<>>
      /\ rx' = Tail(rx) /\ sends \in Nat
  BY DEF IInv, Types, Poll
<1>2. /\ rx' \in Seq(Requests) /\ Head(rx) \in Requests /\ 1 \in DOMAIN rx /\ Head(rx) = rx[1]
      /\ \A i \in DOMAIN rx' : i \in Nat /\ i # 0 /\ i + 1 \in DOMAIN rx /\ rx'[i] = rx[i + 1]
  BY <1>1, TailItems
<1>3. CASE Head(rx) = CtrlC
  <2>1. ahead' = <<>> /\ Answered("ok", "interrupted")
    BY <1>3 DEF Poll
  <2>2. Fewer
    <3>1. <<>> \in Seq(Requests) /\ DOMAIN (<<>>) = {}
      OBVIOUS
    <3> QED BY <1>2, <2>1, <3>1 DEF Fewer
  <2>3. Moved(rx', rx, 1) /\ Moved(ahead', ahead, 0)
    BY <1>1, <2>1, MovedKept
  <2>4. late' = late
    BY <2>1, <1>1 DEF Answered, Types
  <2>5. verb = "send"
    BY <1>1, <1>2, <1>3 DEF Budget, Interrupts
  <2>6. PendInv => req.n = sends
    BY <1>1, <2>5 DEF PendInv, Fitting, OnItsWay
  <2>7. late' = FALSE => late = FALSE /\ (late = FALSE /\ PendInv => req.n = sends)
    BY <2>4, <2>6
  <2> QED BY <1>1, <2>1, <2>2, <2>3, <2>7, AnsweredStep
<1>4. CASE Head(rx) # CtrlC
  <2>1. /\ ahead' = IF Len(ahead) < TypeAhead THEN Append(ahead, Head(rx)) ELSE ahead
        /\ UNCHANGED <<board, req, tx, late, verdict>> /\ BoardKeeps
    BY <1>4 DEF Poll, BoardKeeps, sendHistory
  <2>2. UNCHANGED <<verb, wait, text, part, rest, sends, failed>> /\ gaveUp' = gaveUp /\ answers' = answers
    BY <2>1 DEF BoardKeeps, hostVars
  <2>3. /\ ahead' \in Seq(Requests)
        /\ \A i \in DOMAIN ahead' : (i \in DOMAIN ahead /\ ahead'[i] = ahead[i]) \/ ahead'[i] = rx[1]
        /\ \A i, j \in DOMAIN ahead' : i # j => i \in DOMAIN ahead \/ j \in DOMAIN ahead
        /\ \A i \in DOMAIN ahead' : i \in DOMAIN ahead => ahead'[i] = ahead[i]
    <3>1. CASE Len(ahead) < TypeAhead
      BY <1>1, <1>2, <2>1, <3>1
    <3>2. CASE ~(Len(ahead) < TypeAhead)
      BY <1>1, <1>2, <2>1, <3>2
    <3> QED BY <3>1, <3>2
  <2>4. rx[1].n \in 1 .. sends
    <3>1. rx[1].n \in 0 .. sends /\ rx[1].n # 0
      BY <1>1, <1>2, <1>4 DEF LineInv
    <3> QED BY <1>1, <3>1
  <2>5. \A i \in DOMAIN rx' : \E j \in DOMAIN rx : rx'[i] = rx[j]
    BY <1>2
  <2>6. BoardTypes
    BY <1>1, <1>2, <2>1, <2>3 DEF BoardTypes, Types
  <2>7. Types' /\ Budget'
    BY <1>1, <2>1, <2>5, <2>6, BoardBasics
  <2>8. LineInv'
    <3>1. \A i \in DOMAIN rx' : rx'[i].n \in 0 .. sends' /\ (rx'[i].n = 0 => rx'[i] = CtrlC)
      BY <1>1, <2>2, <2>5 DEF LineInv
    <3>2. \A i \in DOMAIN ahead' : ahead'[i].n \in 1 .. sends'
      BY <1>1, <2>2, <2>3, <2>4 DEF LineInv
    <3> QED BY <1>1, <2>1, <2>2, <3>1, <3>2 DEF LineInv
  <2>9. Booting'
    BY <1>1, <2>1 DEF Booting
  <2>10. ASSUME late' = FALSE PROVE StreamInv' /\ PendInv' /\ EndInv'
    <3>1. StreamInv /\ Fitting /\ Apart /\ EndInv
      BY <2>1, <2>10 DEF IInv, PendInv
    <3>2. StreamInv'
      BY <2>1, <2>2, <3>1 DEF StreamInv, Stream
    <3>3. EndInv'
      BY <2>1, <2>2, <3>1 DEF EndInv, Settled, Done
    <3>4. rx[1].n # 0
      BY <1>1, <2>4
    <3>5. Fitting'
      <4>1. \A i \in DOMAIN rx' : rx'[i].n # 0 => OnItsWay(rx'[i], sends', verdict'[sends'], wait', gaveUp', verb')
        BY <1>2, <2>1, <2>2, <2>5, <3>1 DEF Fitting
      <4>2. \A i \in DOMAIN ahead' : OnItsWay(ahead'[i], sends', verdict'[sends'], wait', gaveUp', verb')
        BY <1>2, <2>1, <2>2, <2>3, <3>1, <3>4 DEF Fitting
      <4>3. board' = "running" => OnItsWay(req', sends', verdict'[sends'], wait', gaveUp', verb')
        BY <2>1, <2>2, <3>1 DEF Fitting
      <4> QED BY <4>1, <4>2, <4>3 DEF Fitting
    <3>6. Apart'
      <4>1. \A i \in DOMAIN rx' : i + 1 # 1
        BY <1>2
      <4>2. \A i, j \in DOMAIN rx' : i # j => i + 1 # j + 1
        BY <1>2
      <4>3. \A i, j \in DOMAIN rx' : i # j /\ rx'[i].n = rx'[j].n => rx'[i].n = 0
        BY <1>2, <3>1, <4>2 DEF Apart
      <4>4. \A i \in DOMAIN rx' : rx'[i].n # rx[1].n
        BY <1>2, <3>1, <3>4, <4>1 DEF Apart
      <4>5. \A i \in DOMAIN ahead : ahead[i].n # rx[1].n
        BY <1>2, <3>1 DEF Apart
      <4>6. \A i, j \in DOMAIN ahead' : i # j => ahead'[i].n # ahead'[j].n
        BY <2>3, <3>1, <4>5 DEF Apart
      <4>7. \A i \in DOMAIN rx', j \in DOMAIN ahead' : rx'[i].n # ahead'[j].n
        BY <2>3, <2>5, <3>1, <4>4 DEF Apart
      <4>8. board' = "running" => /\ \A i \in DOMAIN rx' : rx'[i].n # req'.n
                                  /\ \A i \in DOMAIN ahead' : ahead'[i].n # req'.n
        BY <1>1, <1>2, <2>1, <2>3, <2>5, <3>1 DEF Apart
      <4> QED BY <4>3, <4>6, <4>7, <4>8 DEF Apart
    <3> QED BY <3>2, <3>3, <3>5, <3>6 DEF PendInv
  <2> QED BY <2>7, <2>8, <2>9, <2>10 DEF IInv
<1> QED BY <1>3, <1>4
----------------------------------------------------------------------------
LEMMA InitStream ==
  ASSUME NEW u \in {<<>>, <<Prompt(0)>>}
  PROVE  u \in Seq(Outputs) /\ <<>> \o u = u /\ \A n \in Nat : \A v : Exact(u, n, v)
<1>1. CASE u = <<>>
  BY <1>1, ExactEmpty, ConcatEmptySeq
<1>2. CASE u = <<Prompt(0)>>
  <2>1. Prompt(0) \in Outputs
    BY DEF Out, Prompt, Outputs, Kinds
  <2> DEFINE p == Prompt(0)
  <2> HIDE DEF p
  <2>2. u = <<p>> /\ u \in Seq(Outputs)
    BY <1>2, <2>1 DEF p
  <2>3. u = <<>> \o <<>> \o <<p>>
    BY <2>2, ConcatEmptySeq
  <2>4. u = <<>> \o <<>> \o <<Prompt(0)>>
    BY <2>3 DEF p
  <2>5. \A n \in Nat : \A v : Exact(u, n, v)
    BY <2>4, BootText
  <2> QED BY <2>2, <2>5, ConcatEmptySeq
<1> QED BY <1>1, <1>2

LEMMA InitHolds ==
  ASSUME SendInit PROVE IInv
<1>1. /\ rx = <<>> /\ ahead = <<>> /\ req = CtrlC /\ board \in {"booting", "prompt"}
      /\ verb \in {"send", "install", "wipe-user"}
      /\ wait = "start" /\ text = <<>> /\ part = "none" /\ tries = 0 /\ resends = 0
      /\ failed = FALSE /\ tracker = Idle /\ forward = FALSE /\ signals = 0 /\ sends = 0
      /\ gaveUp = {} /\ late = FALSE
      /\ verdict = [n \in Lines |-> "none"] /\ answers = [n \in Lines |-> n]
  BY DEF SendInit
<1>2. tx \in {<<>>, <<Prompt(0)>>} /\ (board = "booting" => tx = <<>>)
  BY DEF SendInit
<1>3. tx \in Seq(Outputs) /\ <<>> \o tx = tx /\ \A n \in Nat : \A v : Exact(tx, n, v)
  BY <1>2, InitStream
<1>4. MaxForms \in Nat /\ MaxResends \in Nat
  BY SendAssumption
<1>5. rest \in 0 .. MaxForms /\ rest \in Nat /\ rest <= MaxForms /\ (verb # "wipe-user" => rest > 0)
  <2>1. CASE verb = "wipe-user"
    BY <1>4, <2>1 DEF SendInit
  <2>2. CASE verb # "wipe-user"
    <3>1. rest \in 1 .. MaxForms
      BY <2>2 DEF SendInit
    <3> QED BY <1>4, <2>2, <3>1
  <2> QED BY <2>1, <2>2
<1>6. \A n \in Lines : n \in Nat /\ n > 0
  BY DEF Lines
<1>7. Types
  <2>1. req \in Requests
    BY <1>1 DEF CtrlC, Requests, Whats
  <2>2. tracker \in [active : BOOLEAN, requested : BOOLEAN]
    BY <1>1 DEF Idle
  <2>3. answers \in [Lines -> Nat] /\ verdict \in [Lines -> {"none", "ok", "error", "interrupted"}]
    BY <1>1, <1>6
  <2>4. rx \in Seq(Requests) /\ ahead \in Seq(Requests) /\ text \in Seq(Outputs)
    BY <1>1
  <2>5. resends \in 0 .. MaxResends /\ gaveUp \subseteq 0 .. sends /\ tries \in Nat /\ sends \in Nat /\ signals \in Nat
    BY <1>1, <1>4
  <2> QED BY <1>1, <1>3, <1>5, <2>1, <2>2, <2>3, <2>4, <2>5 DEF Types, Waits
<1>8. Budget
  <2>1. Count
    <3>1. Stage(wait) = 0 /\ Retried = 0
      BY <1>1 DEF Stage, Retried
    <3> QED BY <1>1, <1>4, <1>5, <3>1 DEF Count
  <2>2. Stages
    BY <1>1, <1>5 DEF Stages
  <2>3. Interrupts
    <3>1. DOMAIN rx = {}
      BY <1>1
    <3> QED BY <1>1, <3>1 DEF Interrupts, Idle
  <2> QED BY <2>1, <2>2, <2>3 DEF Budget
<1>9. Booting
  BY <1>1, <1>2 DEF Booting
<1>10. DOMAIN rx = {} /\ DOMAIN ahead = {}
  BY <1>1
<1>11. LineInv
  BY <1>1, <1>10 DEF LineInv
<1>12. StreamInv
  <2>1. Stream = tx
    BY <1>1, <1>3 DEF Stream
  <2>2. Exact(tx, sends, verdict)
    BY <1>1, <1>3
  <2> QED BY <1>1, <2>1, <2>2 DEF StreamInv
<1>13. PendInv
  BY <1>1, <1>10 DEF PendInv, Fitting, Apart
<1>14. EndInv
  BY <1>1, <1>6 DEF EndInv
<1> QED BY <1>7, <1>8, <1>9, <1>11, <1>12, <1>13, <1>14 DEF IInv

\* The invariant holds again after every step.
LEMMA StepHolds ==
  ASSUME IInv, [SendNext]_sendVars PROVE IInv'
<1>1. CASE BoardNext
  BY <1>1, BootStep, ReadLineStep, ReadCtrlCStep, EvaluateStep, PollStep DEF BoardNext
<1>2. CASE HostNext
  <2>1. CASE Start \/ Receive \/ Interrupt \/ ForwardCtrlC
    BY <2>1, StartStep, ReceiveStep, InterruptStep, ForwardCtrlCStep
  <2>2. CASE AnswerSync \/ AnswerStatus \/ AnswerLibrary \/ AnswerLibraryForm
    BY <2>2, AnswerSyncStep, AnswerStatusStep, AnswerLibraryStep, AnswerLibraryFormStep
  <2>3. CASE AnswerForm \/ AnswerRecover \/ AnswerLast
    BY <2>3, AnswerFormStep, AnswerRecoverStep, AnswerLastStep
  <2>4. CASE TimeoutSync \/ TimeoutStatus \/ TimeoutForm \/ TimeoutLibrary \/ TimeoutLast
    BY <2>4, TimeoutSyncStep, TimeoutStatusStep, TimeoutFormStep, TimeoutLibraryStep, TimeoutLastStep
  <2> QED BY <1>2, <2>1, <2>2, <2>3, <2>4 DEF HostNext
<1>3. CASE UNCHANGED sendVars
  <2>1. UNCHANGED <<rx, ahead, board, req, tier, tx>>
        /\ UNCHANGED <<verb, wait, text, part, rest, tries, resends, failed, tracker, forward, signals, sends>>
        /\ UNCHANGED <<gaveUp, late, verdict, answers>>
    BY <1>3 DEF sendVars, boardVars, hostVars, sendHistory
  <2>2. Types' /\ Budget' /\ Booting' /\ LineInv'
    <3>1. Types'
      BY <2>1 DEF IInv, Types
    <3>2. Count' /\ Stages' /\ Interrupts'
      BY <2>1 DEF IInv, Budget, Count, Stages, Interrupts, Stage, Retried
    <3>3. Booting' /\ LineInv'
      BY <2>1 DEF IInv, Booting, LineInv
    <3> QED BY <3>1, <3>2, <3>3 DEF Budget
  <2>3. (late = FALSE => StreamInv /\ PendInv /\ EndInv)'
    BY <2>1 DEF IInv, StreamInv, Stream, PendInv, Fitting, Apart, EndInv, Settled, Done
  <2> QED BY <2>2, <2>3 DEF IInv
<1> QED BY <1>1, <1>2, <1>3 DEF SendNext

\* While no answer came late, the lines' answers are their own; and no line but
\* the last can have ended without the host's knowing how.
LEMMA HoldsMatch ==
  ASSUME IInv PROVE AnswersMatch
<1> SUFFICES ASSUME late = FALSE
             PROVE  /\ \A n \in Lines : answers[n] = n
                    /\ (wait = "done" /\ ~failed) =>
                         \A n \in 1 .. sends :
                           \/ verdict[n] \in {"ok", "interrupted"}
                           \/ n \in gaveUp /\ verdict[n] = "none"
  BY DEF AnswersMatch, IInv, Types
<1>1. EndInv /\ sends \in Nat
  BY DEF IInv, Types
<1>2. \A n \in 1 .. sends : n \in Lines /\ (n < sends \/ n = sends)
  <2>1. \A n \in 1 .. sends + 1 : n \in Lines
    BY Bounded DEF IInv
  <2>2. \A n \in 1 .. sends : n \in 1 .. sends + 1 /\ (n < sends \/ n = sends)
    BY <1>1
  <2> QED BY <2>1, <2>2
<1>3. ASSUME wait = "done", ~failed, NEW n \in 1 .. sends
      PROVE  \/ verdict[n] \in {"ok", "interrupted"}
             \/ n \in gaveUp /\ verdict[n] = "none"
  BY <1>1, <1>2, <1>3 DEF EndInv, Settled, Done
<1> QED BY <1>1, <1>3 DEF EndInv

\* However the board, the line and the user interleave, and however often a wait
\* times out: as long as no answer comes that the host had stopped waiting for,
\* the answer it takes for a form or a command is that line's own, and `send`,
\* `install` or `wipe-user` report success only when every line they waited for
\* was carried out (cmd/frothy-session/main.go:190-198, install.go, wipe_user.go).
THEOREM AnswersAreOwn == SendSpec => []AnswersMatch
<1>1. SendInit => IInv
  BY InitHolds
<1>2. IInv /\ [SendNext]_sendVars => IInv'
  BY StepHolds
<1>3. IInv => AnswersMatch
  BY HoldsMatch
<1> QED BY <1>1, <1>2, <1>3, PTL DEF SendSpec


-----------------------------------------------------------------------------
(* Induction and recursion.  The library's theorems of induction take an     *)
(* operator; these take a set and a function.                                *)

\* A set of numbers that is not empty has a least one, and Min is it.
LEMMA Least ==
  ASSUME NEW S, S \subseteq Nat, S # {}
  PROVE  Min(S) \in S /\ \A y \in S : Min(S) <= y
<1>1. PICK W : IsWellFoundedOn(W, Nat) /\ \A x, y \in Nat : y < x => <<y, x>> \in W BY BelowIsWellFounded
<1>2. PICK x \in S : \A y \in S : <<y, x>> \notin W BY <1>1, WFMin
<1>3. ASSUME NEW y \in S PROVE x <= y
  <2>1. x \in Nat /\ y \in Nat OBVIOUS
  <2>2. ~(y < x) BY <1>1, <1>2, <2>1
  <2> QED BY <2>1, <2>2
<1> QED BY <1>3 DEF Min

\* A set that holds 0 and, with a number, the next one holds them all.
LEMMA Inductive ==
  ASSUME NEW n \in Nat, NEW P, 0 \in P, \A i \in 0 .. n : i \in P /\ i < n => i + 1 \in P
  PROVE  0 .. n \subseteq P
<1> DEFINE bad == {i \in 0 .. n : i \notin P}
<1>1. SUFFICES ASSUME bad # {} PROVE FALSE OBVIOUS
<1>2. bad \subseteq Nat OBVIOUS
<1> DEFINE m == Min(bad)
<1>3. m \in bad /\ \A y \in bad : m <= y BY <1>1, <1>2, Least
<1> HIDE DEF m
<1>4. m \in 0 .. n /\ m \notin P /\ m # 0 BY <1>3
<1>5. m - 1 \in 0 .. n /\ m - 1 < n /\ m - 1 + 1 = m BY <1>4
<1>6. m - 1 \in P
  <2>1. ~(m <= m - 1) BY <1>4
  <2> QED BY <1>3, <1>5, <2>1
<1> QED BY <1>4, <1>5, <1>6

Recursive(S, n, s0, F) ==
  \E r \in [0 .. n -> S] : r[0] = s0 /\ \A i \in 1 .. n : r[i] = F[<<r[i - 1], i>>]

\* A function that says of each number what it makes of the one before exists.
LEMMA Recursion ==
  ASSUME NEW S, NEW n \in Nat, NEW s0 \in S, NEW F \in [S \X (1 .. n) -> S]
  PROVE  Recursive(S, n, s0, F)
<1> DEFINE Upto(m) == \E r \in [0 .. m -> S] : r[0] = s0 /\ \A i \in 1 .. m : r[i] = F[<<r[i - 1], i>>]
<1> DEFINE P == {m \in 0 .. n : Upto(m)}
<1>1. 0 \in P
  <2> DEFINE r == [i \in 0 .. 0 |-> s0]
  <2>1. r \in [0 .. 0 -> S] /\ r[0] = s0 /\ \A i \in 1 .. 0 : FALSE OBVIOUS
  <2> HIDE DEF r
  <2>2. Upto(0) BY <2>1
  <2>3. 0 \in 0 .. n OBVIOUS
  <2> QED BY <2>2, <2>3
<1>2. ASSUME NEW m \in 0 .. n, m \in P, m < n PROVE m + 1 \in P
  <2>1. PICK r \in [0 .. m -> S] : r[0] = s0 /\ \A i \in 1 .. m : r[i] = F[<<r[i - 1], i>>] BY <1>2
  <2> DEFINE next == F[<<r[m], m + 1>>]
  <2> DEFINE q == [i \in 0 .. m + 1 |-> IF i <= m THEN r[i] ELSE next]
  <2>2. r[m] \in S /\ m + 1 \in 1 .. n BY <1>2
  <2>3. next \in S BY <2>2
  <2> HIDE DEF next
  <2>4. q \in [0 .. m + 1 -> S] BY <2>3
  <2>5. q[0] = s0 BY <2>1
  <2>6. ASSUME NEW i \in 1 .. m + 1 PROVE q[i] = F[<<q[i - 1], i>>]
    <3>1. CASE i <= m
      <4>1. i \in 1 .. m /\ i \in 0 .. m + 1 /\ i - 1 \in 0 .. m + 1 /\ i - 1 <= m BY <3>1
      <4>2. q[i] = r[i] /\ q[i - 1] = r[i - 1] BY <3>1, <4>1
      <4> QED BY <2>1, <4>1, <4>2
    <3>2. CASE i = m + 1
      <4>1. i - 1 = m /\ i \in 0 .. m + 1 /\ m \in 0 .. m + 1 /\ ~(i <= m) BY <3>2
      <4>2. q[i] = next /\ q[i - 1] = r[m] BY <4>1
      <4> QED BY <3>2, <4>2 DEF next
    <3> QED BY <3>1, <3>2
  <2> HIDE DEF q
  <2>7. Upto(m + 1) BY <2>4, <2>5, <2>6
  <2> QED BY <1>2, <2>7
<1>3. Upto(n)
  <2>1. \A m \in 0 .. n : m \in P /\ m < n => m + 1 \in P BY <1>2
  <2> HIDE DEF P
  <2>2. 0 .. n \subseteq P BY <1>1, <2>1, Inductive
  <2>3. n \in P BY <2>2
  <2> USE DEF P
  <2> QED BY <2>3
<1> QED BY <1>3 DEF Upto, Recursive

-----------------------------------------------------------------------------
(* Sequences put together *)

Piled(r, ss) == r[0] = <<>> /\ \A i \in 1 .. Len(ss) : r[i] = r[i - 1] \o ss[i]

\* Sequences can be put together one after the other.
LEMMA Pile ==
  ASSUME NEW T, NEW ss \in Seq(Seq(T))
  PROVE  \E r \in [0 .. Len(ss) -> Seq(T)] : Piled(r, ss)
<1> DEFINE n == Len(ss)
<1> DEFINE S == Seq(T)
<1> DEFINE F == [x \in S \X (1 .. n) |-> x[1] \o ss[x[2]]]
<1> DEFINE s0 == <<>>
<1>1. n \in Nat /\ s0 \in S OBVIOUS
<1>2. \A i \in 1 .. n : ss[i] \in S OBVIOUS
<1>3. F \in [S \X (1 .. n) -> S]
  <2>1. ASSUME NEW x \in S \X (1 .. n) PROVE x[1] \o ss[x[2]] \in S
    <3>1. x[1] \in S /\ x[2] \in 1 .. n OBVIOUS
    <3>2. ss[x[2]] \in S BY <1>2, <3>1
    <3> HIDE DEF n
    <3> QED BY <3>1, <3>2
  <2> QED BY <2>1
<1>4. \A s \in S, i \in 1 .. n : F[<<s, i>>] = s \o ss[i] OBVIOUS
<1> HIDE DEF F, n, s0, S
<1>r. Recursive(S, n, s0, F) BY <1>1, <1>3, Recursion
<1>5. PICK r \in [0 .. n -> S] : r[0] = s0 /\ \A i \in 1 .. n : r[i] = F[<<r[i - 1], i>>]
  BY <1>r DEF Recursive
<1>6. r[0] = <<>> BY <1>5 DEF s0
<1>7. ASSUME NEW i \in 1 .. n PROVE r[i] = r[i - 1] \o ss[i]
  <2>1. i - 1 \in 0 .. n BY <1>1
  <2>2. r[i] = F[<<r[i - 1], i>>] BY <1>5
  <2>3. r[i - 1] \in S BY <2>1
  <2> QED BY <1>4, <2>2, <2>3
<1> QED BY <1>6, <1>7 DEF n, S, Piled

\* FlattenSeq is what a function of the items piles up.
LEMMA PileIsFlat ==
  ASSUME NEW T, NEW ss \in Seq(Seq(T)), NEW r \in [0 .. Len(ss) -> Seq(T)], Piled(r, ss)
  PROVE  FlattenSeq(ss) = r[Len(ss)]
<1> DEFINE n == Len(ss)
<1>1. n \in Nat OBVIOUS
<1>2. r[0] = <<>> /\ \A i \in 1 .. n : r[i] = r[i - 1] \o ss[i] BY DEF Piled
<1>3. CASE n = 0
  <2>1. FlattenSeq(ss) = ss /\ ss = <<>> BY <1>3 DEF FlattenSeq
  <2> QED BY <1>2, <1>3, <2>1
<1>4. CASE n # 0
  <2> HIDE DEF n
  <2>1. 1 \in 1 .. n /\ n \in 1 .. n BY <1>1, <1>4
  <2>2. r[1] = ss[1]
    <3>0. 1 - 1 = 0 OBVIOUS
    <3>1. r[1] = r[1 - 1] \o ss[1] BY <1>2, <2>1
    <3>2. r[1] = r[0] \o ss[1] BY <3>0, <3>1
    <3>3. ss[1] \in Seq(T) BY <2>1 DEF n
    <3> QED BY <1>2, <3>2, <3>3
  <2> DEFINE g == [i \in 1 .. n |-> r[i]]
  <2>3. ASSUME NEW i \in 1 .. n PROVE g[i] = IF i = 1 THEN ss[i] ELSE g[i - 1] \o ss[i]
    <3>1. CASE i = 1 BY <2>2, <3>1
    <3>2. CASE i # 1
      <4>1. i - 1 \in 1 .. n BY <3>2, <1>1
      <4> QED BY <1>2, <3>2, <4>1
    <3> QED BY <3>1, <3>2
  <2>4. g = [i \in 1 .. n |-> IF i = 1 THEN ss[i] ELSE g[i - 1] \o ss[i]] BY <2>3
  <2> DEFINE f[i \in 1 .. n] == IF i = 1 THEN ss[i] ELSE f[i - 1] \o ss[i]
  <2>5. FlattenSeq(ss) = f[n] BY <1>4 DEF FlattenSeq, n
  <2>6. f = [i \in 1 .. n |-> IF i = 1 THEN ss[i] ELSE f[i - 1] \o ss[i]]
    <3> HIDE DEF g
    <3> QED BY <2>4
  <2>7. \A i \in 1 .. n : f[i] = IF i = 1 THEN ss[i] ELSE f[i - 1] \o ss[i]
    <3> HIDE DEF f
    <3> QED BY <2>6
  <2> HIDE DEF f, g
  <2> DEFINE P == {j \in 0 .. n : j = 0 \/ f[j] = r[j]}
  <2>8. 0 \in P BY <1>1
  <2>9. ASSUME NEW j \in 0 .. n, j \in P, j < n PROVE j + 1 \in P
    <3>1. PICK i \in 1 .. n : i = j + 1 /\ i - 1 = j BY <1>1, <2>9
    <3>2. CASE j = 0
      <4>1. f[1] = ss[1] BY <2>1, <2>7
      <4>2. i = 1 BY <3>1, <3>2
      <4>3. f[i] = r[i] BY <2>2, <4>1, <4>2
      <4> QED BY <3>1, <4>3
    <3>3. CASE j # 0
      <4>1. f[j] = r[j] /\ i # 1 BY <2>9, <3>1, <3>3
      <4>2. f[i] = f[i - 1] \o ss[i] BY <2>7, <4>1
      <4>3. r[i] = r[i - 1] \o ss[i] BY <1>2
      <4>4. f[i] = r[i] BY <3>1, <4>1, <4>2, <4>3
      <4> QED BY <3>1, <4>4
    <3> QED BY <3>2, <3>3
  <2>10. \A j \in 0 .. n : j \in P /\ j < n => j + 1 \in P BY <2>9
  <2> HIDE DEF P
  <2>11. 0 .. n \subseteq P BY <1>1, <2>8, <2>10, Inductive
  <2>12. n \in P BY <1>1, <2>11
  <2> USE DEF P
  <2>13. f[n] = r[n] BY <1>4, <2>12
  <2> QED BY <2>5, <2>13 DEF n
<1> QED BY <1>3, <1>4

\* What FlattenSeq makes of no sequences, of two lists of them, of one, and of
\* sequences of one item.
LEMMA FlatEmpty == FlattenSeq(<<>>) = <<>>
<1>1. Len(<<>>) = 0 OBVIOUS
<1> QED BY <1>1 DEF FlattenSeq

LEMMA FlatConcat ==
  ASSUME NEW T, NEW ss \in Seq(Seq(T)), NEW tt \in Seq(Seq(T))
  PROVE  /\ FlattenSeq(ss) \in Seq(T)
         /\ FlattenSeq(ss \o tt) = FlattenSeq(ss) \o FlattenSeq(tt)
<1>1. PICK p \in [0 .. Len(ss) -> Seq(T)] : Piled(p, ss) BY Pile
<1>2. PICK q \in [0 .. Len(tt) -> Seq(T)] : Piled(q, tt) BY Pile
<1>3. FlattenSeq(ss) = p[Len(ss)] /\ FlattenSeq(tt) = q[Len(tt)] BY <1>1, <1>2, PileIsFlat
<1>4. PICK m \in Nat : m = Len(ss) OBVIOUS
<1>5. PICK n \in Nat : n = Len(tt) OBVIOUS
<1> DEFINE all == ss \o tt
<1> DEFINE S == Seq(T)
<1>6. all \in Seq(S) /\ Len(all) = m + n BY <1>4, <1>5
<1>7. (\A i \in 1 .. m : all[i] = ss[i]) /\ \A i \in m + 1 .. m + n : all[i] = tt[i - m] BY <1>4, <1>5
<1>8. \A i \in 1 .. n : tt[i] \in S BY <1>5
<1>9. \A s, t \in S : s \o t \in S /\ s \o <<>> = s OBVIOUS
<1>9a. \A s, t, u \in S : (s \o t) \o u = s \o (t \o u) BY ConcatAssociative
<1>a. (\A i \in 0 .. m : p[i] \in S) /\ p[0] = <<>> /\ \A i \in 1 .. m : p[i] = p[i - 1] \o ss[i]
  BY <1>1, <1>4 DEF Piled
<1>b. (\A i \in 0 .. n : q[i] \in S) /\ q[0] = <<>> /\ \A i \in 1 .. n : q[i] = q[i - 1] \o tt[i]
  BY <1>2, <1>5 DEF Piled
<1> HIDE DEF all, S
<1>c. p[m] \in S /\ q[n] \in S BY <1>a, <1>b
<1> DEFINE r == [i \in 0 .. m + n |-> IF i <= m THEN p[i] ELSE p[m] \o q[i - m]]
<1>d. ASSUME NEW i \in 0 .. m + n PROVE r[i] \in S
  <2>1. CASE i <= m
    <3>1. i \in 0 .. m BY <2>1
    <3>2. p[i] \in S BY <1>a, <3>1
    <3> QED BY <2>1, <3>2
  <2>2. CASE ~(i <= m)
    <3>1. PICK j \in 0 .. n : j = i - m BY <2>2
    <3>2. q[j] \in S BY <1>b
    <3>3. p[m] \o q[j] \in S BY <1>9, <1>c, <3>2
    <3> QED BY <2>2, <3>1, <3>3
  <2> QED BY <2>1, <2>2
<1>10. r \in [0 .. Len(all) -> S]
  <2>1. r \in [0 .. m + n -> S] BY <1>d
  <2> HIDE DEF r
  <2> QED BY <1>6, <2>1
<1>11. r[0] = <<>> BY <1>a
<1>12. ASSUME NEW i \in 1 .. m + n PROVE r[i] = r[i - 1] \o all[i]
  <2>0. PICK k \in 0 .. m + n : k = i - 1 OBVIOUS
  <2>1. CASE i <= m
    <3>1. i \in 1 .. m /\ k <= m BY <2>0, <2>1
    <3>2. r[i] = p[i] /\ r[k] = p[k] BY <2>1, <3>1
    <3>3. p[i] = p[i - 1] \o ss[i] BY <1>a, <3>1
    <3>4. p[i] = p[k] \o all[i] BY <1>7, <2>0, <3>1, <3>3
    <3> HIDE DEF r
    <3> QED BY <2>0, <3>2, <3>4
  <2>2. CASE i > m
    <3>1. PICK j \in 1 .. n : j = i - m BY <2>2
    <3>2. PICK h \in 0 .. n : h = j - 1 /\ h = k - m BY <2>0, <3>1
    <3>3. r[i] = p[m] \o q[j]
      <4>1. ~(i <= m) /\ i \in 0 .. m + n BY <2>2
      <4>2. r[i] = p[m] \o q[i - m] BY <4>1
      <4> HIDE DEF r
      <4> QED BY <3>1, <4>2
    <3>4. r[k] = p[m] \o q[h]
      <4>1. CASE k = m
        <5>1. h = 0 BY <3>2, <4>1
        <5>2. q[h] = <<>> BY <1>b, <5>1
        <5>4. r[k] = p[m] BY <4>1
        <5> HIDE DEF r
        <5> QED BY <1>9, <1>c, <5>2, <5>4
      <4>2. CASE k # m
        <5>1. ~(k <= m) BY <2>0, <2>2, <4>2
        <5>2. r[k] = p[m] \o q[k - m] BY <5>1
        <5> HIDE DEF r
        <5> QED BY <3>2, <5>2
      <4> QED BY <4>1, <4>2
    <3> HIDE DEF r
    <3>5. q[j] = q[h] \o tt[j]
      <4>1. j \in 1 .. n OBVIOUS
      <4>2. \A x \in 1 .. n : q[x] = q[x - 1] \o tt[x] BY <1>b
      <4>3. q[j] = q[j - 1] \o tt[j] BY <4>1, <4>2, Zenon
      <4> QED BY <3>2, <4>3
    <3>6. all[i] = tt[j]
      <4>1. i \in m + 1 .. m + n BY <2>2
      <4>2. all[i] = tt[i - m] BY <1>7, <4>1
      <4> QED BY <3>1, <4>2
    <3>7. q[h] \in S /\ tt[j] \in S BY <1>8, <1>b
    <3>8. p[m] \o (q[h] \o tt[j]) = (p[m] \o q[h]) \o tt[j] BY <1>9a, <1>c, <3>7, Zenon
    <3>9. r[i] = r[k] \o all[i] BY <3>3, <3>4, <3>5, <3>6, <3>8
    <3> QED BY <2>0, <3>9
  <2>3. i <= m \/ i > m OBVIOUS
  <2> HIDE DEF r
  <2> QED BY <2>1, <2>2, <2>3
<1>13. r[m + n] = p[m] \o q[n]
  <2>1. CASE n = 0
    <3>1. q[n] = <<>> BY <1>b, <2>1
    <3>0. m + n \in 0 .. m + n /\ m + n = m BY <2>1
    <3>2. r[m + n] = p[m] BY <3>0
    <3>3. p[m] \o <<>> = p[m] BY <1>9, <1>c, Zenon
    <3> HIDE DEF r
    <3> QED BY <3>1, <3>2, <3>3
  <2>2. CASE n # 0
    <3>1. ~(m + n <= m) /\ m + n - m = n /\ m + n \in 0 .. m + n BY <2>2
    <3>0. PICK x \in 0 .. m + n : x = m + n BY <3>1
    <3>2. r[x] = p[m] \o q[x - m] BY <3>0, <3>1
    <3> HIDE DEF r
    <3>3. x - m = n BY <3>0
    <3>4. r[x] = p[m] \o q[n] BY <3>2, <3>3
    <3> QED BY <3>0, <3>4
  <2> HIDE DEF r
  <2> QED BY <2>1, <2>2
<1> HIDE DEF r
<1>14. Piled(r, all) BY <1>6, <1>11, <1>12 DEF Piled
<1>15. FlattenSeq(all) = r[Len(all)] BY <1>6, <1>10, <1>14, PileIsFlat DEF S
<1> QED BY <1>3, <1>4, <1>5, <1>6, <1>13, <1>15, <1>c DEF all, S

LEMMA FlatOne ==
  ASSUME NEW T, NEW s \in Seq(T)
  PROVE  FlattenSeq(<<s>>) = s
<1> DEFINE r == [i \in 0 .. 1 |-> IF i = 0 THEN <<>> ELSE s]
<1> DEFINE ss == <<s>>
<1>1. ss \in Seq(Seq(T)) /\ Len(ss) = 1 /\ ss[1] = s OBVIOUS
<1>2. r[0] = <<>> /\ r[1] = s OBVIOUS
<1>3. r \in [0 .. 1 -> Seq(T)]
  <2>1. <<>> \in Seq(T) OBVIOUS
  <2> QED BY <2>1
<1> HIDE DEF r, ss
<1>4. ASSUME NEW i \in 1 .. 1 PROVE r[i] = r[i - 1] \o ss[i]
  <2>1. i = 1 /\ i - 1 = 0 OBVIOUS
  <2>2. <<>> \o s = s OBVIOUS
  <2> QED BY <1>1, <1>2, <2>1, <2>2
<1>5. Piled(r, ss) BY <1>1, <1>2, <1>4 DEF Piled
<1>6. FlattenSeq(ss) = r[Len(ss)] BY <1>1, <1>3, <1>5, PileIsFlat
<1> QED BY <1>1, <1>2, <1>6 DEF ss

LEMMA FlatSingles ==
  ASSUME NEW T, NEW c \in Seq(T), NEW ss \in Seq(Seq(T)), Len(ss) = Len(c),
         \A i \in 1 .. Len(c) : ss[i] = <<c[i]>>
  PROVE  FlattenSeq(ss) = c
<1> DEFINE r == [i \in 0 .. Len(c) |-> SubSeq(c, 1, i)]
<1>1. \A i \in 0 .. Len(c) : SubSeq(c, 1, i) \in Seq(T) OBVIOUS
<1>2. r \in [0 .. Len(c) -> Seq(T)] BY <1>1
<1>3. r[0] = <<>> OBVIOUS
<1>4. ASSUME NEW i \in 1 .. Len(ss) PROVE r[i] = r[i - 1] \o ss[i]
  <2>1. i \in 0 .. Len(c) /\ i - 1 \in 0 .. Len(c) /\ i \in 1 .. Len(c) OBVIOUS
  <2>2. r[i] = SubSeq(c, 1, i) /\ r[i - 1] = SubSeq(c, 1, i - 1) BY <2>1
  <2>3. 1 \in 1 .. Len(c) /\ i \in 1 .. Len(c) BY <2>1
  <2>4. SubSeq(c, 1, i) = SubSeq(c, 1, i - 1) \o <<c[i]>> BY <2>3, SubSeqRecursiveSecond
  <2> HIDE DEF r
  <2> QED BY <2>1, <2>2, <2>4
<1>5. r[Len(ss)] = c
  <2>1. Len(ss) \in 0 .. Len(c) OBVIOUS
  <2>2. SubSeq(c, 1, Len(c)) = c BY SubSeqFull
  <2> QED BY <2>1, <2>2
<1> HIDE DEF r
<1>6. Piled(r, ss) BY <1>3, <1>4 DEF Piled
<1> QED BY <1>2, <1>5, <1>6, PileIsFlat

-----------------------------------------------------------------------------
(* What the bytes so far mean *)

Symbols == Bytes \cup {"reset", "restored", "prompt", "error"}

\* A ">" that starts a line and is the last byte may begin a prompt.
Unheld(s) == s # <<>> => ~(s[Len(s)] = "gt" /\ (Len(s) = 1 \/ s[Len(s) - 1] = "nl"))
LineAt(s, i) ==
  IF LineText(s, i) = {} THEN "none" ELSE IF s[Min(LineText(s, i))] = "ets" THEN "banner" ELSE "text"
Meanings(s) == [i \in 1 .. Len(s) |-> Meaning(s, i)]
Told(s) == FlattenSeq(Meanings(s))

\* What a byte means is a sequence of symbols.
LEMMA MeaningType ==
  ASSUME NEW s \in Seq(Bytes), NEW i \in 1 .. Len(s)
  PROVE  Meaning(s, i) \in Seq(Symbols)
<1>1. s[i] \in Symbols /\ {"nl", "reset", "restored", "prompt"} \subseteq Symbols BY DEF Symbols, Bytes
<1> HIDE DEF Symbols
<1>2. <<>> \in Seq(Symbols) /\ <<"restored">> \o <<"prompt">> \in Seq(Symbols) /\ <<>> \o <<"prompt">> \in Seq(Symbols)
  BY <1>1
<1>3. <<"nl", "reset">> \in Seq(Symbols) /\ <<s[i]>> \in Seq(Symbols) BY <1>1
<1> QED BY <1>2, <1>3 DEF Meaning

LEMMA MeaningsType ==
  ASSUME NEW s \in Seq(Bytes)
  PROVE  Meanings(s) \in Seq(Seq(Symbols)) /\ Len(Meanings(s)) = Len(s)
<1>1. \A i \in 1 .. Len(s) : Meaning(s, i) \in Seq(Symbols) BY MeaningType
<1>2. Len(s) \in Nat OBVIOUS
<1> QED BY <1>1, <1>2 DEF Meanings

\* What has arrived keeps its meaning when more arrives.
LEMMA MeaningKept ==
  ASSUME NEW s \in Seq(Bytes), NEW t \in Seq(Bytes), Len(s) <= Len(t),
         \A i \in 1 .. Len(s) : t[i] = s[i], Unheld(s)
  PROVE  /\ \A i \in 1 .. Len(s) : IsPrompt(t, i) <=> IsPrompt(s, i)
         /\ \A i \in 1 .. Len(s) + 1 : LineText(t, i) = LineText(s, i) /\ LineAt(t, i) = LineAt(s, i)
         /\ \A i \in 1 .. Len(s) : EndsBanner(t, i) <=> EndsBanner(s, i)
         /\ \A i \in 1 .. Len(s) + 1 : InReset(t, i) <=> InReset(s, i)
         /\ \A i \in 1 .. Len(s) : Meaning(t, i) = Meaning(s, i)
<1>0. PICK n \in Nat : n = Len(s) OBVIOUS
<1>1. ASSUME NEW i \in 1 .. n PROVE IsPrompt(t, i) <=> IsPrompt(s, i)
  <2>1. t[i] = s[i] /\ (i # 1 => t[i - 1] = s[i - 1]) BY <1>0
  <2>2. CASE i < n
    <3>1. t[i + 1] = s[i + 1] BY <1>0, <2>2
    <3>2. i \in 1 .. Len(t) - 1 /\ i \in 1 .. Len(s) - 1 BY <1>0, <2>2
    <3> QED BY <2>1, <3>1, <3>2 DEF IsPrompt
  <2>3. CASE i = n
    <3>1. s # <<>> BY <1>0
    <3>2. ~(s[i] = "gt" /\ (i = 1 \/ s[i - 1] = "nl")) BY <1>0, <2>3, <3>1 DEF Unheld
    <3> QED BY <2>1, <3>2 DEF IsPrompt
  <2> QED BY <2>2, <2>3
<1>2. ASSUME NEW i \in 1 .. n + 1 PROVE LineText(t, i) = LineText(s, i)
  <2>1. ASSUME NEW j \in 1 .. i - 1 PROVE t[j] = s[j] /\ (IsPrompt(t, j) <=> IsPrompt(s, j)) BY <1>0, <1>1
  <2>2. ASSUME NEW j \in 1 .. i - 1 PROVE (\A k \in j .. i - 1 : t[k] # "nl") <=> (\A k \in j .. i - 1 : s[k] # "nl")
    <3>1. ASSUME NEW k \in j .. i - 1 PROVE t[k] = s[k] BY <2>1
    <3> QED BY <3>1
  <2> QED BY <2>1, <2>2 DEF LineText
<1>3. ASSUME NEW i \in 1 .. n + 1 PROVE LineAt(t, i) = LineAt(s, i)
  <2>1. CASE LineText(s, i) = {} BY <1>2, <2>1 DEF LineAt
  <2>2. CASE LineText(s, i) # {}
    <3>1. LineText(s, i) \subseteq 1 .. n BY DEF LineText
    <3>2. LineText(s, i) \subseteq Nat BY <3>1
    <3>3. Min(LineText(s, i)) \in 1 .. n BY <2>2, <3>1, <3>2, Least
    <3>4. t[Min(LineText(s, i))] = s[Min(LineText(s, i))] BY <1>0, <3>3
    <3> QED BY <1>2, <3>4 DEF LineAt
  <2> QED BY <2>1, <2>2
<1>4. ASSUME NEW i \in 1 .. n PROVE EndsBanner(t, i) <=> EndsBanner(s, i)
  <2>1. t[i] = s[i] BY <1>0
  <2>2. LineText(t, i) = LineText(s, i) BY <1>2
  <2>3. LineText(s, i) # {} => t[Min(LineText(s, i))] = s[Min(LineText(s, i))]
    <3>1. SUFFICES ASSUME LineText(s, i) # {} PROVE t[Min(LineText(s, i))] = s[Min(LineText(s, i))] OBVIOUS
    <3>2. LineText(s, i) \subseteq 1 .. n BY DEF LineText
    <3>3. LineText(s, i) \subseteq Nat BY <3>2
    <3>4. Min(LineText(s, i)) \in 1 .. n BY <3>1, <3>2, <3>3, Least
    <3> QED BY <1>0, <3>4
  <2> QED BY <2>1, <2>2, <2>3 DEF EndsBanner
<1>5. ASSUME NEW i \in 1 .. n + 1 PROVE InReset(t, i) <=> InReset(s, i)
  <2>1. ASSUME NEW j \in 1 .. i - 1 PROVE (EndsBanner(t, j) <=> EndsBanner(s, j)) /\ (IsPrompt(t, j) <=> IsPrompt(s, j))
    <3>1. j \in 1 .. n OBVIOUS
    <3> QED BY <1>1, <1>4, <3>1
  <2>2. ASSUME NEW j \in 1 .. i - 1
        PROVE (\A k \in j .. i - 1 : ~IsPrompt(t, k)) <=> (\A k \in j .. i - 1 : ~IsPrompt(s, k))
    <3>1. ASSUME NEW k \in j .. i - 1 PROVE IsPrompt(t, k) <=> IsPrompt(s, k)
      <4>1. k \in 1 .. i - 1 OBVIOUS
      <4> QED BY <2>1, <4>1
    <3> QED BY <3>1
  <2> QED BY <2>1, <2>2 DEF InReset
<1>6. ASSUME NEW i \in 1 .. n PROVE Meaning(t, i) = Meaning(s, i)
  <2>1. IsPrompt(t, i - 1) <=> IsPrompt(s, i - 1)
    <3>1. CASE i = 1 BY <3>1 DEF IsPrompt
    <3>2. CASE i # 1
      <4>1. PICK j \in 1 .. n : j = i - 1 BY <3>2
      <4>2. IsPrompt(t, j) <=> IsPrompt(s, j) BY <1>1
      <4> QED BY <4>1, <4>2
    <3> QED BY <3>1, <3>2
  <2>2. (IsPrompt(t, i) <=> IsPrompt(s, i)) /\ (EndsBanner(t, i) <=> EndsBanner(s, i)) BY <1>1, <1>4
  <2>3. i \in 1 .. n + 1 /\ t[i] = s[i] BY <1>0
  <2>4. InReset(t, i) <=> InReset(s, i) BY <1>5, <2>3
  <2> QED BY <2>1, <2>2, <2>3, <2>4 DEF Meaning
<1> QED BY <1>0, <1>1, <1>2, <1>3, <1>4, <1>5, <1>6

LEMMA LeastIs ==
  ASSUME NEW S, S \subseteq Nat, NEW m \in S, \A y \in S : m <= y
  PROVE  Min(S) = m
<1>1. S # {} OBVIOUS
<1>2. Min(S) \in S /\ \A y \in S : Min(S) <= y BY <1>1, Least
<1>3. PICK x \in Nat : x = Min(S) BY <1>2
<1>4. x <= m /\ m <= x BY <1>2, <1>3
<1> QED BY <1>3, <1>4

\* The line after a stretch of bytes in which no prompt begins.
LEMMA LineOn ==
  ASSUME NEW s \in Seq(Bytes), Unheld(s), NEW c \in Seq(Bytes), NEW k \in 0 .. Len(c),
         \A i \in 1 .. Len(c) : ~IsPrompt(s \o c, Len(s) + i)
  PROVE  LineAt(s \o c, Len(s) + k + 1) = LineAfter(LineAt(s, Len(s) + 1), SubSeq(c, 1, k))
<1> DEFINE t == s \o c
<1> DEFINE d == SubSeq(c, 1, k)
<1>0. PICK n \in Nat : n = Len(s) OBVIOUS
<1>t. /\ t \in Seq(Bytes) /\ Len(t) = n + Len(c) /\ (\A i \in 1 .. n : t[i] = s[i])
      /\ \A i \in 1 .. Len(c) : t[n + i] = c[i]
  BY <1>0
<1>d. d \in Seq(Bytes) /\ Len(d) = k /\ DOMAIN d = 1 .. k /\ \A i \in 1 .. k : d[i] = t[n + i] BY <1>t
<1>n. \A i \in 1 .. Len(c) : ~IsPrompt(t, n + i) BY <1>0
<1> HIDE DEF t, d
<1>kept. LineText(t, n + 1) = LineText(s, n + 1)
  <2>1. Len(s) <= Len(t) /\ \A i \in 1 .. Len(s) : t[i] = s[i] BY <1>0, <1>t
  <2>2. \A i \in 1 .. Len(s) + 1 : LineText(t, i) = LineText(s, i) BY <1>t, <2>1, MeaningKept
  <2>3. n + 1 \in 1 .. Len(s) + 1 BY <1>0
  <2> QED BY <2>2, <2>3
<1> DEFINE L == LineText(t, n + k + 1)
<1> DEFINE before == LineText(s, n + 1)
<1>1. ASSUME NEW j \in 1 .. k PROVE n + j \in L <=> j \in Begun(d)
  <2>1. ~IsPrompt(t, n + j) /\ t[n + j] = d[j] /\ n + j \in 1 .. n + k + 1 - 1 BY <1>n, <1>d
  <2>2. (\A x \in n + j .. n + k + 1 - 1 : t[x] # "nl") <=> \A y \in LineEnds(d) : y < j
    <3>1. ASSUME \A x \in n + j .. n + k + 1 - 1 : t[x] # "nl", NEW y \in LineEnds(d) PROVE y < j
      <4>1. y \in 1 .. k /\ d[y] = "nl" BY <1>d DEF LineEnds
      <4>2. t[n + y] = "nl" BY <1>d, <4>1
      <4>3. ~(n + y \in n + j .. n + k + 1 - 1) BY <3>1, <4>2
      <4> QED BY <4>1, <4>3
    <3>2. ASSUME \A y \in LineEnds(d) : y < j, NEW x \in n + j .. n + k + 1 - 1, t[x] = "nl" PROVE FALSE
      <4>1. PICK y \in 1 .. k : y = x - n OBVIOUS
      <4>2. d[y] = t[n + y] /\ n + y = x BY <1>d, <4>1
      <4>3. y \in LineEnds(d) BY <1>d, <3>2, <4>2 DEF LineEnds
      <4> QED BY <3>2, <4>1, <4>3
    <3> QED BY <3>1, <3>2
  <2>3. j \in Begun(d) <=> d[j] # "sp" /\ \A y \in LineEnds(d) : y < j BY <1>d DEF Begun
  <2>4. n + j \in L <=> t[n + j] # "sp" /\ \A x \in n + j .. n + k + 1 - 1 : t[x] # "nl" BY <2>1 DEF LineText
  <2> HIDE DEF L
  <2> QED BY <2>1, <2>2, <2>3, <2>4
<1>2. ASSUME NEW j \in 1 .. n PROVE j \in L <=> j \in before /\ LineEnds(d) = {}
  <2>1. j \in 1 .. n + k + 1 - 1 /\ j \in 1 .. n + 1 - 1 OBVIOUS
  <2>2. (\A x \in j .. n + k + 1 - 1 : t[x] # "nl") <=>
        (\A x \in j .. n + 1 - 1 : t[x] # "nl") /\ LineEnds(d) = {}
    <3>1. ASSUME \A x \in j .. n + k + 1 - 1 : t[x] # "nl" PROVE (\A x \in j .. n + 1 - 1 : t[x] # "nl") /\ LineEnds(d) = {}
      <4>1. ASSUME NEW y \in LineEnds(d) PROVE FALSE
        <5>1. y \in 1 .. k /\ d[y] = "nl" BY <1>d DEF LineEnds
        <5>2. t[n + y] = "nl" /\ n + y \in j .. n + k + 1 - 1 BY <1>d, <5>1
        <5> QED BY <3>1, <5>2
      <4>2. \A x \in j .. n + 1 - 1 : x \in j .. n + k + 1 - 1 OBVIOUS
      <4> QED BY <3>1, <4>1, <4>2
    <3>2. ASSUME \A x \in j .. n + 1 - 1 : t[x] # "nl", LineEnds(d) = {},
                 NEW x \in j .. n + k + 1 - 1, t[x] = "nl"
          PROVE  FALSE
      <4>1. ~(x \in j .. n + 1 - 1) BY <3>2
      <4>2. PICK y \in 1 .. k : y = x - n BY <4>1
      <4>3. d[y] = t[n + y] /\ n + y = x BY <1>d, <4>2
      <4>4. y \in LineEnds(d) BY <1>d, <3>2, <4>3 DEF LineEnds
      <4> QED BY <3>2, <4>4
    <3> QED BY <3>1, <3>2
  <2>3. j \in L <=> ~IsPrompt(t, j) /\ t[j] # "sp" /\ \A x \in j .. n + k + 1 - 1 : t[x] # "nl" BY <2>1 DEF LineText
  <2>4. j \in LineText(t, n + 1) <=> ~IsPrompt(t, j) /\ t[j] # "sp" /\ \A x \in j .. n + 1 - 1 : t[x] # "nl"
    BY <2>1 DEF LineText
  <2> HIDE DEF L
  <2> QED BY <1>kept, <2>2, <2>3, <2>4
<1>3. L \subseteq 1 .. n + k /\ before \subseteq 1 .. n /\ Begun(d) \subseteq 1 .. k BY <1>d DEF LineText, Begun
<1>4. L \subseteq Nat /\ before \subseteq Nat /\ Begun(d) \subseteq Nat BY <1>3
<1>v. LineAt(t, n + k + 1) = (IF L = {} THEN "none" ELSE IF t[Min(L)] = "ets" THEN "banner" ELSE "text")
  BY DEF LineAt
<1>w. LineAt(s, n + 1) = (IF before = {} THEN "none" ELSE IF s[Min(before)] = "ets" THEN "banner" ELSE "text")
  BY DEF LineAt
<1> HIDE DEF L, before
<1>5. CASE LineEnds(d) = {} /\ before # {}
  <2>1. Min(before) \in before /\ \A y \in before : Min(before) <= y BY <1>4, <1>5, Least
  <2>2. PICK m \in 1 .. n : m = Min(before) BY <1>3, <2>1
  <2>3. m \in L BY <1>2, <1>5, <2>1, <2>2
  <2>4. ASSUME NEW y \in L PROVE m <= y
    <3>1. CASE y <= n
      <4>1. y \in 1 .. n BY <1>3, <3>1
      <4> QED BY <1>2, <2>1, <2>2, <4>1
    <3>2. CASE ~(y <= n) BY <1>3, <3>2
    <3> QED BY <3>1, <3>2
  <2>5. Min(L) = m BY <1>4, <2>3, <2>4, LeastIs
  <2>6. t[m] = s[m] BY <1>t
  <2>7. LineAt(t, n + k + 1) = LineAt(s, n + 1) /\ LineAt(s, n + 1) # "none" BY <1>5, <1>v, <1>w, <2>2, <2>3, <2>5, <2>6
  <2>8. LineAfter(LineAt(s, n + 1), d) = LineAt(s, n + 1) BY <1>5, <2>7 DEF LineAfter
  <2> QED BY <1>0, <2>7, <2>8 DEF t, d
<1>6. CASE ~(LineEnds(d) = {} /\ before # {})
  <2>1. LineAfter(LineAt(s, n + 1), d) =
          IF Begun(d) = {} THEN "none" ELSE IF d[Min(Begun(d))] = "ets" THEN "banner" ELSE "text"
    BY <1>6, <1>w DEF LineAfter
  <2>2. ASSUME NEW y \in L PROVE y - n \in Begun(d) /\ y - n \in 1 .. k
    <3>1. ~(y \in 1 .. n) BY <1>2, <1>6
    <3>2. PICK j \in 1 .. k : j = y - n BY <1>3, <3>1
    <3>3. n + j = y BY <1>3, <3>2
    <3>4. j \in Begun(d) BY <1>1, <3>3
    <3> QED BY <3>2, <3>4
  <2>3. CASE Begun(d) = {}
    <3>1. L = {} BY <2>2, <2>3
    <3> QED BY <1>0, <1>v, <2>1, <2>3, <3>1 DEF t, d
  <2>4. CASE Begun(d) # {}
    <3>1. Min(Begun(d)) \in Begun(d) /\ \A y \in Begun(d) : Min(Begun(d)) <= y BY <1>4, <2>4, Least
    <3>2. PICK m \in 1 .. k : m = Min(Begun(d)) BY <1>3, <3>1
    <3>3. n + m \in L BY <1>1, <3>1, <3>2
    <3>4. ASSUME NEW y \in L PROVE n + m <= y
      <4>1. y - n \in Begun(d) /\ y - n \in 1 .. k BY <2>2
      <4>2. m <= y - n BY <3>1, <3>2, <4>1
      <4> QED BY <1>3, <4>2
    <3>5. Min(L) = n + m BY <1>4, <3>3, <3>4, LeastIs
    <3>6. t[n + m] = d[m] BY <1>d
    <3> QED BY <1>0, <1>v, <2>1, <2>4, <3>2, <3>3, <3>5, <3>6 DEF t, d
  <2> QED BY <2>3, <2>4
<1> QED BY <1>5, <1>6

LEMMA Joined ==
  ASSUME NEW T, NEW a \in Seq(T), NEW b \in Seq(T)
  PROVE  /\ a \o b \in Seq(T) /\ Len(a \o b) = Len(a) + Len(b)
         /\ \A i \in 1 .. Len(a) : (a \o b)[i] = a[i]
         /\ \A i \in Len(a) + 1 .. Len(a) + Len(b) : (a \o b)[i] = b[i - Len(a)]
OBVIOUS

\* The lines of a stretch without a prompt that a banner ends.
BannersOn(s, c) == {k \in 1 .. Len(c) : EndsBanner(s \o c, Len(s) + k)}

\* What the bytes of a stretch without a prompt mean.
LEMMA MeaningOn ==
  ASSUME NEW s \in Seq(Bytes), Unheld(s), NEW c \in Seq(Bytes),
         \A i \in 1 .. Len(c) : ~IsPrompt(s \o c, Len(s) + i)
  PROVE  /\ BannersOn(s, c) =
              {i \in DOMAIN c : c[i] = "nl" /\ LineAfter(LineAt(s, Len(s) + 1), SubSeq(c, 1, i - 1)) = "banner"}
         /\ \A k \in 0 .. Len(c) : InReset(s \o c, Len(s) + k + 1) <=>
              InReset(s, Len(s) + 1) \/ \E j \in BannersOn(s, c) : j <= k
         /\ \A k \in 1 .. Len(c) : Meaning(s \o c, Len(s) + k) =
              IF k \in BannersOn(s, c) /\ ~InReset(s, Len(s) + 1) /\ \A j \in BannersOn(s, c) : k <= j
              THEN <<"nl", "reset">> ELSE <<c[k]>>
<1> DEFINE t == s \o c
<1> DEFINE B == BannersOn(s, c)
<1>0. PICK n \in Nat : n = Len(s) OBVIOUS
<1>m. PICK m \in Nat : m = Len(c) /\ DOMAIN c = 1 .. m OBVIOUS
<1>t. /\ t \in Seq(Bytes) /\ Len(t) = n + m /\ (\A i \in 1 .. n : t[i] = s[i])
      /\ \A i \in 1 .. m : t[n + i] = c[i]
  BY <1>0, <1>m
<1>n. \A i \in 1 .. m : ~IsPrompt(t, n + i) BY <1>0, <1>m
<1>b. B = {k \in 1 .. m : EndsBanner(t, n + k)} BY <1>0, <1>m DEF BannersOn
<1> HIDE DEF t, B
<1>f. Len(s) <= Len(t) /\ \A i \in 1 .. Len(s) : t[i] = s[i] BY <1>0, <1>t
<1>kept. /\ \A i \in 1 .. n : IsPrompt(t, i) <=> IsPrompt(s, i)
         /\ \A i \in 1 .. n + 1 : InReset(t, i) <=> InReset(s, i)
  BY <1>0, <1>f, <1>t, MeaningKept
<1>1. ASSUME NEW k \in 1 .. m
      PROVE  EndsBanner(t, n + k) <=> c[k] = "nl" /\ LineAfter(LineAt(s, n + 1), SubSeq(c, 1, k - 1)) = "banner"
  <2>1. PICK h \in 0 .. Len(c) : h = k - 1 /\ n + h + 1 = n + k BY <1>m
  <2>2. LineAt(s \o c, Len(s) + h + 1) = LineAfter(LineAt(s, Len(s) + 1), SubSeq(c, 1, h)) BY LineOn
  <2>3. LineAt(t, n + k) = LineAfter(LineAt(s, n + 1), SubSeq(c, 1, k - 1)) BY <1>0, <2>1, <2>2 DEF t
  <2>4. EndsBanner(t, n + k) <=> t[n + k] = "nl" /\ LineAt(t, n + k) = "banner" BY DEF EndsBanner, LineAt
  <2>5. t[n + k] = c[k] BY <1>t
  <2> QED BY <2>3, <2>4, <2>5
<1>2. B = {i \in DOMAIN c : c[i] = "nl" /\ LineAfter(LineAt(s, Len(s) + 1), SubSeq(c, 1, i - 1)) = "banner"}
  BY <1>0, <1>1, <1>b, <1>m
<1>3. ASSUME NEW k \in 0 .. m
      PROVE  InReset(t, n + k + 1) <=> InReset(s, n + 1) \/ \E j \in B : j <= k
  <2>1. InReset(t, n + 1) <=> InReset(s, n + 1) BY <1>kept
  <2>2. ASSUME InReset(t, n + 1) PROVE InReset(t, n + k + 1)
    <3>1. PICK j \in 1 .. n + 1 - 1 : EndsBanner(t, j) /\ \A x \in j .. n + 1 - 1 : ~IsPrompt(t, x) BY <2>2 DEF InReset
    <3>2. ASSUME NEW x \in j .. n + k + 1 - 1 PROVE ~IsPrompt(t, x)
      <4>1. CASE x <= n BY <3>1, <4>1
      <4>2. CASE ~(x <= n)
        <5>1. PICK y \in 1 .. m : y = x - n BY <4>2
        <5>2. n + y = x BY <5>1
        <5>3. ~IsPrompt(t, n + y) BY <1>n
        <5> QED BY <5>2, <5>3
      <4> QED BY <4>1, <4>2
    <3>3. j \in 1 .. n + k + 1 - 1 OBVIOUS
    <3> QED BY <3>1, <3>2, <3>3 DEF InReset
  <2>3. ASSUME NEW i \in B, i <= k PROVE InReset(t, n + k + 1)
    <3>1. i \in 1 .. m /\ EndsBanner(t, n + i) BY <1>b
    <3>2. PICK j \in 1 .. n + k + 1 - 1 : j = n + i BY <2>3, <3>1
    <3>3. ASSUME NEW x \in j .. n + k + 1 - 1 PROVE ~IsPrompt(t, x)
      <4>1. PICK y \in 1 .. m : y = x - n BY <3>1, <3>2
      <4>2. n + y = x BY <3>2, <4>1
      <4>3. ~IsPrompt(t, n + y) BY <1>n
      <4> QED BY <4>2, <4>3
    <3> QED BY <3>1, <3>2, <3>3 DEF InReset
  <2>4. ASSUME InReset(t, n + k + 1) PROVE InReset(t, n + 1) \/ \E j \in B : j <= k
    <3>1. PICK j \in 1 .. n + k + 1 - 1 : EndsBanner(t, j) /\ \A x \in j .. n + k + 1 - 1 : ~IsPrompt(t, x)
      BY <2>4 DEF InReset
    <3>2. CASE j <= n
      <4>1. j \in 1 .. n + 1 - 1 BY <3>2
      <4>2. \A x \in j .. n + 1 - 1 : x \in j .. n + k + 1 - 1 OBVIOUS
      <4> QED BY <3>1, <4>1, <4>2 DEF InReset
    <3>3. CASE ~(j <= n)
      <4>1. PICK y \in 1 .. m : y = j - n /\ y <= k BY <3>3
      <4>2. n + y = j BY <4>1
      <4>3. y \in B BY <1>b, <3>1, <4>2
      <4> QED BY <4>1, <4>3
    <3> QED BY <3>2, <3>3
  <2> QED BY <2>1, <2>2, <2>3, <2>4
<1>4. ASSUME NEW k \in 1 .. m
      PROVE  Meaning(t, n + k) = IF k \in B /\ ~InReset(s, n + 1) /\ \A j \in B : k <= j
                                 THEN <<"nl", "reset">> ELSE <<c[k]>>
  <2>1. ~IsPrompt(t, n + k) BY <1>n
  <2>2. ~IsPrompt(t, n + k - 1)
    <3>1. CASE k = 1
      <4>1. n + k - 1 = n BY <3>1
      <4>2. ~IsPrompt(t, n)
        <5>1. CASE n = 0 BY <5>1 DEF IsPrompt
        <5>2. CASE n # 0
          <6>1. n \in 1 .. n BY <5>2
          <6>2. IsPrompt(t, n) <=> IsPrompt(s, n) BY <1>kept, <6>1
          <6>3. ~IsPrompt(s, n) BY <1>0 DEF IsPrompt
          <6> QED BY <6>2, <6>3
        <5> QED BY <5>1, <5>2
      <4> QED BY <4>1, <4>2
    <3>2. CASE k # 1
      <4>1. PICK y \in 1 .. m : y = k - 1 BY <3>2
      <4>2. ~IsPrompt(t, n + y) /\ n + y = n + k - 1 BY <1>n, <4>1
      <4> QED BY <4>2
    <3> QED BY <3>1, <3>2
  <2>3. EndsBanner(t, n + k) <=> k \in B BY <1>b
  <2>4. InReset(t, n + k) <=> InReset(s, n + 1) \/ \E j \in B : j < k
    <3>1. PICK h \in 0 .. m : h = k - 1 /\ n + h + 1 = n + k OBVIOUS
    <3>2. InReset(t, n + h + 1) <=> InReset(s, n + 1) \/ \E j \in B : j <= h BY <1>3
    <3>3. \A j \in B : j <= h <=> j < k BY <1>b, <3>1
    <3> QED BY <3>1, <3>2, <3>3
  <2>5. t[n + k] = c[k] BY <1>t
  <2>6. (\A j \in B : k <= j) <=> ~\E j \in B : j < k
    <3>1. B \subseteq Nat BY <1>b
    <3>2. \A j \in B : k <= j <=> ~(j < k) BY <3>1
    <3> QED BY <3>2
  <2> QED BY <2>1, <2>2, <2>3, <2>4, <2>5, <2>6 DEF Meaning, EndsBanner
<1> QED BY <1>0, <1>2, <1>3, <1>4, <1>m DEF t, B

\* What is told of bytes that follow others.
LEMMA ToldMore ==
  ASSUME NEW s \in Seq(Bytes), Unheld(s), NEW c \in Seq(Bytes)
  PROVE  /\ Told(s) \in Seq(Symbols)
         /\ [k \in 1 .. Len(c) |-> Meaning(s \o c, Len(s) + k)] \in Seq(Seq(Symbols))
         /\ Told(s \o c) = Told(s) \o FlattenSeq([k \in 1 .. Len(c) |-> Meaning(s \o c, Len(s) + k)])
<1> DEFINE t == s \o c
<1>0. PICK n \in Nat : n = Len(s) OBVIOUS
<1>m. PICK m \in Nat : m = Len(c) OBVIOUS
<1>t. t \in Seq(Bytes) /\ Len(t) = n + m /\ \A i \in 1 .. n : t[i] = s[i] BY <1>0, <1>m
<1> HIDE DEF t
<1>f. Len(s) <= Len(t) /\ \A i \in 1 .. Len(s) : t[i] = s[i] BY <1>0, <1>t
<1>kept. \A i \in 1 .. n : Meaning(t, i) = Meaning(s, i) BY <1>0, <1>f, <1>t, MeaningKept
<1> DEFINE S == Seq(Symbols)
<1>1. \A i \in 1 .. n + m : Meaning(t, i) \in S BY <1>t, MeaningType
<1>2. \A i \in 1 .. n : Meaning(s, i) \in S BY <1>0, MeaningType
<1> DEFINE more == [k \in 1 .. m |-> Meaning(t, n + k)]
<1> HIDE DEF S
<1>3. more \in Seq(S) /\ Len(more) = m
  <2>1. \A k \in 1 .. m : n + k \in 1 .. n + m OBVIOUS
  <2>2. \A k \in 1 .. m : Meaning(t, n + k) \in S BY <1>1, <2>1
  <2> QED BY <2>2
<1>4. Meanings(s) \in Seq(S) /\ Meanings(t) \in Seq(S) /\ Len(Meanings(s)) = n /\ Len(Meanings(t)) = n + m
  BY <1>0, <1>t, MeaningsType DEF S
<1>5. \A i \in 1 .. n : Meanings(s)[i] = Meaning(s, i) BY <1>0 DEF Meanings
<1>6. \A i \in 1 .. n + m : Meanings(t)[i] = Meaning(t, i) BY <1>t DEF Meanings
<1>7. \A k \in 1 .. m : more[k] = Meaning(t, n + k) OBVIOUS
<1> HIDE DEF more
<1> DEFINE both == Meanings(s) \o more
<1>8. /\ both \in Seq(S) /\ Len(both) = n + m /\ (\A i \in 1 .. n : both[i] = Meanings(s)[i])
      /\ \A i \in n + 1 .. n + m : both[i] = more[i - n]
  BY <1>3, <1>4, Joined
<1> HIDE DEF both
<1>9. ASSUME NEW i \in 1 .. n + m PROVE Meanings(t)[i] = both[i]
  <2>1. CASE i <= n
    <3>1. i \in 1 .. n BY <2>1
    <3> QED BY <1>kept, <1>5, <1>6, <1>8, <3>1
  <2>2. CASE ~(i <= n)
    <3>1. i \in n + 1 .. n + m BY <2>2
    <3>2. PICK k \in 1 .. m : k = i - n BY <2>2
    <3>3. both[i] = more[k] BY <1>8, <3>1, <3>2
    <3>4. more[k] = Meaning(t, n + k) /\ n + k = i BY <1>7, <3>2
    <3> QED BY <1>6, <3>3, <3>4
  <2> QED BY <2>1, <2>2
<1>10. Meanings(t) = both BY <1>4, <1>8, <1>9, SeqEqual
<1>11. Told(s) \in S /\ FlattenSeq(both) = Told(s) \o FlattenSeq(more)
  BY <1>3, <1>4, FlatConcat DEF Told, S, both
<1> QED BY <1>0, <1>3, <1>10, <1>11, <1>m DEF t, S, more, Told

-----------------------------------------------------------------------------
(* The pump *)

Notices == {"reset", "restored", "prompt", "error"}
Events == {Chunk(c) : c \in Seq(Bytes)} \cup {Event(k) : k \in Notices}
PumpLines == {"none", "text", "banner"}
Pumps == [line : PumpLines, start : BOOLEAN, reset : BOOLEAN, held : BOOLEAN, on : BOOLEAN, out : Seq(Events)]

\* The pump has taken the bytes s.
After(p, s) ==
  /\ p \in Pumps
  /\ p.start <=> s = <<>> \/ s[Len(s)] = "nl"
  /\ p.line = LineAt(s, Len(s) + 1)
  /\ p.reset <=> InReset(s, Len(s) + 1)
  /\ Unheld(s)
\* What it told before, and what it is about to, is their meaning.
Heard(p, s, o) == o \o Flat(p.out) = Told(s)

\* The text of an event, and of events one after another.
LEMMA EventText ==
  /\ \A c \in Seq(Bytes) : Chunk(c) \in Events /\ TextOf(Chunk(c)) = c
  /\ \A k \in Notices : Event(k) \in Events /\ TextOf(Event(k)) = <<k>>
  /\ \A e \in Events : TextOf(e) \in Seq(Symbols)
  /\ \A c \in Seq(Bytes) : c \in Seq(Symbols)
<1>1. ASSUME NEW c \in Seq(Bytes) PROVE Chunk(c) \in Events /\ TextOf(Chunk(c)) = c
  BY DEF Events, Chunk, TextOf
<1>2. ASSUME NEW k \in Notices PROVE Event(k) \in Events /\ TextOf(Event(k)) = <<k>>
  BY DEF Events, Event, TextOf, Notices
<1>3. ASSUME NEW c \in Seq(Bytes) PROVE c \in Seq(Symbols) BY DEF Symbols
<1>4. ASSUME NEW k \in Notices PROVE <<k>> \in Seq(Symbols) BY DEF Symbols, Notices
<1>5. ASSUME NEW e \in Events PROVE TextOf(e) \in Seq(Symbols)
  <2>1. CASE \E c \in Seq(Bytes) : e = Chunk(c) BY <1>1, <1>3, <2>1
  <2>2. CASE \E k \in Notices : e = Event(k) BY <1>2, <1>4, <2>2
  <2> QED BY <2>1, <2>2 DEF Events
<1> QED BY <1>1, <1>2, <1>3, <1>5

LEMMA FlatEvents ==
  /\ Flat(<<>>) = <<>>
  /\ \A e \in Events : Flat(<<e>>) = TextOf(e)
  /\ \A es, fs \in Seq(Events) : Flat(es) \in Seq(Symbols) /\ Flat(es \o fs) = Flat(es) \o Flat(fs)
<1> DEFINE texts(es) == [i \in DOMAIN es |-> TextOf(es[i])]
<1> DEFINE S == Seq(Symbols)
<1>t. \A e \in Events : TextOf(e) \in S BY EventText
<1>1. Flat(<<>>) = <<>>
  <2>1. [i \in DOMAIN <<>> |-> TextOf(<<>>[i])] = <<>> OBVIOUS
  <2> QED BY <2>1, FlatEmpty DEF Flat
<1>2. ASSUME NEW e \in Events PROVE Flat(<<e>>) = TextOf(e)
  <2>1. texts(<<e>>) = <<TextOf(e)>> OBVIOUS
  <2>2. FlattenSeq(<<TextOf(e)>>) = TextOf(e) BY <1>t, FlatOne
  <2> QED BY <2>1, <2>2 DEF Flat
<1>3. ASSUME NEW es \in Seq(Events)
      PROVE  texts(es) \in Seq(S) /\ Len(texts(es)) = Len(es) /\ \A i \in 1 .. Len(es) : texts(es)[i] = TextOf(es[i])
  <2>1. DOMAIN es = 1 .. Len(es) /\ Len(es) \in Nat /\ \A i \in 1 .. Len(es) : es[i] \in Events OBVIOUS
  <2>2. \A i \in 1 .. Len(es) : TextOf(es[i]) \in S BY <1>t, <2>1
  <2> HIDE DEF S
  <2> QED BY <2>1, <2>2
<1>4. ASSUME NEW es \in Seq(Events), NEW fs \in Seq(Events)
      PROVE  Flat(es) \in S /\ Flat(es \o fs) = Flat(es) \o Flat(fs)
  <2>m. PICK m \in Nat : m = Len(es) OBVIOUS
  <2>n. PICK n \in Nat : n = Len(fs) OBVIOUS
  <2> DEFINE all == es \o fs
  <2>0. /\ all \in Seq(Events) /\ Len(all) = m + n
        /\ (\A i \in 1 .. m : all[i] = es[i]) /\ \A i \in m + 1 .. m + n : all[i] = fs[i - m]
    BY <2>m, <2>n, Joined
  <2> HIDE DEF all, texts, S
  <2>1. texts(es) \in Seq(S) /\ Len(texts(es)) = m /\ \A i \in 1 .. m : texts(es)[i] = TextOf(es[i]) BY <1>3, <2>m
  <2>2. texts(fs) \in Seq(S) /\ Len(texts(fs)) = n /\ \A i \in 1 .. n : texts(fs)[i] = TextOf(fs[i]) BY <1>3, <2>n
  <2>3. texts(all) \in Seq(S) /\ Len(texts(all)) = m + n /\ \A i \in 1 .. m + n : texts(all)[i] = TextOf(all[i])
    BY <1>3, <2>0
  <2> DEFINE both == texts(es) \o texts(fs)
  <2>4. /\ both \in Seq(S) /\ Len(both) = m + n
        /\ (\A i \in 1 .. m : both[i] = texts(es)[i]) /\ \A i \in m + 1 .. m + n : both[i] = texts(fs)[i - m]
    <3>1. PICK x \in Seq(S) : x = texts(es) /\ Len(x) = m BY <2>1
    <3>2. PICK y \in Seq(S) : y = texts(fs) /\ Len(y) = n BY <2>2
    <3>3. /\ x \o y \in Seq(S) /\ Len(x \o y) = Len(x) + Len(y)
          /\ (\A i \in 1 .. Len(x) : (x \o y)[i] = x[i])
          /\ \A i \in Len(x) + 1 .. Len(x) + Len(y) : (x \o y)[i] = y[i - Len(x)]
      BY Joined, Zenon
    <3> QED BY <3>1, <3>2, <3>3, Zenon
  <2> HIDE DEF both
  <2>5. ASSUME NEW i \in 1 .. m + n PROVE texts(all)[i] = both[i]
    <3>1. CASE i <= m
      <4>1. i \in 1 .. m BY <3>1
      <4> QED BY <2>0, <2>1, <2>3, <2>4, <4>1
    <3>2. CASE ~(i <= m)
      <4>1. i \in m + 1 .. m + n BY <3>2
      <4>2. PICK k \in 1 .. n : k = i - m BY <3>2
      <4>3. all[i] = fs[k] /\ both[i] = texts(fs)[k] BY <2>0, <2>4, <4>1, <4>2
      <4>4. texts(fs)[k] = TextOf(fs[k]) BY <2>2
      <4> QED BY <2>3, <4>3, <4>4
    <3> QED BY <3>1, <3>2
  <2>6. texts(all) = both BY <2>3, <2>4, <2>5, SeqEqual
  <2>7. Flat(es) = FlattenSeq(texts(es)) /\ Flat(fs) = FlattenSeq(texts(fs)) /\ Flat(all) = FlattenSeq(texts(all))
    BY DEF Flat, texts
  <2>8. FlattenSeq(texts(es)) \in S /\ FlattenSeq(both) = FlattenSeq(texts(es)) \o FlattenSeq(texts(fs))
    BY <2>1, <2>2, FlatConcat DEF S, both
  <2> QED BY <2>6, <2>7, <2>8 DEF all
<1> QED BY <1>1, <1>2, <1>4

\* What is told of a stretch without a prompt.
LEMMA ToldOn ==
  ASSUME NEW s \in Seq(Bytes), Unheld(s), NEW c \in Seq(Bytes),
         \A i \in 1 .. Len(c) : ~IsPrompt(s \o c, Len(s) + i)
  PROVE  Told(s \o c) = Told(s) \o
           IF InReset(s, Len(s) + 1) \/ BannersOn(s, c) = {} THEN c
           ELSE SubSeq(c, 1, Min(BannersOn(s, c))) \o (<<"reset">> \o SubSeq(c, Min(BannersOn(s, c)) + 1, Len(c)))
<1> DEFINE B == BannersOn(s, c)
<1> DEFINE more == [k \in 1 .. Len(c) |-> Meaning(s \o c, Len(s) + k)]
<1>1. Told(s \o c) = Told(s) \o FlattenSeq(more) /\ more \in Seq(Seq(Symbols)) BY ToldMore
<1>2. \A k \in 1 .. Len(c) : Meaning(s \o c, Len(s) + k) =
              IF k \in B /\ ~InReset(s, Len(s) + 1) /\ \A j \in B : k <= j THEN <<"nl", "reset">> ELSE <<c[k]>>
  BY MeaningOn
<1>3. B \subseteq 1 .. Len(c) /\ \A k \in B : c[k] = "nl"
  <2>1. B = {i \in DOMAIN c : c[i] = "nl" /\ LineAfter(LineAt(s, Len(s) + 1), SubSeq(c, 1, i - 1)) = "banner"}
    BY MeaningOn
  <2> HIDE DEF B
  <2> QED BY <2>1
<1>4. Len(more) = Len(c) /\ c \in Seq(Symbols) BY EventText
<1>5. \A k \in 1 .. Len(c) : more[k] = Meaning(s \o c, Len(s) + k) OBVIOUS
<1> HIDE DEF B, more
<1>6. CASE InReset(s, Len(s) + 1) \/ B = {}
  <2>1. \A k \in 1 .. Len(c) : more[k] = <<c[k]>> BY <1>2, <1>5, <1>6
  <2>2. FlattenSeq(more) = c BY <1>1, <1>4, <2>1, FlatSingles
  <2> QED BY <1>1, <1>6, <2>2 DEF B
<1>7. CASE ~(InReset(s, Len(s) + 1) \/ B = {})
  <2>m. PICK m \in Nat : m = Len(c) OBVIOUS
  <2>0. B \subseteq Nat BY <1>3
  <2>1. Min(B) \in B /\ \A j \in B : Min(B) <= j BY <1>7, <2>0, Least
  <2>2. PICK b \in 1 .. m : b = Min(B) BY <1>3, <2>1, <2>m
  <2>3. more[b] = <<"nl", "reset">> BY <1>2, <1>5, <1>7, <2>1, <2>2, <2>m
  <2>4. ASSUME NEW k \in 1 .. m, k # b PROVE more[k] = <<c[k]>>
    <3>1. ~(k \in B /\ \A j \in B : k <= j)
      <4>1. SUFFICES ASSUME k \in B, k <= b PROVE FALSE BY <2>1, <2>2
      <4>2. b <= k BY <2>1, <2>2, <4>1
      <4> QED BY <2>4, <4>1, <4>2
    <3> QED BY <1>2, <1>5, <2>m, <3>1
  <2> DEFINE S == Seq(Symbols)
  <2>5. more \in Seq(S) /\ Len(more) = m BY <1>1, <1>4, <2>m
  <2>6. c \in Seq(Symbols) /\ Len(c) = m /\ c[b] = "nl" BY <1>3, <1>4, <2>1, <2>2, <2>m
  <2> DEFINE front == SubSeq(more, 1, b - 1)
  <2> DEFINE back == SubSeq(more, b + 1, m)
  <2> DEFINE start == SubSeq(c, 1, b - 1)
  <2> DEFINE end == SubSeq(c, b + 1, m)
  <2>7. start \in Seq(Symbols) /\ Len(start) = b - 1 /\ \A k \in 1 .. b - 1 : start[k] = c[k] BY <2>6
  <2>8. end \in Seq(Symbols) /\ Len(end) = m - b /\ \A k \in 1 .. m - b : end[k] = c[b + k] BY <2>6
  <2> HIDE DEF S
  <2>9. front \in Seq(S) /\ Len(front) = b - 1 /\ \A k \in 1 .. b - 1 : front[k] = more[k] BY <2>5
  <2>10. back \in Seq(S) /\ Len(back) = m - b /\ \A k \in 1 .. m - b : back[k] = more[b + k] BY <2>5
  <2>11. more = front \o (<<more[b]>> \o back)
    <3>1. more[b] \in S BY <2>5
    <3>2. <<more[b]>> \in Seq(S) BY <3>1
    <3>3. 1 \in 1 .. Len(more) /\ b \in 1 .. Len(more) /\ m \in b .. Len(more) BY <2>5
    <3>4. SubSeq(more, b, m) = <<more[b]>> \o SubSeq(more, b + 1, m) BY <2>5, <3>3, SubSeqRecursiveFirst
    <3>5. SubSeq(more, 1, m) = SubSeq(more, 1, b - 1) \o SubSeq(more, b - 1 + 1, m)
      <4>1. 1 \in 1 .. Len(more) + 1 /\ b - 1 \in 1 - 1 .. Len(more) /\ m \in b - 1 .. Len(more) BY <2>5
      <4> QED BY <2>5, <4>1, ConcatAdjacentSubSeq
    <3>6. SubSeq(more, 1, m) = more BY <2>5, SubSeqFull
    <3>7. b - 1 + 1 = b OBVIOUS
    <3> QED BY <3>4, <3>5, <3>6, <3>7
  <2> HIDE DEF front, back, start, end
  <2>12. FlattenSeq(front) = start
    <3>1. ASSUME NEW k \in 1 .. b - 1 PROVE front[k] = <<start[k]>>
      <4>1. k \in 1 .. m /\ k # b OBVIOUS
      <4> QED BY <2>4, <2>7, <2>9, <4>1
    <3>2. front \in Seq(Seq(Symbols)) BY <2>9 DEF S
    <3>3. Len(front) = Len(start) /\ \A k \in 1 .. Len(start) : front[k] = <<start[k]>> BY <2>7, <2>9, <3>1
    <3> QED BY <2>7, <3>2, <3>3, FlatSingles
  <2>13. FlattenSeq(back) = end
    <3>1. ASSUME NEW k \in 1 .. m - b PROVE back[k] = <<end[k]>>
      <4>1. PICK j \in 1 .. m : j = b + k /\ j # b OBVIOUS
      <4>2. more[j] = <<c[j]>> BY <2>4, <4>1
      <4> QED BY <2>8, <2>10, <4>1, <4>2
    <3>2. back \in Seq(Seq(Symbols)) BY <2>10 DEF S
    <3>3. Len(back) = Len(end) /\ \A k \in 1 .. Len(end) : back[k] = <<end[k]>> BY <2>8, <2>10, <3>1
    <3> QED BY <2>8, <3>2, <3>3, FlatSingles
  <2>14. <<"nl", "reset">> \in Seq(Symbols) /\ <<"nl">> \in Seq(Symbols) /\ <<"reset">> \in Seq(Symbols)
    BY DEF Symbols, Bytes
  <2>15. FlattenSeq(more) = start \o (<<"nl", "reset">> \o end)
    <3>1. more[b] \in S /\ <<more[b]>> \in Seq(S) BY <2>3, <2>14 DEF S
    <3>2. <<more[b]>> \o back \in Seq(S) BY <3>1, <2>10
    <3>3. FlattenSeq(more) = FlattenSeq(front) \o FlattenSeq(<<more[b]>> \o back) BY <2>9, <2>11, <3>2, FlatConcat DEF S
    <3>4. FlattenSeq(<<more[b]>> \o back) = FlattenSeq(<<more[b]>>) \o FlattenSeq(back) BY <2>10, <3>1, FlatConcat DEF S
    <3>5. FlattenSeq(<<more[b]>>) = more[b] BY <3>1, FlatOne DEF S
    <3> QED BY <2>3, <2>12, <2>13, <3>3, <3>4, <3>5
  <2>16. SubSeq(c, 1, b) = start \o <<"nl">>
    <3>1. 1 \in 1 .. Len(c) /\ b \in 1 .. Len(c) BY <2>6
    <3> QED BY <2>6, <3>1, SubSeqRecursiveSecond DEF start
  <2>17. <<"nl", "reset">> = <<"nl">> \o <<"reset">> OBVIOUS
  <2>18. start \o ((<<"nl">> \o <<"reset">>) \o end) = (start \o <<"nl">>) \o (<<"reset">> \o end)
    <3> HIDE DEF Symbols
    <3>1. <<"reset">> \o end \in Seq(Symbols) BY <2>8, <2>14
    <3>2. (<<"nl">> \o <<"reset">>) \o end = <<"nl">> \o (<<"reset">> \o end) BY <2>8, <2>14, ConcatAssociative
    <3>3. (start \o <<"nl">>) \o (<<"reset">> \o end) = start \o (<<"nl">> \o (<<"reset">> \o end))
      BY <2>7, <2>14, <3>1, ConcatAssociative
    <3> QED BY <3>2, <3>3
  <2>19. FlattenSeq(more) = SubSeq(c, 1, b) \o (<<"reset">> \o SubSeq(c, b + 1, Len(c)))
    BY <2>6, <2>15, <2>16, <2>17, <2>18 DEF end
  <2> QED BY <1>1, <1>7, <2>2, <2>19 DEF B
<1> QED BY <1>6, <1>7

LEMMA FlatThree ==
  ASSUME NEW es \in Seq(Events), NEW fs \in Seq(Events), NEW gs \in Seq(Events)
  PROVE  /\ es \o fs \o gs \in Seq(Events)
         /\ Flat(es \o fs \o gs) = Flat(es) \o (Flat(fs) \o Flat(gs))
<1>1. es \o fs \in Seq(Events) OBVIOUS
<1>2. PICK both \in Seq(Events) : both = es \o fs BY <1>1
<1>3. both \o gs \in Seq(Events)
  <2> HIDE DEF Events
  <2> QED OBVIOUS
<1>4. Flat(es) \in Seq(Symbols) /\ Flat(fs) \in Seq(Symbols) /\ Flat(gs) \in Seq(Symbols) BY FlatEvents
<1>5. Flat(es \o fs) = Flat(es) \o Flat(fs) BY FlatEvents
<1>6. Flat(both \o gs) = Flat(both) \o Flat(gs) BY FlatEvents
<1>7. (Flat(es) \o Flat(fs)) \o Flat(gs) = Flat(es) \o (Flat(fs) \o Flat(gs))
  <2> HIDE DEF Flat
  <2> QED BY <1>4, ConcatAssociative, SMTT(30)
<1> QED BY <1>2, <1>3, <1>5, <1>6, <1>7

LEMMA LineAfterType ==
  ASSUME NEW line \in PumpLines, NEW c
  PROVE  LineAfter(line, c) \in PumpLines
BY DEF LineAfter, PumpLines

\* The fields of the pump after the bytes of a stretch, and after a prompt.
LEMMA EmitBytesIs ==
  ASSUME NEW p \in Pumps, NEW c \in Seq(Bytes), c # <<>>
  PROVE  /\ EmitBytes(p, c) \in Pumps
         /\ EmitBytes(p, c).line = LineAfter(p.line, c)
         /\ EmitBytes(p, c).start <=> c[Len(c)] = "nl"
         /\ EmitBytes(p, c).reset <=> p.reset \/ Banners(p, c) # {}
         /\ EmitBytes(p, c).held = p.held /\ EmitBytes(p, c).on = p.on
         /\ Flat(EmitBytes(p, c).out) = Flat(p.out) \o
              IF p.reset \/ Banners(p, c) = {} THEN c
              ELSE SubSeq(c, 1, Min(Banners(p, c))) \o (<<"reset">> \o SubSeq(c, Min(Banners(p, c)) + 1, Len(c)))
<1> DEFINE q == [p EXCEPT !.line = LineAfter(p.line, c), !.start = Last(c) = "nl"]
<1>1. p.line \in PumpLines /\ p.reset \in BOOLEAN /\ p.held \in BOOLEAN /\ p.on \in BOOLEAN /\ p.out \in Seq(Events)
  BY DEF Pumps
<1>2. LineAfter(p.line, c) \in PumpLines BY <1>1, LineAfterType
<1>3. Last(c) = c[Len(c)] BY DEF Last
<1>4. q \in Pumps /\ q.line = LineAfter(p.line, c) /\ (q.start <=> c[Len(c)] = "nl") /\ q.reset = p.reset
      /\ q.held = p.held /\ q.on = p.on /\ q.out = p.out
  BY <1>2, <1>3 DEF Pumps
<1> HIDE DEF q
<1>5. CASE p.reset \/ Banners(p, c) = {}
  <2>1. EmitBytes(p, c) = [q EXCEPT !.out = Append(@, Chunk(c))] BY <1>5 DEF EmitBytes, q
  <2>2. Chunk(c) \in Events /\ TextOf(Chunk(c)) = c BY EventText
  <2>3. Append(p.out, Chunk(c)) \in Seq(Events) /\ Append(p.out, Chunk(c)) = p.out \o <<Chunk(c)>> BY <1>1, <2>2
  <2>4. Flat(Append(p.out, Chunk(c))) = Flat(p.out) \o c
    <3>1. <<Chunk(c)>> \in Seq(Events) BY <2>2
    <3>2. Flat(p.out \o <<Chunk(c)>>) = Flat(p.out) \o Flat(<<Chunk(c)>>) BY <1>1, <3>1, FlatEvents
    <3>3. Flat(<<Chunk(c)>>) = c BY <2>2, FlatEvents
    <3> QED BY <2>3, <3>2, <3>3
  <2> DEFINE o == Append(p.out, Chunk(c))
  <2> HIDE DEF o
  <2>5. EmitBytes(p, c) = [q EXCEPT !.out = o] BY <1>4, <2>1 DEF o
  <2>6. o \in Seq(Events) BY <2>3 DEF o
  <2>7. EmitBytes(p, c) \in Pumps /\ EmitBytes(p, c).line = q.line /\ EmitBytes(p, c).start = q.start
        /\ EmitBytes(p, c).reset = q.reset /\ EmitBytes(p, c).held = q.held /\ EmitBytes(p, c).on = q.on
        /\ EmitBytes(p, c).out = o
    BY <1>4, <2>5, <2>6 DEF Pumps
  <2> QED BY <1>4, <1>5, <2>4, <2>7 DEF o
<1>6. CASE ~(p.reset \/ Banners(p, c) = {})
  <2> DEFINE b == Min(Banners(p, c))
  <2> DEFINE remain == IF b = Len(c) THEN <<>> ELSE <<Chunk(SubSeq(c, b + 1, Len(c)))>>
  <2> DEFINE o == p.out \o <<Chunk(SubSeq(c, 1, b)), Event("reset")>> \o remain
  <2>1. EmitBytes(p, c) = [q EXCEPT !.reset = TRUE, !.out = o] BY <1>4, <1>6 DEF EmitBytes, q
  <2>2. b \in 1 .. Len(c)
    <3>1. Banners(p, c) \subseteq 1 .. Len(c) BY DEF Banners
    <3>2. Banners(p, c) \subseteq Nat BY <3>1
    <3>3. Banners(p, c) # {} BY <1>6
    <3> QED BY <3>1, <3>2, <3>3, Least
  <2> HIDE DEF b
  <2>3. SubSeq(c, 1, b) \in Seq(Bytes) /\ SubSeq(c, b + 1, Len(c)) \in Seq(Bytes) BY <2>2
  <2> DEFINE first == Chunk(SubSeq(c, 1, b))
  <2> DEFINE last == Chunk(SubSeq(c, b + 1, Len(c)))
  <2>4. first \in Events /\ last \in Events /\ Event("reset") \in Events /\ TextOf(first) = SubSeq(c, 1, b)
        /\ TextOf(last) = SubSeq(c, b + 1, Len(c)) /\ TextOf(Event("reset")) = <<"reset">>
    <3>1. "reset" \in Notices BY DEF Notices
    <3> QED BY <2>3, <3>1, EventText
  <2> HIDE DEF first, last
  <2>5. remain \in Seq(Events) /\ Flat(remain) = SubSeq(c, b + 1, Len(c))
    <3>1. CASE b = Len(c)
      <4>1. SubSeq(c, b + 1, Len(c)) = <<>> BY <2>2, <3>1
      <4>2. remain = <<>> BY <3>1
      <4>3. Flat(<<>>) = <<>> BY FlatEvents
      <4>4. <<>> \in Seq(Events) OBVIOUS
      <4> HIDE DEF remain
      <4> QED BY <4>1, <4>2, <4>3, <4>4
    <3>2. CASE b # Len(c)
      <4>1. remain = <<last>> BY <3>2 DEF last
      <4>2. Flat(<<last>>) = SubSeq(c, b + 1, Len(c)) BY <2>4, FlatEvents
      <4>3. <<last>> \in Seq(Events) BY <2>4
      <4> QED BY <4>1, <4>2, <4>3
    <3> QED BY <3>1, <3>2
  <2> HIDE DEF remain
  <2> DEFINE a == <<first>>
  <2> DEFINE r == <<Event("reset")>>
  <2>6. a \in Seq(Events) /\ r \in Seq(Events) /\ <<first, Event("reset")>> = a \o r BY <2>4
  <2>7. Flat(a) = SubSeq(c, 1, b) /\ Flat(r) = <<"reset">> BY <2>4, FlatEvents
  <2>8. o = p.out \o (a \o r) \o remain BY <2>6 DEF first
  <2> HIDE DEF o, a, r
  <2>9. a \o r \in Seq(Events) /\ Flat(a \o r) = Flat(a) \o Flat(r) BY <2>6, FlatEvents
  <2>10. PICK po \in Seq(Events) : po = p.out BY <1>1
  <2>11. PICK ar \in Seq(Events) : ar = a \o r BY <2>9
  <2>12. po \o ar \o remain \in Seq(Events) /\ Flat(po \o ar \o remain) = Flat(po) \o (Flat(ar) \o Flat(remain))
    BY <2>5, FlatThree
  <2>13. o \in Seq(Events) /\ Flat(o) = Flat(p.out) \o (Flat(a) \o (Flat(r) \o Flat(remain)))
    <3>1. Flat(a) \in Seq(Symbols) /\ Flat(r) \in Seq(Symbols) /\ Flat(remain) \in Seq(Symbols)
      BY <2>5, <2>6, FlatEvents
    <3>2. (Flat(a) \o Flat(r)) \o Flat(remain) = Flat(a) \o (Flat(r) \o Flat(remain)) BY <3>1, ConcatAssociative
    <3>3. o = po \o ar \o remain BY <2>8, <2>10, <2>11
    <3>4. Flat(ar) = Flat(a) \o Flat(r) BY <2>9, <2>11
    <3> QED BY <2>10, <2>12, <3>2, <3>3, <3>4
  <2>14. EmitBytes(p, c) \in Pumps /\ EmitBytes(p, c).line = q.line /\ EmitBytes(p, c).start = q.start
        /\ EmitBytes(p, c).reset = TRUE /\ EmitBytes(p, c).held = q.held /\ EmitBytes(p, c).on = q.on
        /\ EmitBytes(p, c).out = o
    BY <1>4, <2>1, <2>13 DEF Pumps
  <2> QED BY <1>4, <1>6, <2>5, <2>7, <2>13, <2>14 DEF b
<1> QED BY <1>5, <1>6

\* The fields of the pump after a prompt.
LEMMA EmitPromptIs ==
  ASSUME NEW p \in Pumps
  PROVE  /\ EmitPrompt(p) \in Pumps
         /\ EmitPrompt(p).line = p.line /\ ~EmitPrompt(p).start /\ ~EmitPrompt(p).reset
         /\ ~EmitPrompt(p).held /\ EmitPrompt(p).on = p.on
         /\ Flat(EmitPrompt(p).out) = Flat(p.out) \o ((IF p.reset THEN <<"restored">> ELSE <<>>) \o <<"prompt">>)
<1> DEFINE first == IF p.reset THEN <<Event("restored")>> ELSE <<>>
<1> DEFINE last == <<Event("prompt")>>
<1> DEFINE o == p.out \o first \o last
<1>1. p.out \in Seq(Events) BY DEF Pumps
<1>2. Event("restored") \in Events /\ Event("prompt") \in Events
      /\ TextOf(Event("restored")) = <<"restored">> /\ TextOf(Event("prompt")) = <<"prompt">>
  BY EventText DEF Notices
<1>3. first \in Seq(Events) /\ last \in Seq(Events) BY <1>2
<1>4. Flat(last) = <<"prompt">> BY <1>2, FlatEvents
<1>5. Flat(first) = IF p.reset THEN <<"restored">> ELSE <<>>
  <2>1. Flat(<<Event("restored")>>) = <<"restored">> BY <1>2, FlatEvents
  <2> QED BY <2>1, FlatEvents
<1>6. EmitPrompt(p) = [p EXCEPT !.reset = FALSE, !.start = FALSE, !.held = FALSE, !.out = o] BY DEF EmitPrompt
<1> HIDE DEF first, last
<1>7. PICK po \in Seq(Events) : po = p.out BY <1>1
<1>8. po \o first \o last \in Seq(Events) /\ Flat(po \o first \o last) = Flat(po) \o (Flat(first) \o Flat(last))
  BY <1>3, FlatThree
<1>10. o \in Seq(Events) /\ Flat(o) = Flat(p.out) \o (Flat(first) \o Flat(last)) BY <1>7, <1>8
<1> HIDE DEF o
<1>11. /\ EmitPrompt(p) \in Pumps
       /\ EmitPrompt(p).line = p.line /\ ~EmitPrompt(p).start /\ ~EmitPrompt(p).reset
       /\ ~EmitPrompt(p).held /\ EmitPrompt(p).on = p.on /\ EmitPrompt(p).out = o
  BY <1>6, <1>10 DEF Pumps
<1> QED BY <1>4, <1>5, <1>10, <1>11

\* A stretch of bytes in which no prompt begins and which does not end in one
\* that may begin.
LEMMA Segment ==
  ASSUME NEW s \in Seq(Bytes), NEW p, After(p, s), NEW o \in Seq(Symbols), Heard(p, s, o),
         NEW c \in Seq(Bytes), c # <<>>, Prompts(p, c) = {}, ~HoldsGt(p, c)
  PROVE  /\ After(EmitBytes(p, c), s \o c) /\ Heard(EmitBytes(p, c), s \o c, o)
         /\ EmitBytes(p, c).held = p.held /\ EmitBytes(p, c).on = p.on
<1> DEFINE t == s \o c
<1> DEFINE q == EmitBytes(p, c)
<1>0. PICK n \in Nat : n = Len(s) OBVIOUS
<1>m. PICK m \in Nat : m = Len(c) /\ m > 0 OBVIOUS
<1>t. /\ t \in Seq(Bytes) /\ Len(t) = n + m /\ (\A i \in 1 .. n : t[i] = s[i])
      /\ \A i \in 1 .. m : t[n + i] = c[i]
  BY <1>0, <1>m
<1> HIDE DEF t
<1>p. p \in Pumps /\ (p.start <=> n = 0 \/ s[n] = "nl") /\ p.line = LineAt(s, n + 1)
      /\ (p.reset <=> InReset(s, n + 1)) /\ Unheld(s)
  BY <1>0 DEF After
<1>1. ASSUME NEW i \in 1 .. m
      PROVE  StartsLine(p, c, i) <=> n + i = 1 \/ t[n + i - 1] = "nl"
  <2>1. CASE i = 1
    <3>1. n + i - 1 = n /\ (n + i = 1 <=> n = 0) BY <2>1
    <3>2. n # 0 => n \in 1 .. n OBVIOUS
    <3>3. n # 0 => t[n] = s[n] BY <1>t, <3>2
    <3> QED BY <1>p, <2>1, <3>1, <3>3 DEF StartsLine
  <2>2. CASE i # 1
    <3>1. PICK j \in 1 .. m : j = i - 1 /\ n + j = n + i - 1 BY <2>2
    <3>2. t[n + j] = c[j] BY <1>t
    <3> QED BY <2>2, <3>1, <3>2 DEF StartsLine
  <2> QED BY <2>1, <2>2
<1>2. ASSUME NEW i \in 1 .. Len(c) PROVE ~IsPrompt(s \o c, Len(s) + i)
  <2>1. SUFFICES ASSUME IsPrompt(t, n + i) PROVE FALSE BY <1>0 DEF t
  <2>2. i \in 1 .. m /\ n + i <= n + m - 1 /\ t[n + i] = "gt" /\ t[n + i + 1] = "sp" /\ (n + i = 1 \/ t[n + i - 1] = "nl")
    BY <1>m, <1>t, <2>1 DEF IsPrompt
  <2>3. i \in 1 .. m - 1 /\ i + 1 \in 1 .. m /\ n + i + 1 = n + (i + 1) BY <2>2
  <2>4. c[i] = "gt" /\ c[i + 1] = "sp" BY <1>t, <2>2, <2>3
  <2>5. StartsLine(p, c, i) BY <1>1, <2>2
  <2>6. i \in Prompts(p, c) BY <1>m, <2>3, <2>4, <2>5 DEF Prompts
  <2> QED BY <2>6
<1>3. BannersOn(s, c) = Banners(p, c)
  <2>1. BannersOn(s, c) =
          {i \in DOMAIN c : c[i] = "nl" /\ LineAfter(LineAt(s, Len(s) + 1), SubSeq(c, 1, i - 1)) = "banner"}
    BY <1>2, <1>p, MeaningOn
  <2> QED BY <1>0, <1>p, <2>1 DEF Banners
<1>e. /\ q \in Pumps /\ q.line = LineAfter(p.line, c) /\ (q.start <=> c[Len(c)] = "nl")
      /\ (q.reset <=> p.reset \/ Banners(p, c) # {}) /\ q.held = p.held /\ q.on = p.on
      /\ Flat(q.out) = Flat(p.out) \o
           IF p.reset \/ Banners(p, c) = {} THEN c
           ELSE SubSeq(c, 1, Min(Banners(p, c))) \o (<<"reset">> \o SubSeq(c, Min(Banners(p, c)) + 1, Len(c)))
  BY <1>p, EmitBytesIs
<1> HIDE DEF q
<1>4. q.line = LineAt(t, n + m + 1)
  <2>1. Len(c) \in 0 .. Len(c) /\ SubSeq(c, 1, Len(c)) = c BY SubSeqFull
  <2>2. LineAt(s \o c, Len(s) + Len(c) + 1) = LineAfter(LineAt(s, Len(s) + 1), SubSeq(c, 1, Len(c)))
    BY <1>2, <1>p, <2>1, LineOn
  <2> QED BY <1>0, <1>e, <1>m, <1>p, <2>1, <2>2 DEF t
<1>5. q.reset <=> InReset(t, n + m + 1)
  <2>1. \A k \in 0 .. Len(c) : InReset(s \o c, Len(s) + k + 1) <=>
          InReset(s, Len(s) + 1) \/ \E j \in BannersOn(s, c) : j <= k
    BY <1>2, <1>p, MeaningOn
  <2>2. Len(c) \in 0 .. Len(c) OBVIOUS
  <2>3. InReset(t, n + m + 1) <=> InReset(s, n + 1) \/ \E j \in BannersOn(s, c) : j <= m
    BY <1>0, <1>m, <2>1, <2>2 DEF t
  <2>4. \A j \in Banners(p, c) : j <= m BY <1>m DEF Banners
  <2> QED BY <1>3, <1>e, <1>p, <2>3, <2>4
<1>6. q.start <=> t[n + m] = "nl" BY <1>e, <1>m, <1>t
<1>7. Unheld(t)
  <2>1. t[n + m] = c[m] /\ Last(c) = c[m] BY <1>m, <1>t DEF Last
  <2>2. StartsLine(p, c, m) <=> n + m = 1 \/ t[n + m - 1] = "nl" BY <1>1, <1>m
  <2> QED BY <1>m, <1>t, <2>1, <2>2 DEF Unheld, HoldsGt
<1>8. After(q, t)
  <2>1. t # <<>> BY <1>m, <1>t
  <2> QED BY <1>4, <1>5, <1>6, <1>7, <1>e, <1>t, <2>1 DEF After
<1>9. Heard(q, t, o)
  <2> DEFINE x == IF p.reset \/ Banners(p, c) = {} THEN c
           ELSE SubSeq(c, 1, Min(Banners(p, c))) \o (<<"reset">> \o SubSeq(c, Min(Banners(p, c)) + 1, Len(c)))
  <2>1. Told(t) = Told(s) \o x
    <3>1. Told(s \o c) = Told(s) \o
           IF InReset(s, Len(s) + 1) \/ BannersOn(s, c) = {} THEN c
           ELSE SubSeq(c, 1, Min(BannersOn(s, c))) \o (<<"reset">> \o SubSeq(c, Min(BannersOn(s, c)) + 1, Len(c)))
      BY <1>2, <1>p, ToldOn
    <3> QED BY <1>0, <1>3, <1>p, <3>1 DEF t
  <2>2. Flat(q.out) = Flat(p.out) \o x BY <1>e
  <2>3. x \in Seq(Symbols)
    <3>1. c \in Seq(Symbols) BY EventText
    <3>2. CASE p.reset \/ Banners(p, c) = {} BY <3>1, <3>2
    <3>3. CASE ~(p.reset \/ Banners(p, c) = {})
      <4> DEFINE b == Min(Banners(p, c))
      <4>0. Banners(p, c) \subseteq 1 .. Len(c) BY DEF Banners
      <4>1. Banners(p, c) # {} /\ Banners(p, c) \subseteq Nat BY <3>3, <4>0
      <4>2. b \in 1 .. Len(c) BY <4>0, <4>1, Least
      <4> HIDE DEF b
      <4>3. SubSeq(c, 1, b) \in Seq(Symbols) /\ SubSeq(c, b + 1, Len(c)) \in Seq(Symbols) BY <3>1, <4>2
      <4>4. <<"reset">> \in Seq(Symbols) BY DEF Symbols
      <4>5. SubSeq(c, 1, b) \o (<<"reset">> \o SubSeq(c, b + 1, Len(c))) \in Seq(Symbols) BY <4>3, <4>4
      <4> QED BY <3>3, <4>5 DEF b
    <3> QED BY <3>2, <3>3
  <2> HIDE DEF x
  <2>4. p.out \in Seq(Events) BY <1>p DEF Pumps
  <2>5. Flat(p.out) \in Seq(Symbols) BY <2>4, FlatEvents
  <2>6. (o \o Flat(p.out)) \o x = o \o (Flat(p.out) \o x) BY <2>3, <2>5, ConcatAssociative
  <2> QED BY <2>1, <2>2, <2>6 DEF Heard
<1> QED BY <1>8, <1>9, <1>e DEF t, q

\* A prompt.
LEMMA PromptOn ==
  ASSUME NEW s \in Seq(Bytes), NEW p, After(p, s), p.start, NEW o \in Seq(Symbols), Heard(p, s, o)
  PROVE  /\ After(EmitPrompt(p), s \o <<"gt", "sp">>) /\ Heard(EmitPrompt(p), s \o <<"gt", "sp">>, o)
         /\ ~EmitPrompt(p).held /\ EmitPrompt(p).on = p.on
<1> DEFINE c == <<"gt", "sp">>
<1> DEFINE t == s \o c
<1> DEFINE q == EmitPrompt(p)
<1>0. PICK n \in Nat : n = Len(s) OBVIOUS
<1>c. c \in Seq(Bytes) /\ Len(c) = 2 /\ c[1] = "gt" /\ c[2] = "sp" BY DEF Bytes
<1> HIDE DEF c
<1>t. /\ t \in Seq(Bytes) /\ Len(t) = n + 2 /\ (\A i \in 1 .. n : t[i] = s[i])
      /\ t[n + 1] = "gt" /\ t[n + 2] = "sp"
  <2>1. /\ t \in Seq(Bytes) /\ Len(t) = n + 2 /\ (\A i \in 1 .. n : t[i] = s[i])
        /\ \A i \in n + 1 .. n + 2 : t[i] = c[i - n]
    <3>1. c \in Seq(Bytes) BY <1>c
    <3>2. /\ s \o c \in Seq(Bytes) /\ Len(s \o c) = Len(s) + Len(c)
          /\ (\A i \in 1 .. Len(s) : (s \o c)[i] = s[i])
          /\ \A i \in Len(s) + 1 .. Len(s) + Len(c) : (s \o c)[i] = c[i - Len(s)]
      BY <3>1, Joined
    <3> HIDE DEF t
    <3>3. Len(c) = 2 BY <1>c
    <3> QED BY <1>0, <3>2, <3>3 DEF t
  <2>2. n + 1 \in n + 1 .. n + 2 /\ n + 2 \in n + 1 .. n + 2 /\ n + 1 - n = 1 /\ n + 2 - n = 2 OBVIOUS
  <2> HIDE DEF t
  <2> QED BY <1>c, <2>1, <2>2
<1> HIDE DEF t
<1>p. p \in Pumps /\ (n = 0 \/ s[n] = "nl") /\ p.line = LineAt(s, n + 1)
      /\ (p.reset <=> InReset(s, n + 1)) /\ Unheld(s)
  BY <1>0 DEF After
<1>e. /\ q \in Pumps /\ q.line = p.line /\ ~q.start /\ ~q.reset /\ ~q.held /\ q.on = p.on
      /\ Flat(q.out) = Flat(p.out) \o ((IF p.reset THEN <<"restored">> ELSE <<>>) \o <<"prompt">>)
  BY <1>p, EmitPromptIs
<1> HIDE DEF q
<1>1. IsPrompt(t, n + 1)
  <2>1. n + 1 \in 1 .. Len(t) - 1 /\ n + 1 + 1 = n + 2 /\ n + 1 - 1 = n BY <1>t
  <2>2. n = 0 \/ t[n] = "nl" BY <1>p, <1>t
  <2> QED BY <1>t, <2>1, <2>2 DEF IsPrompt
<1>2. ~IsPrompt(t, n + 2) BY <1>t DEF IsPrompt
<1>f. Len(s) <= Len(t) /\ \A i \in 1 .. Len(s) : t[i] = s[i] BY <1>0, <1>t
<1>kept. /\ \A i \in 1 .. Len(s) + 1 : InReset(t, i) <=> InReset(s, i)
  BY <1>f, <1>p, <1>t, MeaningKept
<1>3. LineText(s, n + 1) = {}
  <2>1. SUFFICES ASSUME NEW j \in LineText(s, n + 1) PROVE FALSE OBVIOUS
  <2>2. j \in 1 .. n + 1 - 1 /\ \A k \in j .. n + 1 - 1 : s[k] # "nl" BY <2>1 DEF LineText
  <2>3. n \in j .. n + 1 - 1 /\ n # 0 BY <2>2
  <2> QED BY <1>p, <2>2, <2>3
<1>4. LineText(t, n + 3) = {}
  <2>1. SUFFICES ASSUME NEW j \in LineText(t, n + 3) PROVE FALSE OBVIOUS
  <2>2. j \in 1 .. n + 3 - 1 /\ ~IsPrompt(t, j) /\ t[j] # "sp" /\ \A k \in j .. n + 3 - 1 : t[k] # "nl"
    BY <2>1 DEF LineText
  <2>3. j <= n BY <1>1, <1>t, <2>2
  <2>4. n \in j .. n + 3 - 1 /\ n \in 1 .. n BY <2>2, <2>3
  <2> QED BY <1>p, <1>t, <2>2, <2>4
<1>5. q.line = LineAt(t, n + 2 + 1)
  <2>1. n + 2 + 1 = n + 3 OBVIOUS
  <2>2. LineAt(t, n + 3) = "none" /\ LineAt(s, n + 1) = "none" BY <1>3, <1>4 DEF LineAt
  <2> QED BY <1>e, <1>p, <2>1, <2>2
<1>6. ~InReset(t, n + 2 + 1)
  <2>1. SUFFICES ASSUME NEW j \in 1 .. n + 2 + 1 - 1, EndsBanner(t, j), \A k \in j .. n + 2 + 1 - 1 : ~IsPrompt(t, k)
                 PROVE FALSE
    BY DEF InReset
  <2>2. t[j] = "nl" BY <2>1 DEF EndsBanner
  <2>3. j # n + 2 BY <1>t, <2>2
  <2>4. n + 1 \in j .. n + 2 + 1 - 1 BY <2>3
  <2> QED BY <1>1, <2>1, <2>4
<1>7. After(q, t)
  <2>1. t # <<>> BY <1>t
  <2>2. Unheld(t) BY <1>t DEF Unheld
  <2> QED BY <1>5, <1>6, <1>e, <1>t, <2>1, <2>2 DEF After
<1>8. Heard(q, t, o)
  <2> DEFINE first == (IF p.reset THEN <<"restored">> ELSE <<>>) \o <<"prompt">>
  <2> DEFINE more == [k \in 1 .. Len(c) |-> Meaning(s \o c, Len(s) + k)]
  <2>1. Told(t) = Told(s) \o FlattenSeq(more) BY <1>c, <1>p, ToldMore DEF t
  <2>2. Meaning(t, n + 1) = first
    <3>1. InReset(t, n + 1) <=> p.reset BY <1>0, <1>kept, <1>p
    <3> QED BY <1>1, <3>1 DEF Meaning
  <2>3. Meaning(t, n + 2) = <<>>
    <3>1. n + 2 - 1 = n + 1 OBVIOUS
    <3> QED BY <1>1, <1>2, <3>1 DEF Meaning
  <2>4. first \in Seq(Symbols)
    <3>1. "restored" \in Symbols /\ "prompt" \in Symbols BY DEF Symbols
    <3>2. <<"restored">> \in Seq(Symbols) /\ <<"prompt">> \in Seq(Symbols) /\ <<>> \in Seq(Symbols) BY <3>1
    <3>3. <<"restored">> \o <<"prompt">> \in Seq(Symbols) /\ <<>> \o <<"prompt">> \in Seq(Symbols) BY <3>2
    <3> QED BY <3>3
  <2> HIDE DEF first
  <2>5. more = <<first>> \o << <<>> >>
    <3>1. more = <<Meaning(t, n + 1), Meaning(t, n + 2)>>
      <4>1. more = [k \in 1 .. 2 |-> Meaning(t, n + k)] BY <1>0, <1>c DEF t
      <4> HIDE DEF more
      <4> QED BY <4>1
    <3> HIDE DEF more
    <3> QED BY <2>2, <2>3, <3>1
  <2> HIDE DEF more
  <2> DEFINE S == Seq(Symbols)
  <2>6. <<>> \in S OBVIOUS
  <2>7. first \in S BY <2>4
  <2>8. PICK none \in S : none = <<>> BY <2>6
  <2> HIDE DEF S
  <2>9. <<first>> \in Seq(S) /\ <<none>> \in Seq(S) BY <2>7
  <2>10. FlattenSeq(<<first>> \o <<none>>) = FlattenSeq(<<first>>) \o FlattenSeq(<<none>>)
    BY <2>9, FlatConcat DEF S
  <2>11. FlattenSeq(<<first>>) = first /\ FlattenSeq(<<none>>) = none BY <2>4, <2>8, FlatOne DEF S
  <2>12. FlattenSeq(more) = first
    <3>1. first \o <<>> = first BY <2>4
    <3> QED BY <2>5, <2>8, <2>10, <2>11, <3>1
  <2>13. p.out \in Seq(Events) BY <1>p DEF Pumps
  <2>14. Flat(p.out) \in Seq(Symbols) BY <2>13, FlatEvents
  <2>15. (o \o Flat(p.out)) \o first = o \o (Flat(p.out) \o first) BY <2>4, <2>14, ConcatAssociative
  <2> QED BY <1>e, <2>1, <2>12, <2>15 DEF Heard, first
<1> QED BY <1>7, <1>8, <1>e DEF t, q, c

-----------------------------------------------------------------------------
(* A chunk *)

\* A stretch before the first prompt of a chunk has none.
LEMMA PromptsBefore ==
  ASSUME NEW p, NEW c \in Seq(Bytes), NEW k \in 0 .. Len(c), NEW i \in Prompts(p, SubSeq(c, 1, k))
  PROVE  i \in Prompts(p, c) /\ i < k
<1> DEFINE a == SubSeq(c, 1, k)
<1>1. Len(a) = k /\ \A x \in 1 .. k : a[x] = c[x] OBVIOUS
<1> HIDE DEF a
<1>2. i \in 1 .. k - 1 /\ a[i] = "gt" /\ a[i + 1] = "sp" /\ StartsLine(p, a, i) BY <1>1 DEF Prompts, a
<1>3. i \in 1 .. Len(c) - 1 /\ i \in 1 .. k /\ i + 1 \in 1 .. k /\ (i # 1 => i - 1 \in 1 .. k) BY <1>2
<1>4. c[i] = "gt" /\ c[i + 1] = "sp" BY <1>1, <1>2, <1>3
<1>5. StartsLine(p, c, i) BY <1>1, <1>2, <1>3 DEF StartsLine
<1> QED BY <1>2, <1>3, <1>4, <1>5 DEF Prompts

\* The bytes before a prompt, or before a ">" that is held, end a line.
LEMMA SegmentBefore ==
  ASSUME NEW s \in Seq(Bytes), NEW p, After(p, s), NEW o \in Seq(Symbols), Heard(p, s, o),
         NEW c \in Seq(Bytes), NEW i \in 1 .. Len(c), StartsLine(p, c, i),
         \A x \in Prompts(p, c) : i <= x
  PROVE  /\ After(EmitBytes(p, SubSeq(c, 1, i - 1)), s \o SubSeq(c, 1, i - 1))
         /\ Heard(EmitBytes(p, SubSeq(c, 1, i - 1)), s \o SubSeq(c, 1, i - 1), o)
         /\ EmitBytes(p, SubSeq(c, 1, i - 1)).start
         /\ EmitBytes(p, SubSeq(c, 1, i - 1)).held = p.held /\ EmitBytes(p, SubSeq(c, 1, i - 1)).on = p.on
<1> DEFINE a == SubSeq(c, 1, i - 1)
<1>1. a \in Seq(Bytes) /\ Len(a) = i - 1 /\ \A x \in 1 .. i - 1 : a[x] = c[x] OBVIOUS
<1>2. CASE i = 1
  <2>1. a = <<>> BY <1>2
  <2> HIDE DEF a
  <2>2. EmitBytes(p, a) = p /\ s \o a = s BY <2>1 DEF EmitBytes
  <2>3. p.start BY <1>2 DEF StartsLine
  <2> QED BY <2>2, <2>3 DEF a
<1>3. CASE i # 1
  <2>1. Prompts(p, a) = {}
    <3>1. SUFFICES ASSUME NEW x \in Prompts(p, SubSeq(c, 1, i - 1)) PROVE FALSE OBVIOUS
    <3>2. PICK k \in 0 .. Len(c) : k = i - 1 OBVIOUS
    <3>3. x \in Prompts(p, SubSeq(c, 1, k)) BY <3>1, <3>2
    <3>4. x \in Prompts(p, c) /\ x < k BY <3>3, PromptsBefore
    <3>5. x \in Nat BY <3>4 DEF Prompts
    <3> QED BY <3>2, <3>4, <3>5
  <2> HIDE DEF a
  <2>2. a # <<>> /\ a[Len(a)] = "nl" BY <1>1, <1>3 DEF StartsLine
  <2>3. ~HoldsGt(p, a) BY <2>2 DEF HoldsGt, Last
  <2>4. /\ After(EmitBytes(p, a), s \o a) /\ Heard(EmitBytes(p, a), s \o a, o)
        /\ EmitBytes(p, a).held = p.held /\ EmitBytes(p, a).on = p.on
    BY <1>1, <2>1, <2>2, <2>3, Segment
  <2>5. EmitBytes(p, a).start
    <3>1. p \in Pumps BY DEF After
    <3> QED BY <1>1, <2>2, <3>1, EmitBytesIs
  <2> QED BY <2>4, <2>5 DEF a
<1> QED BY <1>2, <1>3

LEMMA GtSp ==
  /\ <<"gt">> \in Seq(Bytes) /\ <<"sp">> \in Seq(Bytes) /\ <<"gt", "sp">> \in Seq(Bytes)
  /\ \A b \in Seq(Bytes) : <<"gt">> \o (<<"sp">> \o b) = <<"gt", "sp">> \o b
<1>1. "gt" \in Bytes /\ "sp" \in Bytes BY DEF Bytes
<1>2. <<"gt">> \in Seq(Bytes) /\ <<"sp">> \in Seq(Bytes) /\ <<"gt", "sp">> \in Seq(Bytes) BY <1>1
<1>3. <<"gt", "sp">> = <<"gt">> \o <<"sp">> OBVIOUS
<1>4. ASSUME NEW g \in Seq(Bytes), NEW h \in Seq(Bytes), NEW b \in Seq(Bytes)
      PROVE  (g \o h) \o b = g \o (h \o b)
  BY ConcatAssociative, SMTT(30)
<1> QED BY <1>2, <1>3, <1>4

Associates(a, b, c) == (a \o b) \o c = a \o (b \o c)
\* Bytes put together in either order are the same.
LEMMA Associate ==
  ASSUME NEW a \in Seq(Bytes), NEW b \in Seq(Bytes), NEW c \in Seq(Bytes)
  PROVE  Associates(a, b, c)
BY ConcatAssociative, SMTT(30) DEF Associates

Joins(s, a, g, b) ==
  /\ s \o a \in Seq(Bytes) /\ (s \o a) \o g \in Seq(Bytes)
  /\ ((s \o a) \o g) \o b = s \o (a \o (g \o b))
LEMMA JoinFour ==
  ASSUME NEW s \in Seq(Bytes), NEW a \in Seq(Bytes), NEW g \in Seq(Bytes), NEW b \in Seq(Bytes)
  PROVE  Joins(s, a, g, b)
<1>1. PICK sa \in Seq(Bytes) : sa = s \o a
  <2>1. s \o a \in Seq(Bytes) OBVIOUS
  <2> QED BY <2>1
<1>2. PICK gb \in Seq(Bytes) : gb = g \o b
  <2>1. g \o b \in Seq(Bytes) OBVIOUS
  <2> QED BY <2>1
<1>3. sa \o g \in Seq(Bytes) OBVIOUS
<1>4. Associates(sa, g, b) BY Associate
<1>5. Associates(s, a, gb) BY Associate
<1> QED BY <1>1, <1>2, <1>3, <1>4, <1>5 DEF Joins, Associates

\* Bytes around a prompt.
LEMMA CutAt ==
  ASSUME NEW s \in Seq(Bytes), NEW c \in Seq(Bytes), NEW i \in 1 .. Len(c) - 1, c[i] = "gt", c[i + 1] = "sp"
  PROVE  /\ s \o SubSeq(c, 1, i - 1) \in Seq(Bytes)
         /\ (s \o SubSeq(c, 1, i - 1)) \o <<"gt", "sp">> \in Seq(Bytes)
         /\ ((s \o SubSeq(c, 1, i - 1)) \o <<"gt", "sp">>) \o SubSeq(c, i + 2, Len(c)) = s \o c
<1> DEFINE a == SubSeq(c, 1, i - 1)
<1> DEFINE b == SubSeq(c, i + 2, Len(c))
<1>1. SubSeq(c, 1, Len(c)) = SubSeq(c, 1, i - 1) \o SubSeq(c, i - 1 + 1, Len(c))
  <2>1. 1 \in 1 .. Len(c) + 1 /\ i - 1 \in 1 - 1 .. Len(c) /\ Len(c) \in i - 1 .. Len(c) OBVIOUS
  <2> QED BY <2>1, ConcatAdjacentSubSeq
<1>2. SubSeq(c, 1, Len(c)) = c BY SubSeqFull
<1>3. i - 1 + 1 = i OBVIOUS
<1>4. SubSeq(c, i, Len(c)) = <<c[i]>> \o SubSeq(c, i + 1, Len(c))
  <2>1. i \in 1 .. Len(c) /\ Len(c) \in i .. Len(c) OBVIOUS
  <2> QED BY <2>1, SubSeqRecursiveFirst
<1>5. SubSeq(c, i + 1, Len(c)) = <<c[i + 1]>> \o SubSeq(c, i + 2, Len(c))
  <2>1. PICK j \in 1 .. Len(c) : j = i + 1 /\ j + 1 = i + 2 OBVIOUS
  <2>2. Len(c) \in j .. Len(c) OBVIOUS
  <2>3. SubSeq(c, j, Len(c)) = <<c[j]>> \o SubSeq(c, j + 1, Len(c)) BY <2>2, SubSeqRecursiveFirst
  <2> QED BY <2>1, <2>3
<1>6. a \in Seq(Bytes) /\ b \in Seq(Bytes) OBVIOUS
<1>7. <<"gt", "sp">> \in Seq(Bytes) /\ <<"gt">> \o (<<"sp">> \o b) = <<"gt", "sp">> \o b BY <1>6, GtSp
<1> HIDE DEF a, b
<1>8. c = a \o (<<"gt", "sp">> \o b) BY <1>1, <1>2, <1>3, <1>4, <1>5, <1>7 DEF a, b
<1>9. PICK gs \in Seq(Bytes) : gs = <<"gt", "sp">> BY <1>7
<1>10. PICK x \in Seq(Bytes) : x = a BY <1>6
<1>11. PICK y \in Seq(Bytes) : y = b BY <1>6
<1>12. Joins(s, x, gs, y) BY JoinFour
<1> QED BY <1>8, <1>9, <1>10, <1>11, <1>12 DEF a, b, Joins

\* A round keeps what the pump knows: it has taken the stretch and the prompt.
LEMMA RoundOn ==
  ASSUME NEW s \in Seq(Bytes), NEW o \in Seq(Symbols), NEW l \in [p : Pumps, c : Seq(Bytes)],
         After(l.p, s), Heard(l.p, s, o), ~l.p.held
  PROVE  /\ Round(l) \in [p : Pumps, c : Seq(Bytes)]
         /\ ~Round(l).p.held /\ Round(l).p.on = l.p.on
         /\ \E t \in Seq(Bytes) : /\ t \o Round(l).c = s \o l.c
                                  /\ After(Round(l).p, t) /\ Heard(Round(l).p, t, o)
         /\ Prompts(l.p, l.c) = {} => Round(l) = l
         /\ Prompts(l.p, l.c) # {} => Len(Round(l).c) + 2 <= Len(l.c)
<1>1. PICK p \in Pumps : p = l.p OBVIOUS
<1>2. PICK c \in Seq(Bytes) : c = l.c OBVIOUS
<1>3. CASE Prompts(l.p, l.c) = {}
  <2>1. Round(l) = l BY <1>3 DEF Round
  <2> QED BY <1>3, <2>1
<1>4. CASE Prompts(l.p, l.c) # {}
  <2>0. Prompts(p, c) # {} /\ Prompts(p, c) \subseteq 1 .. Len(c) - 1 BY <1>1, <1>2, <1>4 DEF Prompts
  <2>1. Prompts(p, c) \subseteq Nat BY <2>0
  <2>2. Min(Prompts(p, c)) \in Prompts(p, c) /\ \A x \in Prompts(p, c) : Min(Prompts(p, c)) <= x BY <2>0, <2>1, Least
  <2>3. PICK i \in 1 .. Len(c) - 1 : i = Min(Prompts(p, c)) BY <2>0, <2>2
  <2>4. i \in 1 .. Len(c) /\ c[i] = "gt" /\ c[i + 1] = "sp" /\ StartsLine(p, c, i) /\ \A x \in Prompts(p, c) : i <= x
    BY <2>2, <2>3 DEF Prompts
  <2> DEFINE a == SubSeq(c, 1, i - 1)
  <2> DEFINE b == SubSeq(c, i + 2, Len(c))
  <2> DEFINE q == EmitBytes(p, a)
  <2>5. Round(l) = [p |-> EmitPrompt(q), c |-> b] BY <1>1, <1>2, <1>4, <2>3 DEF Round
  <2>6. a \in Seq(Bytes) /\ b \in Seq(Bytes) /\ Len(b) = Len(c) - (i + 1) OBVIOUS
  <2>7. After(q, s \o a) /\ Heard(q, s \o a, o) /\ q.start /\ q.held = p.held /\ q.on = p.on
    BY <1>1, <2>4, SegmentBefore
  <2>8. s \o a \in Seq(Bytes) /\ (s \o a) \o <<"gt", "sp">> \in Seq(Bytes)
        /\ ((s \o a) \o <<"gt", "sp">>) \o b = s \o c
    BY <2>4, CutAt
  <2> HIDE DEF a, b, q
  <2>9. PICK u \in Seq(Bytes) : u = s \o a BY <2>8
  <2>10. PICK t \in Seq(Bytes) : t = u \o <<"gt", "sp">> BY <2>8, <2>9
  <2>11. After(EmitPrompt(q), t) /\ Heard(EmitPrompt(q), t, o) /\ ~EmitPrompt(q).held
         /\ EmitPrompt(q).on = q.on
    BY <2>7, <2>9, <2>10, PromptOn
  <2>13. t \o b = s \o c BY <2>8, <2>9, <2>10
  <2>14. EmitPrompt(q) \in Pumps BY <2>11 DEF After
  <2>16. Round(l).p = EmitPrompt(q) /\ Round(l).c = b /\ Round(l) \in [p : Pumps, c : Seq(Bytes)]
    BY <2>5, <2>6, <2>14
  <2>17. Len(b) + 2 <= Len(c) BY <2>6
  <2> QED BY <1>1, <1>2, <1>4, <2>7, <2>11, <2>13, <2>16, <2>17
<1> QED BY <1>3, <1>4

LEMMA RoundType ==
  ASSUME NEW l \in [p : Pumps, c : Seq(Bytes)]
  PROVE  Round(l) \in [p : Pumps, c : Seq(Bytes)]
<1>1. CASE Prompts(l.p, l.c) = {} BY <1>1 DEF Round
<1>2. CASE Prompts(l.p, l.c) # {}
  <2> DEFINE i == Min(Prompts(l.p, l.c))
  <2> DEFINE a == SubSeq(l.c, 1, i - 1)
  <2> DEFINE b == SubSeq(l.c, i + 2, Len(l.c))
  <2>1. Prompts(l.p, l.c) \subseteq 1 .. Len(l.c) - 1 /\ l.c \in Seq(Bytes) /\ l.p \in Pumps BY DEF Prompts
  <2>2. Prompts(l.p, l.c) \subseteq Nat BY <2>1
  <2>3. i \in 1 .. Len(l.c) - 1 BY <1>2, <2>1, <2>2, Least
  <2>4. Round(l) = [p |-> EmitPrompt(EmitBytes(l.p, a)), c |-> b] BY <1>2 DEF Round
  <2> HIDE DEF i
  <2>5. a \in Seq(Bytes) /\ b \in Seq(Bytes) BY <2>1, <2>3
  <2> HIDE DEF a, b
  <2>6. EmitBytes(l.p, a) \in Pumps
    <3>1. CASE a = <<>> BY <2>1, <3>1 DEF EmitBytes
    <3>2. CASE a # <<>> BY <2>1, <2>5, <3>2, EmitBytesIs
    <3> QED BY <3>1, <3>2
  <2>7. EmitPrompt(EmitBytes(l.p, a)) \in Pumps BY <2>6, EmitPromptIs
  <2> QED BY <2>4, <2>5, <2>7
<1> QED BY <1>1, <1>2

\* The rounds leave no prompt.
Left(l, t, o, on, q) ==
  /\ ~l.p.held /\ l.p.on = on /\ Prompts(l.p, l.c) = {}
  /\ \E u \in Seq(Bytes) : u \o l.c = t /\ After(l.p, u) /\ Heard(l.p, u, o)
  /\ q = IF l.c # <<>> /\ HoldsGt(l.p, l.c)
         THEN [EmitBytes(l.p, Front(l.c)) EXCEPT !.held = TRUE]
         ELSE EmitBytes(l.p, l.c)
\* As many rounds as the chunk has bytes leave no prompt in it.
LEMMA RoundsOn ==
  ASSUME NEW s \in Seq(Bytes), NEW p, After(p, s), NEW o \in Seq(Symbols), Heard(p, s, o), ~p.held,
         NEW c \in Seq(Bytes), NEW on, p.on = on
  PROVE  \E l \in [p : Pumps, c : Seq(Bytes)] : Left(l, s \o c, o, on, Scan(p, c))
<1> DEFINE S == [p : Pumps, c : Seq(Bytes)]
<1> DEFINE l0 == [p |-> p, c |-> c]
<1>0. PICK n \in Nat : n = Len(c) OBVIOUS
<1>p. p \in Pumps BY DEF After
<1> DEFINE G == [x \in S \X (1 .. n) |-> Round(x[1])]
<1>1. l0 \in S /\ l0.p = p /\ l0.c = c BY <1>p
<1>2. G \in [S \X (1 .. n) -> S]
  <2>1. ASSUME NEW x \in S \X (1 .. n) PROVE Round(x[1]) \in S
    <3>1. x[1] \in S OBVIOUS
    <3> HIDE DEF S
    <3> QED BY <3>1, RoundType DEF S
  <2> HIDE DEF S
  <2> QED BY <2>1
<1>3. \A l \in S, i \in 1 .. n : G[<<l, i>>] = Round(l)
  <2> HIDE DEF S
  <2> QED OBVIOUS
<1> HIDE DEF S, l0, G
<1>4. Recursive(S, n, l0, G) BY <1>1, <1>2, Recursion
<1>5. PICK r \in [0 .. n -> S] : r[0] = l0 /\ \A i \in 1 .. n : r[i] = G[<<r[i - 1], i>>] BY <1>4 DEF Recursive
<1>6. ASSUME NEW i \in 1 .. n PROVE r[i] = Round(r[i - 1])
  <2>1. i - 1 \in 0 .. n BY <1>0
  <2>2. r[i - 1] \in S BY <2>1
  <2>3. r[i] = G[<<r[i - 1], i>>] BY <1>5
  <2> QED BY <1>3, <2>2, <2>3
<1>7. Scan(p, c) = IF r[n].c # <<>> /\ HoldsGt(r[n].p, r[n].c)
                   THEN [EmitBytes(r[n].p, Front(r[n].c)) EXCEPT !.held = TRUE]
                   ELSE EmitBytes(r[n].p, r[n].c)
  <2> DEFINE round[k \in 0 .. Len(c)] == IF k = 0 THEN [p |-> p, c |-> c] ELSE Round(round[k - 1])
  <2>1. ASSUME NEW k \in 0 .. n PROVE r[k] = IF k = 0 THEN [p |-> p, c |-> c] ELSE Round(r[k - 1])
    <3>1. k = 0 \/ k \in 1 .. n OBVIOUS
    <3> QED BY <1>5, <1>6, <3>1 DEF l0
  <2>2. r = [k \in 0 .. Len(c) |-> IF k = 0 THEN [p |-> p, c |-> c] ELSE Round(r[k - 1])] BY <1>0, <2>1
  <2>3. round = [k \in 0 .. Len(c) |-> IF k = 0 THEN [p |-> p, c |-> c] ELSE Round(round[k - 1])] BY <2>2
  <2>4. Scan(p, c) = IF round[n].c # <<>> /\ HoldsGt(round[n].p, round[n].c)
                     THEN [EmitBytes(round[n].p, Front(round[n].c)) EXCEPT !.held = TRUE]
                     ELSE EmitBytes(round[n].p, round[n].c)
    BY <1>0 DEF Scan
  <2>5. ASSUME NEW k \in 0 .. n PROVE round[k] = IF k = 0 THEN [p |-> p, c |-> c] ELSE Round(round[k - 1])
    <3> HIDE DEF round
    <3> QED BY <1>0, <2>3
  <2> HIDE DEF round
  <2> DEFINE P == {k \in 0 .. n : round[k] = r[k]}
  <2>6. 0 \in P
    <3>1. 0 \in 0 .. n BY <1>0
    <3>2. round[0] = [p |-> p, c |-> c] /\ r[0] = [p |-> p, c |-> c] BY <2>1, <2>5, <3>1
    <3> QED BY <3>1, <3>2
  <2>7. ASSUME NEW k \in 0 .. n, k \in P, k < n PROVE k + 1 \in P
    <3>1. PICK j \in 0 .. n : j = k + 1 /\ j - 1 = k /\ j # 0 BY <2>7
    <3>2. round[j] = Round(round[j - 1]) /\ r[j] = Round(r[j - 1]) BY <2>1, <2>5, <3>1
    <3>3. round[k] = r[k] BY <2>7
    <3>4. round[j] = r[j] BY <3>1, <3>2, <3>3
    <3> QED BY <3>1, <3>4
  <2>8. \A k \in 0 .. n : k \in P /\ k < n => k + 1 \in P BY <2>7
  <2> HIDE DEF P
  <2>9. 0 .. n \subseteq P BY <2>6, <2>8, Inductive
  <2>10. n \in P BY <2>9
  <2> USE DEF P
  <2>11. round[n] = r[n] BY <2>10
  <2> QED BY <2>4, <2>11
<1> DEFINE Good(l) ==
      /\ ~l.p.held /\ l.p.on = on
      /\ \E t \in Seq(Bytes) : t \o l.c = s \o c /\ After(l.p, t) /\ Heard(l.p, t, o)
<1> DEFINE P == {k \in 0 .. n : Good(r[k]) /\ (Prompts(r[k].p, r[k].c) = {} \/ Len(r[k].c) + 2 * k <= n)}
<1>8. 0 \in P
  <2>1. Good(l0) BY <1>1
  <2>2. Len(l0.c) + 2 * 0 <= n BY <1>0, <1>1
  <2> HIDE DEF Good
  <2> QED BY <1>5, <2>1, <2>2
<1>9. ASSUME NEW k \in 0 .. n, k \in P, k < n PROVE k + 1 \in P
  <2>1. PICK j \in 1 .. n : j = k + 1 /\ j - 1 = k BY <1>9
  <2>2. r[j] = Round(r[k]) BY <1>6, <2>1
  <2>3. PICK l \in S : l = r[k] OBVIOUS
  <2>4. ~l.p.held /\ l.p.on = on /\ (Prompts(l.p, l.c) = {} \/ Len(l.c) + 2 * k <= n) BY <1>9, <2>3
  <2>5. PICK t \in Seq(Bytes) : t \o l.c = s \o c /\ After(l.p, t) /\ Heard(l.p, t, o) BY <1>9, <2>3
  <2>6. l \in [p : Pumps, c : Seq(Bytes)] BY <2>3 DEF S
  <2>7. /\ Round(l) \in [p : Pumps, c : Seq(Bytes)]
        /\ ~Round(l).p.held /\ Round(l).p.on = l.p.on
        /\ \E u \in Seq(Bytes) : /\ u \o Round(l).c = t \o l.c
                                 /\ After(Round(l).p, u) /\ Heard(Round(l).p, u, o)
        /\ Prompts(l.p, l.c) = {} => Round(l) = l
        /\ Prompts(l.p, l.c) # {} => Len(Round(l).c) + 2 <= Len(l.c)
    BY <2>4, <2>5, <2>6, RoundOn
  <2>8. Good(Round(l)) BY <2>4, <2>5, <2>7
  <2>9. Prompts(Round(l).p, Round(l).c) = {} \/ Len(Round(l).c) + 2 * (k + 1) <= n
    <3>1. CASE Prompts(l.p, l.c) = {} BY <2>7, <3>1
    <3>2. CASE Prompts(l.p, l.c) # {}
      <4>1. PICK a \in Nat : a = Len(Round(l).c) BY <2>7
      <4>2. PICK b \in Nat : b = Len(l.c) BY <2>6
      <4>3. a + 2 <= b /\ b + 2 * k <= n BY <2>4, <2>7, <3>2, <4>1, <4>2
      <4>4. a + 2 * (k + 1) <= n BY <4>3
      <4> QED BY <4>1, <4>4
    <3> QED BY <3>1, <3>2
  <2>10. j \in 0 .. n BY <2>1
  <2> HIDE DEF Good
  <2>11. Good(r[j]) /\ (Prompts(r[j].p, r[j].c) = {} \/ Len(r[j].c) + 2 * j <= n) BY <2>1, <2>2, <2>3, <2>8, <2>9
  <2>12. j \in P BY <2>10, <2>11
  <2> QED BY <2>1, <2>12
<1>10. \A k \in 0 .. n : k \in P /\ k < n => k + 1 \in P BY <1>9
<1>11. n \in P
  <2> HIDE DEF P
  <2>1. 0 .. n \subseteq P BY <1>8, <1>10, Inductive
  <2> QED BY <2>1
<1>12. PICK l \in S : l = r[n] OBVIOUS
<1>13. Good(l) /\ (Prompts(l.p, l.c) = {} \/ Len(l.c) + 2 * n <= n) BY <1>11, <1>12
<1>14. Prompts(l.p, l.c) = {}
  <2>1. SUFFICES ASSUME NEW i \in Prompts(l.p, l.c) PROVE FALSE OBVIOUS
  <2>2. l.c \in Seq(Bytes) BY <1>12 DEF S
  <2>3. PICK b \in Nat : b = Len(l.c) BY <2>2
  <2>4. i \in 1 .. b - 1 BY <2>3 DEF Prompts
  <2>5. b + 2 * n <= n BY <1>13, <2>1, <2>3
  <2> QED BY <2>4, <2>5
<1> QED BY <1>7, <1>12, <1>13, <1>14 DEF S, Left

\* The pump has taken t, but for a ">" it holds.
Took(q, t, o) ==
  /\ q \in Pumps
  /\ ~q.held => After(q, t) /\ Heard(q, t, o)
  /\ q.held => \E u \in Seq(Bytes) : t = u \o <<"gt">> /\ After(q, u) /\ Heard(q, u, o) /\ q.start

\* A held ">" changes nothing else.
LEMMA HeldIs ==
  ASSUME NEW p \in Pumps, NEW h \in BOOLEAN
  PROVE  /\ [p EXCEPT !.held = h] \in Pumps
         /\ [p EXCEPT !.held = h].held = h
         /\ [p EXCEPT !.held = h].on = p.on /\ [p EXCEPT !.held = h].start = p.start
         /\ \A u : After(p, u) => After([p EXCEPT !.held = h], u)
         /\ \A u, o : Heard(p, u, o) => Heard([p EXCEPT !.held = h], u, o)
<1> DEFINE q == [p EXCEPT !.held = h]
<1>1. q \in Pumps /\ q.held = h /\ q.on = p.on /\ q.start = p.start /\ q.line = p.line /\ q.reset = p.reset /\ q.out = p.out
  BY DEF Pumps
<1> HIDE DEF q
<1>2. ASSUME NEW u, After(p, u) PROVE After(q, u) BY <1>1, <1>2 DEF After
<1>3. ASSUME NEW u, NEW o, Heard(p, u, o) PROVE Heard(q, u, o) BY <1>1, <1>3 DEF Heard
<1> QED BY <1>1, <1>2, <1>3 DEF q

\* A chunk without a held ">" before it leaves the pump with what it means.
LEMMA ScanOn ==
  ASSUME NEW s \in Seq(Bytes), NEW p, After(p, s), NEW o \in Seq(Symbols), Heard(p, s, o), ~p.held,
         NEW c \in Seq(Bytes), NEW on, p.on = on
  PROVE  Took(Scan(p, c), s \o c, o) /\ Scan(p, c).on = on
<1> DEFINE q == Scan(p, c)
<1>0. PICK l \in [p : Pumps, c : Seq(Bytes)] : Left(l, s \o c, o, on, q) BY RoundsOn
<1>1. /\ ~l.p.held /\ l.p.on = on /\ Prompts(l.p, l.c) = {}
      /\ \E t \in Seq(Bytes) : t \o l.c = s \o c /\ After(l.p, t) /\ Heard(l.p, t, o)
      /\ q = IF l.c # <<>> /\ HoldsGt(l.p, l.c)
             THEN [EmitBytes(l.p, Front(l.c)) EXCEPT !.held = TRUE]
             ELSE EmitBytes(l.p, l.c)
  BY <1>0 DEF Left
<1> HIDE DEF q
<1>2. PICK t \in Seq(Bytes) : t \o l.c = s \o c /\ After(l.p, t) /\ Heard(l.p, t, o) BY <1>1
<1>3. PICK d \in Seq(Bytes) : d = l.c OBVIOUS
<1>4. PICK g \in Pumps : g = l.p OBVIOUS
<1>5. CASE d # <<>> /\ HoldsGt(g, d)
  <2> DEFINE f == SubSeq(d, 1, Len(d) - 1)
  <2> DEFINE e == EmitBytes(g, f)
  <2>1. q = [e EXCEPT !.held = TRUE] BY <1>1, <1>3, <1>4, <1>5 DEF Front
  <2>2. PICK i \in 1 .. Len(d) : i = Len(d) BY <1>5
  <2>3. d[i] = "gt" /\ StartsLine(g, d, i) BY <1>5, <2>2 DEF HoldsGt, Last
  <2>4. \A x \in Prompts(g, d) : i <= x BY <1>1, <1>3, <1>4
  <2>5. After(e, t \o f) /\ Heard(e, t \o f, o) /\ e.start /\ e.held = g.held /\ e.on = g.on
    BY <1>2, <1>4, <2>2, <2>3, <2>4, SegmentBefore, SMTT(30)
  <2>6. f \in Seq(Bytes) /\ d = f \o <<"gt">>
    <3>1. 1 \in 1 .. Len(d) /\ Len(d) \in 1 .. Len(d) BY <2>2
    <3>2. SubSeq(d, 1, Len(d)) = SubSeq(d, 1, Len(d) - 1) \o <<d[Len(d)]>> BY <3>1, SubSeqRecursiveSecond
    <3>3. SubSeq(d, 1, Len(d)) = d BY SubSeqFull
    <3> QED BY <2>2, <2>3, <3>2, <3>3
  <2> HIDE DEF f, e
  <2>7. PICK x \in Seq(Bytes) : x = f BY <2>6
  <2>8. PICK gt \in Seq(Bytes) : gt = <<"gt">> BY GtSp
  <2>9. t \o x \in Seq(Bytes) /\ (t \o x) \o gt = t \o (x \o gt)
    <3>1. t \o x \in Seq(Bytes) OBVIOUS
    <3>2. Associates(t, x, gt) BY Associate
    <3> QED BY <3>1, <3>2 DEF Associates
  <2>10. s \o c = (t \o f) \o <<"gt">> /\ t \o f \in Seq(Bytes) BY <1>2, <1>3, <2>6, <2>7, <2>8, <2>9
  <2>11. e \in Pumps BY <2>5 DEF After
  <2>12. q \in Pumps /\ q.held /\ q.on = e.on /\ q.start /\ After(q, t \o f) /\ Heard(q, t \o f, o)
    BY <2>1, <2>5, <2>11, HeldIs
  <2> QED BY <1>1, <1>4, <2>5, <2>10, <2>12 DEF Took, q
<1>6. CASE ~(d # <<>> /\ HoldsGt(g, d))
  <2>1. q = EmitBytes(g, d) BY <1>1, <1>3, <1>4, <1>6
  <2>2. After(q, t \o d) /\ Heard(q, t \o d, o) /\ q.held = g.held /\ q.on = g.on
    <3>1. CASE d = <<>>
      <4>1. q = g BY <2>1, <3>1 DEF EmitBytes
      <4>2. t \o d = t BY <3>1
      <4> QED BY <1>2, <1>4, <4>1, <4>2
    <3>2. CASE d # <<>>
      <4>1. ~HoldsGt(g, d) /\ Prompts(g, d) = {} BY <1>1, <1>3, <1>4, <1>6, <3>2
      <4> QED BY <1>2, <1>4, <2>1, <3>2, <4>1, Segment
    <3> QED BY <3>1, <3>2
  <2>3. q \in Pumps BY <2>2 DEF After
  <2>4. t \o d = s \o c /\ ~q.held /\ q.on = on BY <1>1, <1>2, <1>3, <1>4, <2>2
  <2> QED BY <2>2, <2>3, <2>4 DEF Took, q
<1> QED BY <1>5, <1>6

\* However the bytes are split, a chunk leaves the pump with what they mean.
LEMMA ChunkOn ==
  ASSUME NEW s \in Seq(Bytes), NEW p, NEW o \in Seq(Symbols), Took(p, s, o), NEW c \in Seq(Bytes), c # <<>>
  PROVE  Took(ProcessChunk(p, c), s \o c, o) /\ ProcessChunk(p, c).on = p.on
<1>1. CASE ~p.held
  <2>1. ProcessChunk(p, c) = Scan(p, c) BY <1>1 DEF ProcessChunk
  <2>2. After(p, s) /\ Heard(p, s, o) BY <1>1 DEF Took
  <2> QED BY <1>1, <2>1, <2>2, ScanOn
<1>2. CASE p.held
  <2>1. PICK u \in Seq(Bytes) : s = u \o <<"gt">> /\ After(p, u) /\ Heard(p, u, o) /\ p.start BY <1>2 DEF Took
  <2>2. PICK gt \in Seq(Bytes) : gt = <<"gt">> BY GtSp
  <2>3. (u \o gt) \o c = u \o (gt \o c) BY ConcatAssociative
  <2>4. s \o c = u \o (gt \o c) BY <2>1, <2>2, <2>3
  <2>5. CASE Head(c) = "sp"
    <3>1. ProcessChunk(p, c) = Scan(EmitPrompt(p), Tail(c)) BY <1>2, <2>5 DEF ProcessChunk
    <3>2. PICK t \in Seq(Bytes) : t = u \o <<"gt", "sp">>
      <4>1. PICK gs \in Seq(Bytes) : gs = <<"gt", "sp">> BY GtSp
      <4>2. u \o gs \in Seq(Bytes) OBVIOUS
      <4> QED BY <4>1, <4>2
    <3>3. After(EmitPrompt(p), t) /\ Heard(EmitPrompt(p), t, o) /\ ~EmitPrompt(p).held /\ EmitPrompt(p).on = p.on
      BY <2>1, <3>2, PromptOn
    <3>a. Tail(c) \in Seq(Bytes) /\ c = <<Head(c)>> \o Tail(c) OBVIOUS
    <3>4. PICK b \in Seq(Bytes) : b = Tail(c) BY <3>a
    <3>5. c = <<"sp">> \o b BY <2>5, <3>4, <3>a
    <3>6. gt \o c = <<"gt", "sp">> \o b BY <2>2, <3>5, GtSp
    <3>7. u \o (<<"gt", "sp">> \o b) = t \o b
      <4>1. PICK gs \in Seq(Bytes) : gs = <<"gt", "sp">> BY GtSp
      <4>2. Associates(u, gs, b) BY Associate
      <4> QED BY <3>2, <4>1, <4>2 DEF Associates
    <3>8. Took(Scan(EmitPrompt(p), b), t \o b, o) /\ Scan(EmitPrompt(p), b).on = p.on BY <3>3, ScanOn
    <3> QED BY <2>4, <3>1, <3>4, <3>6, <3>7, <3>8
  <2>6. CASE Head(c) # "sp"
    <3> DEFINE q == [p EXCEPT !.held = FALSE]
    <3>1. ProcessChunk(p, c) = Scan(q, gt \o c) BY <1>2, <2>2, <2>6 DEF ProcessChunk
    <3>2. p \in Pumps BY DEF Took
    <3>3. ~q.held /\ q.on = p.on /\ After(q, u) /\ Heard(q, u, o) BY <2>1, <3>2, HeldIs
    <3> HIDE DEF q
    <3>4. PICK d \in Seq(Bytes) : d = gt \o c
      <4>1. gt \o c \in Seq(Bytes) OBVIOUS
      <4> QED BY <4>1
    <3>5. Took(Scan(q, d), u \o d, o) /\ Scan(q, d).on = p.on BY <3>3, ScanOn
    <3> QED BY <2>4, <3>1, <3>4, <3>5
  <2> QED BY <2>5, <2>6
<1> QED BY <1>1, <1>2

-----------------------------------------------------------------------------
(* Text that is shown *)

\* A byte occurs in two texts together as often as in both.
LEMMA OccursJoin ==
  ASSUME NEW T, NEW s \in Seq(T), NEW t \in Seq(T), NEW b
  PROVE  /\ Occurs(b, s) \in Nat /\ Occurs(b, t) \in Nat
         /\ Occurs(b, s \o t) = Occurs(b, s) + Occurs(b, t)
<1> DEFINE A == {i \in DOMAIN s : s[i] = b}
<1> DEFINE B == {i \in DOMAIN t : t[i] = b}
<1> DEFINE C == {i \in DOMAIN (s \o t) : (s \o t)[i] = b}
<1>m. PICK m \in Nat : m = Len(s) /\ DOMAIN s = 1 .. m OBVIOUS
<1>n. PICK n \in Nat : n = Len(t) /\ DOMAIN t = 1 .. n OBVIOUS
<1> DEFINE D == {i \in m + 1 .. m + n : t[i - m] = b}
<1>1. C = A \cup D
  <2>1. /\ s \o t \in Seq(T) /\ Len(s \o t) = m + n
        /\ (\A i \in 1 .. m : (s \o t)[i] = s[i]) /\ \A i \in m + 1 .. m + n : (s \o t)[i] = t[i - m]
    BY <1>m, <1>n, Joined
  <2>2. DOMAIN (s \o t) = 1 .. m + n BY <2>1
  <2>3. 1 .. m + n = (1 .. m) \cup (m + 1 .. m + n) OBVIOUS
  <2>4. A = {i \in 1 .. m : s[i] = b} BY <1>m
  <2> QED BY <2>1, <2>2, <2>3, <2>4
<1>2. A \cap D = {} BY <1>m
<1>3. IsFiniteSet(1 .. m) /\ IsFiniteSet(1 .. n) /\ IsFiniteSet(m + 1 .. m + n) BY FS_Interval
<1>4. IsFiniteSet(A) /\ IsFiniteSet(B) /\ IsFiniteSet(D)
  <2>1. A \in SUBSET (1 .. m) /\ B \in SUBSET (1 .. n) /\ D \in SUBSET (m + 1 .. m + n) BY <1>m, <1>n
  <2> HIDE DEF A, B, D
  <2> QED BY <1>3, <2>1, FS_Subset
<1>5. ExistsBijection(B, D)
  <2> DEFINE f == [i \in B |-> i + m]
  <2>1. f \in [B -> D]
    <3>1. ASSUME NEW i \in B PROVE i + m \in D
      <4>1. i \in 1 .. n /\ t[i] = b BY <1>n
      <4>2. i + m \in m + 1 .. m + n /\ i + m - m = i BY <4>1
      <4> QED BY <4>1, <4>2
    <3> HIDE DEF B, D
    <3> QED BY <3>1
  <2>2. B \subseteq Nat BY <1>n
  <2>3. ASSUME NEW i \in B, NEW j \in B, f[i] = f[j] PROVE i = j
    <3>1. i \in Nat /\ j \in Nat BY <2>2
    <3>2. f[i] = i + m /\ f[j] = j + m OBVIOUS
    <3>3. i + m = j + m BY <2>3, <3>2
    <3> HIDE DEF B, f
    <3> QED BY <1>m, <3>1, <3>3
  <2>4. ASSUME NEW d \in D PROVE \E i \in B : f[i] = d
    <3>1. PICK i \in 1 .. n : i = d - m OBVIOUS
    <3>2. i \in B /\ i + m = d BY <1>n, <3>1
    <3>3. f[i] = d BY <3>2
    <3> QED BY <3>2, <3>3
  <2> HIDE DEF f, B, D
  <2>5. f \in Bijection(B, D) BY <2>1, <2>3, <2>4 DEF Bijection, Injection, Surjection, IsInjective
  <2> QED BY <2>5 DEF ExistsBijection
<1>6. Cardinality(D) = Cardinality(B) BY <1>4, <1>5, FS_Bijection
<1>7. Cardinality(A) \in Nat /\ Cardinality(B) \in Nat BY <1>4, FS_CardinalityType
<1>8. Cardinality(A \cup D) = Cardinality(A) + Cardinality(D)
  <2> HIDE DEF A, D
  <2>1. Cardinality(A \cup D) = Cardinality(A) + Cardinality(D) - Cardinality(A \cap D) BY <1>4, FS_Union
  <2>2. Cardinality(A \cap D) = 0 BY <1>2, FS_EmptySet
  <2>3. Cardinality(D) \in Nat BY <1>4, FS_CardinalityType
  <2> QED BY <1>7, <2>1, <2>2, <2>3
<1>9. Occurs(b, s) = Cardinality(A) /\ Occurs(b, t) = Cardinality(B) /\ Occurs(b, s \o t) = Cardinality(C) BY DEF Occurs
<1> HIDE DEF A, B, C, D
<1> QED BY <1>1, <1>6, <1>7, <1>8, <1>9

Swallowing == [text : Seq(Symbols), echoes : Seq(Nat), extra : Nat, over : BOOLEAN]

\* The echo filter, a byte and a chunk at a time.
LEMMA SwallowByteType ==
  ASSUME NEW s \in Swallowing, NEW b \in Symbols
  PROVE  SwallowByte(s, b) \in Swallowing
<1>1. s.text \in Seq(Symbols) /\ s.echoes \in Seq(Nat) /\ s.extra \in Nat /\ s.over \in BOOLEAN BY DEF Swallowing
<1>2. Append(s.text, b) \in Seq(Symbols) BY <1>1
<1>3. CASE s.over \/ s.echoes = <<>>
  <2>1. SwallowByte(s, b) = [s EXCEPT !.text = Append(s.text, b)] BY <1>3 DEF SwallowByte
  <2> QED BY <1>2, <2>1 DEF Swallowing
<1>4. CASE ~(s.over \/ s.echoes = <<>>)
  <2>1. Len(s.echoes) > 0 /\ 1 \in 1 .. Len(s.echoes) /\ Head(s.echoes) \in Nat /\ Tail(s.echoes) \in Seq(Nat)
        /\ Head(s.echoes) = s.echoes[1]
    BY <1>1, <1>4
  <2>2. CASE Head(s.echoes) > 0 /\ b = "x"
    <3> DEFINE es == [s.echoes EXCEPT ![1] = @ - 1]
    <3>1. s.echoes[1] - 1 \in Nat BY <2>1, <2>2
    <3>2. es \in Seq(Nat) BY <1>1, <2>1, <3>1, ExceptSeq
    <3>3. SwallowByte(s, b) = [s EXCEPT !.echoes = es] BY <1>4, <2>2 DEF SwallowByte
    <3> HIDE DEF es
    <3> QED BY <3>2, <3>3 DEF Swallowing
  <2>3. CASE ~(Head(s.echoes) > 0 /\ b = "x")
    <3> DEFINE x == IF b = "nl" /\ Head(s.echoes) = 0 THEN s.text ELSE Append(s.text, b)
    <3> DEFINE v == b # "nl" \/ Head(s.echoes) # 0
    <3>1. x \in Seq(Symbols) /\ v \in BOOLEAN BY <1>1, <1>2
    <3>2. SwallowByte(s, b) = [echoes |-> Tail(s.echoes), extra |-> s.extra + 1, over |-> v, text |-> x]
      BY <1>4, <2>3 DEF SwallowByte
    <3> HIDE DEF x, v
    <3> QED BY <1>1, <2>1, <3>1, <3>2 DEF Swallowing
  <2> QED BY <2>2, <2>3
<1> QED BY <1>3, <1>4

LEMMA SwallowType ==
  ASSUME NEW es \in Seq(Nat), NEW k \in Nat, NEW c \in Seq(Symbols)
  PROVE  Swallow(es, k, c) \in Swallowing
<1> DEFINE S == Swallowing
<1> DEFINE s0 == [text |-> <<>>, echoes |-> es, extra |-> k, over |-> FALSE]
<1>0. PICK n \in Nat : n = Len(c) OBVIOUS
<1> DEFINE G == [x \in S \X (1 .. n) |-> SwallowByte(x[1], c[x[2]])]
<1>1. s0 \in S BY DEF Swallowing
<1>2. G \in [S \X (1 .. n) -> S]
  <2>1. ASSUME NEW x \in S \X (1 .. n) PROVE SwallowByte(x[1], c[x[2]]) \in S
    <3> HIDE DEF S
    <3>1. x[1] \in S /\ x[2] \in 1 .. n OBVIOUS
    <3>2. c[x[2]] \in Symbols BY <1>0, <3>1
    <3> QED BY <3>1, <3>2, SwallowByteType DEF S
  <2> HIDE DEF S
  <2> QED BY <2>1
<1>3. \A s \in S, i \in 1 .. n : G[<<s, i>>] = SwallowByte(s, c[i])
  <2> HIDE DEF S
  <2> QED OBVIOUS
<1> HIDE DEF S, s0, G
<1>4. Recursive(S, n, s0, G) BY <1>1, <1>2, Recursion
<1>5. PICK r \in [0 .. n -> S] : r[0] = s0 /\ \A i \in 1 .. n : r[i] = G[<<r[i - 1], i>>] BY <1>4 DEF Recursive
<1>6. ASSUME NEW i \in 1 .. n PROVE r[i] = SwallowByte(r[i - 1], c[i])
  <2>1. i - 1 \in 0 .. n BY <1>0
  <2>2. r[i - 1] \in S BY <2>1
  <2>3. r[i] = G[<<r[i - 1], i>>] BY <1>5
  <2> QED BY <1>3, <2>2, <2>3
<1> DEFINE after[i \in 0 .. Len(c)] ==
      IF i = 0 THEN [text |-> <<>>, echoes |-> es, extra |-> k, over |-> FALSE] ELSE SwallowByte(after[i - 1], c[i])
<1>7. ASSUME NEW i \in 0 .. n
      PROVE  r[i] = IF i = 0 THEN [text |-> <<>>, echoes |-> es, extra |-> k, over |-> FALSE]
                    ELSE SwallowByte(r[i - 1], c[i])
  <2>1. i = 0 \/ i \in 1 .. n OBVIOUS
  <2> QED BY <1>5, <1>6, <2>1 DEF s0
<1>8. r = [i \in 0 .. Len(c) |-> IF i = 0 THEN [text |-> <<>>, echoes |-> es, extra |-> k, over |-> FALSE]
                                 ELSE SwallowByte(r[i - 1], c[i])]
  BY <1>0, <1>7
<1>9. after = [i \in 0 .. Len(c) |-> IF i = 0 THEN [text |-> <<>>, echoes |-> es, extra |-> k, over |-> FALSE]
                                 ELSE SwallowByte(after[i - 1], c[i])]
  BY <1>8
<1>10. Swallow(es, k, c) = after[n] BY <1>0 DEF Swallow
<1>11. ASSUME NEW i \in 0 .. n
       PROVE  after[i] = IF i = 0 THEN [text |-> <<>>, echoes |-> es, extra |-> k, over |-> FALSE]
                         ELSE SwallowByte(after[i - 1], c[i])
  <2> HIDE DEF after
  <2> QED BY <1>0, <1>9
<1> HIDE DEF after
<1> DEFINE P == {i \in 0 .. n : after[i] \in S}
<1>12. 0 \in P
  <2>1. 0 \in 0 .. n BY <1>0
  <2>2. after[0] = [text |-> <<>>, echoes |-> es, extra |-> k, over |-> FALSE] BY <1>11, <2>1
  <2>3. after[0] \in S BY <1>1, <2>2 DEF s0
  <2> QED BY <2>1, <2>3
<1>13. ASSUME NEW i \in 0 .. n, i \in P, i < n PROVE i + 1 \in P
  <2>1. PICK j \in 1 .. n : j = i + 1 /\ j - 1 = i /\ j # 0 BY <1>13
  <2>2. after[j] = SwallowByte(after[j - 1], c[j])
    <3>1. j \in 0 .. n BY <2>1
    <3> QED BY <1>11, <2>1, <3>1
  <2>3. after[i] \in S /\ c[j] \in Symbols BY <1>0, <1>13
  <2>4. SwallowByte(after[i], c[j]) \in S BY <2>3, SwallowByteType DEF S
  <2>5. after[j] \in S /\ j \in 0 .. n BY <2>1, <2>2, <2>4
  <2>6. j \in P BY <2>5
  <2> QED BY <2>1, <2>6
<1>14. \A i \in 0 .. n : i \in P /\ i < n => i + 1 \in P BY <1>13
<1> HIDE DEF P
<1>15. 0 .. n \subseteq P BY <1>12, <1>14, Inductive
<1>16. n \in P BY <1>15
<1> QED BY <1>10, <1>16 DEF P, S

-----------------------------------------------------------------------------
(* The session *)

PumpKnows ==
  /\ stream \in Seq(Bytes) /\ told \in Seq(Symbols) /\ events \in Seq(Events)
  /\ pump \in Pumps /\ pump.out = <<>>
  /\ pump.on => Took(pump, stream, told)

Ordered(sh, pe, ta, em) ==
  /\ ~em => sh \o pe = ta
  /\ \A b : Occurs(b, sh \o pe) = Occurs(b, ta)

LoopTypes ==
  /\ shown \in Seq(Symbols) /\ pending \in Seq(Symbols) /\ taken \in Seq(Symbols)
  /\ buf \in Nat /\ form \in Nat /\ echoes \in Seq(Nat) /\ extra \in Nat
  /\ emptied \in BOOLEAN
ShownInv ==
  /\ Ordered(shown, pending, taken, emptied)
  /\ pending # <<>> /\ buf = 0 => emptied
  /\ pending # <<>> => idle /\ ~exit

SessionInv == PumpKnows /\ LoopTypes /\ ShownInv

\* What the pump has told once it has sent its events.
LEMMA TookSent ==
  ASSUME NEW q, NEW t \in Seq(Bytes), NEW o \in Seq(Symbols), Took(q, t, o)
  PROVE  /\ [q EXCEPT !.out = <<>>] \in Pumps /\ [q EXCEPT !.out = <<>>].out = <<>>
         /\ [q EXCEPT !.out = <<>>].on = q.on
         /\ q.out \in Seq(Events)
         /\ o \o Flat(q.out) \in Seq(Symbols)
         /\ Took([q EXCEPT !.out = <<>>], t, o \o Flat(q.out))
<1> DEFINE r == [q EXCEPT !.out = <<>>]
<1>1. q \in Pumps BY DEF Took
<1>2. r \in Pumps /\ r.out = <<>> /\ r.on = q.on /\ r.held = q.held /\ r.start = q.start /\ r.line = q.line
      /\ r.reset = q.reset /\ q.out \in Seq(Events) /\ q.held \in BOOLEAN
  <2>1. <<>> \in Seq(Events) OBVIOUS
  <2>2. q.out \in Seq(Events) /\ q.held \in BOOLEAN BY <1>1 DEF Pumps
  <2> HIDE DEF Events
  <2> QED BY <1>1, <2>1, <2>2 DEF Pumps
<1> HIDE DEF r
<1>3. Flat(q.out) \in Seq(Symbols) BY <1>2, FlatEvents
<1>4. PICK g \in Seq(Symbols) : g = o \o Flat(q.out)
  <2>1. o \o Flat(q.out) \in Seq(Symbols) BY <1>3
  <2> QED BY <2>1
<1>5. g \o Flat(r.out) = g
  <2>1. Flat(r.out) = <<>> BY <1>2, FlatEvents
  <2>2. g \o <<>> = g BY <1>4
  <2> QED BY <2>1, <2>2
<1>6. ASSUME NEW u, After(q, u), Heard(q, u, o) PROVE After(r, u) /\ Heard(r, u, g)
  <2>1. After(r, u) BY <1>2, <1>6 DEF After
  <2>2. g = Told(u) BY <1>4, <1>6 DEF Heard
  <2> QED BY <1>5, <2>1, <2>2 DEF Heard
<1>7. Took(r, t, g)
  <2>1. CASE ~q.held BY <1>2, <1>6, <2>1 DEF Took
  <2>2. CASE q.held
    <3>1. PICK u \in Seq(Bytes) : t = u \o <<"gt">> /\ After(q, u) /\ Heard(q, u, o) /\ q.start BY <2>2 DEF Took
    <3>2. After(r, u) /\ Heard(r, u, g) BY <1>6, <3>1
    <3> QED BY <1>2, <2>2, <3>1, <3>2 DEF Took
  <2> QED BY <2>1, <2>2
<1> QED BY <1>2, <1>4, <1>7 DEF r

\* The pump begins with the meaning of nothing.
LEMMA TookNothing ==
  ASSUME NEW p, p = [line |-> "none", start |-> TRUE, reset |-> FALSE, held |-> FALSE, on |-> TRUE, out |-> <<>>]
  PROVE  p \in Pumps /\ Took(p, <<>>, <<>>)
<1>1. p \in Pumps
  <2>1. <<>> \in Seq(Events) OBVIOUS
  <2> HIDE DEF Events
  <2> QED BY <2>1 DEF Pumps, PumpLines
<1>2. LineText(<<>>, 1) = {} /\ ~InReset(<<>>, 1) BY DEF LineText, InReset
<1>3. p.start /\ p.line = "none" /\ ~p.reset /\ ~p.held /\ p.out = <<>> OBVIOUS
<1>4. After(p, <<>>)
  <2>1. Len(<<>>) + 1 = 1 OBVIOUS
  <2>2. LineAt(<<>>, 1) = "none" BY <1>2 DEF LineAt
  <2> QED BY <1>1, <1>2, <1>3, <2>1, <2>2 DEF After, Unheld
<1>5. Heard(p, <<>>, <<>>)
  <2>1. Flat(p.out) = <<>> BY <1>3, FlatEvents
  <2>2. Meanings(<<>>) = <<>> BY DEF Meanings
  <2>3. Told(<<>>) = <<>> BY <2>2, FlatEmpty DEF Told
  <2>4. <<>> \o <<>> = <<>> OBVIOUS
  <2> QED BY <2>1, <2>3, <2>4 DEF Heard
<1> QED BY <1>1, <1>3, <1>4, <1>5 DEF Took

\* The invariant holds at the start, and every step of the pump, the loop, the
\* user and the timer keeps it.
LEMMA SessionBegins ==
  ASSUME ConnectInit PROVE SessionInv
<1>1. PumpKnows
  <2>1. stream = <<>> /\ told = <<>> /\ events = <<>> /\ pump.out = <<>> BY DEF ConnectInit
  <2>2. pump \in Pumps /\ Took(pump, <<>>, <<>>) BY TookNothing DEF ConnectInit
  <2>3. <<>> \in Seq(Bytes) /\ <<>> \in Seq(Symbols) /\ <<>> \in Seq(Events) OBVIOUS
  <2> QED BY <2>1, <2>2, <2>3 DEF PumpKnows
<1>2. LoopTypes
  <2>1. <<>> \in Seq(Symbols) /\ <<>> \in Seq(Nat) OBVIOUS
  <2> HIDE DEF Symbols
  <2> QED BY <2>1 DEF ConnectInit, LoopTypes
<1>3. ShownInv
  <2>1. <<>> \o <<>> = <<>> OBVIOUS
  <2> QED BY <2>1 DEF ConnectInit, ShownInv, Ordered
<1> QED BY <1>1, <1>2, <1>3 DEF SessionInv

LEMMA PumpChunkStep ==
  ASSUME SessionInv, PumpChunk PROVE SessionInv'
<1>1. PICK n \in 1 .. MaxBytes - Len(stream) : \E c \in [1 .. n -> Bytes] :
         stream' = stream \o c /\ Emitted(ProcessChunk(pump, c)) BY DEF PumpChunk
<1>2. PICK c \in [1 .. n -> Bytes] : stream' = stream \o c /\ Emitted(ProcessChunk(pump, c)) BY <1>1
<1>3. n \in Nat /\ n # 0 BY <1>1
<1>4. PICK d \in Seq(Bytes) : d = c /\ d # <<>>
  <2>1. c \in Seq(Bytes) /\ c # <<>> BY <1>3
  <2> QED BY <2>1
<1>5. pump.on /\ Took(pump, stream, told) /\ stream \in Seq(Bytes) /\ told \in Seq(Symbols) /\ events \in Seq(Events)
  BY DEF SessionInv, PumpKnows, PumpChunk
<1> DEFINE q == ProcessChunk(pump, d)
<1>6. PICK t \in Seq(Bytes) : t = stream \o d
  <2>1. stream \o d \in Seq(Bytes) BY <1>5
  <2> QED BY <2>1
<1>7. Took(q, t, told) /\ q.on = pump.on BY <1>4, <1>5, <1>6, ChunkOn
<1>8. stream' = t /\ pump' = [q EXCEPT !.out = <<>>] /\ events' = events \o q.out /\ told' = told \o Flat(q.out)
  BY <1>2, <1>4, <1>6 DEF Emitted
<1> HIDE DEF q
<1>9. PumpKnows'
  <2>1. /\ pump' \in Pumps /\ pump'.out = <<>> /\ q.out \in Seq(Events) /\ told' \in Seq(Symbols)
        /\ Took(pump', t, told')
    BY <1>5, <1>7, <1>8, TookSent
  <2>2. events' \in Seq(Events)
    <3> HIDE DEF Events
    <3> QED BY <1>5, <1>8, <2>1
  <2> QED BY <1>8, <2>1, <2>2 DEF PumpKnows
<1>10. LoopTypes' /\ ShownInv'
  BY DEF SessionInv, LoopTypes, ShownInv, PumpChunk, lineVars, textVars, echoVars
<1> QED BY <1>9, <1>10 DEF SessionInv

LEMMA PumpErrorStep ==
  ASSUME SessionInv, PumpError PROVE SessionInv'
<1> DEFINE p == IF pump.held THEN EmitBytes([pump EXCEPT !.held = FALSE], <<"gt">>) ELSE pump
<1> DEFINE q == [p EXCEPT !.on = FALSE, !.out = Append(@, Event("error"))]
<1>1. Emitted(q) /\ UNCHANGED <<stream, lineVars, textVars, echoVars, exit>> BY DEF PumpError
<1>2. pump \in Pumps /\ stream \in Seq(Bytes) /\ told \in Seq(Symbols) /\ events \in Seq(Events)
  BY DEF SessionInv, PumpKnows
<1>3. p \in Pumps
  <2>1. CASE pump.held
    <3>1. [pump EXCEPT !.held = FALSE] \in Pumps BY <1>2, HeldIs
    <3>2. PICK gt \in Seq(Bytes) : gt = <<"gt">> BY GtSp
    <3>3. gt # <<>> BY <3>2
    <3>4. EmitBytes([pump EXCEPT !.held = FALSE], gt) \in Pumps BY <3>1, <3>3, EmitBytesIs
    <3> QED BY <2>1, <3>2, <3>4
  <2>2. CASE ~pump.held BY <1>2, <2>2
  <2> QED BY <2>1, <2>2
<1> HIDE DEF p
<1>4. p.out \in Seq(Events) BY <1>3 DEF Pumps
<1>5. Append(p.out, Event("error")) \in Seq(Events)
  <2>1. Event("error") \in Events BY EventText DEF Notices
  <2> HIDE DEF Events
  <2> QED BY <1>4, <2>1
<1>6. q.out \in Seq(Events) /\ [q EXCEPT !.out = <<>>] \in Pumps /\ [q EXCEPT !.out = <<>>].out = <<>>
      /\ ~[q EXCEPT !.out = <<>>].on
  <2>1. <<>> \in Seq(Events) OBVIOUS
  <2> DEFINE o == Append(p.out, Event("error"))
  <2> HIDE DEF o
  <2>2. q = [p EXCEPT !.on = FALSE, !.out = o] BY <1>3 DEF o, Pumps
  <2>3. o \in Seq(Events) BY <1>5 DEF o
  <2>4. q \in Pumps /\ q.out = o /\ ~q.on BY <1>3, <2>2, <2>3 DEF Pumps
  <2> HIDE DEF q
  <2> QED BY <2>1, <2>3, <2>4 DEF Pumps
<1> HIDE DEF q
<1>7. events' \in Seq(Events) /\ told' \in Seq(Symbols)
  <2>1. Flat(q.out) \in Seq(Symbols) BY <1>6, FlatEvents
  <2>2. events' = events \o q.out /\ told' = told \o Flat(q.out) BY <1>1 DEF Emitted
  <2> QED BY <1>2, <1>6, <2>1, <2>2
<1>8. pump' = [q EXCEPT !.out = <<>>] /\ stream' = stream BY <1>1 DEF Emitted
<1>9. PumpKnows' BY <1>2, <1>6, <1>7, <1>8 DEF PumpKnows
<1>10. LoopTypes' /\ ShownInv'
  BY <1>1 DEF SessionInv, LoopTypes, ShownInv, lineVars, textVars, echoVars
<1> QED BY <1>9, <1>10 DEF SessionInv

\* Text that is flushed keeps its order, and none is held afterwards.
LEMMA Flushed ==
  ASSUME SessionInv, Flush, UNCHANGED <<taken, emptied>>
  PROVE  /\ shown' \in Seq(Symbols) /\ pending' = <<>> /\ pending' \in Seq(Symbols)
         /\ Ordered(shown, pending, taken, emptied)' /\ ShownInv'
<1>1. shown \in Seq(Symbols) /\ pending \in Seq(Symbols) /\ Ordered(shown, pending, taken, emptied)
  BY DEF SessionInv, LoopTypes, ShownInv
<1>2. PICK s \in Seq(Symbols) : s = shown \o pending
  <2>1. shown \o pending \in Seq(Symbols) BY <1>1
  <2> QED BY <2>1
<1>3. s \o <<>> = s /\ <<>> \in Seq(Symbols) BY <1>2
<1>4. shown' = s /\ pending' = <<>> BY <1>2 DEF Flush
<1>5. Ordered(shown', pending', taken', emptied') BY <1>1, <1>2, <1>3, <1>4 DEF Ordered
<1> QED BY <1>2, <1>3, <1>4, <1>5 DEF ShownInv, Ordered

\* Text that follows keeps the order, shown or held behind what is held.
LEMMA OrderedOn ==
  ASSUME NEW sh \in Seq(Symbols), NEW pe \in Seq(Symbols), NEW ta \in Seq(Symbols), NEW em \in BOOLEAN,
         NEW c \in Seq(Symbols), Ordered(sh, pe, ta, em)
  PROVE  /\ Ordered(sh, pe \o c, ta \o c, em)
         /\ (pe = <<>> \/ em) => Ordered(sh \o c, pe, ta \o c, em)
<1>1. (sh \o pe) \o c = sh \o (pe \o c) BY ConcatAssociative
<1>2. \A b : Occurs(b, sh \o pe) = Occurs(b, ta) BY DEF Ordered
<1>3. ASSUME NEW b
      PROVE  /\ Occurs(b, sh \o (pe \o c)) = Occurs(b, ta \o c)
             /\ Occurs(b, (sh \o c) \o pe) = Occurs(b, ta \o c)
  <2>1. PICK p \in Seq(Symbols) : p = pe \o c
    <3>1. pe \o c \in Seq(Symbols) OBVIOUS
    <3> QED BY <3>1
  <2>2. PICK q \in Seq(Symbols) : q = sh \o c
    <3>1. sh \o c \in Seq(Symbols) OBVIOUS
    <3> QED BY <3>1
  <2>3. Occurs(b, pe \o c) = Occurs(b, pe) + Occurs(b, c) /\ Occurs(b, pe) \in Nat /\ Occurs(b, c) \in Nat
    BY OccursJoin
  <2>4. Occurs(b, sh \o c) = Occurs(b, sh) + Occurs(b, c) /\ Occurs(b, sh) \in Nat BY OccursJoin
  <2>5. Occurs(b, sh \o pe) = Occurs(b, sh) + Occurs(b, pe) BY OccursJoin
  <2>6. Occurs(b, ta \o c) = Occurs(b, ta) + Occurs(b, c) /\ Occurs(b, ta) \in Nat BY OccursJoin
  <2>7. Occurs(b, sh \o p) = Occurs(b, sh) + Occurs(b, p) BY OccursJoin
  <2>8. Occurs(b, q \o pe) = Occurs(b, q) + Occurs(b, pe) BY OccursJoin
  <2>9. Occurs(b, sh \o pe) = Occurs(b, ta) BY <1>2
  <2>10. Occurs(b, sh \o p) = Occurs(b, ta \o c) BY <2>1, <2>3, <2>4, <2>5, <2>6, <2>7, <2>9
  <2>11. Occurs(b, q \o pe) = Occurs(b, ta \o c) BY <2>2, <2>3, <2>4, <2>5, <2>6, <2>8, <2>9
  <2> QED BY <2>1, <2>2, <2>10, <2>11
<1>4. ~em => sh \o (pe \o c) = ta \o c BY <1>1 DEF Ordered
<1>5. ~em /\ pe = <<>> => (sh \o c) \o pe = ta \o c
  <2>1. SUFFICES ASSUME ~em, pe = <<>> PROVE (sh \o c) \o pe = ta \o c OBVIOUS
  <2>2. sh \o pe = ta BY <2>1 DEF Ordered
  <2>3. sh \o <<>> = sh OBVIOUS
  <2>4. PICK q \in Seq(Symbols) : q = sh \o c
    <3>1. sh \o c \in Seq(Symbols) OBVIOUS
    <3> QED BY <3>1
  <2>5. q \o <<>> = q OBVIOUS
  <2> QED BY <2>1, <2>2, <2>3, <2>4, <2>5
<1> QED BY <1>3, <1>4, <1>5 DEF Ordered

LEMMA TakeTextStep ==
  ASSUME SessionInv, ~exit, TakeText, events' = Tail(events), UNCHANGED pumpVars
  PROVE  SessionInv'
<1>0. /\ shown \in Seq(Symbols) /\ pending \in Seq(Symbols) /\ taken \in Seq(Symbols)
      /\ buf \in Nat /\ form \in Nat /\ echoes \in Seq(Nat) /\ extra \in Nat /\ emptied \in BOOLEAN
  BY DEF SessionInv, LoopTypes
<1>i. /\ Ordered(shown, pending, taken, emptied) /\ (pending # <<>> /\ buf = 0 => emptied)
      /\ (pending # <<>> => idle /\ ~exit)
  BY DEF SessionInv, ShownInv
<1>e. events \in Seq(Events) /\ events # <<>> /\ Head(events) \in Events /\ Tail(events) \in Seq(Events)
  <2>1. events \in Seq(Events) /\ events # <<>> BY DEF SessionInv, PumpKnows, TakeText
  <2> HIDE DEF Events
  <2> QED BY <2>1
<1> DEFINE s == Swallow(echoes, extra, TextOf(Head(events)))
<1>1. /\ echoes' = s.echoes /\ extra' = s.extra /\ taken' = taken \o s.text /\ WriteText(s.text)
      /\ UNCHANGED <<lineVars, exit>>
  BY DEF TakeText
<1>2. s \in Swallowing
  <2>1. TextOf(Head(events)) \in Seq(Symbols) BY <1>e, EventText
  <2> QED BY <1>0, <2>1, SwallowType
<1>3. s.text \in Seq(Symbols) /\ s.echoes \in Seq(Nat) /\ s.extra \in Nat
  <2> HIDE DEF s
  <2> QED BY <1>2 DEF Swallowing
<1> HIDE DEF s
<1>4. PICK c \in Seq(Symbols) : c = s.text BY <1>3
<1>5. taken' = taken \o c /\ WriteText(c) /\ UNCHANGED <<buf, form, once, keys, emptied, exit>>
  BY <1>1, <1>4 DEF lineVars
<1>6. taken \o c \in Seq(Symbols) /\ shown \o c \in Seq(Symbols) /\ pending \o c \in Seq(Symbols)
  BY <1>0
<1>7. PumpKnows'
  <2>1. UNCHANGED <<stream, pump, told>> BY DEF pumpVars
  <2>2. events' \in Seq(Events) BY <1>e
  <2> QED BY <2>1, <2>2 DEF SessionInv, PumpKnows
<1>8. CASE buf = 0
  <2>1. shown' = shown \o c /\ pending' = pending /\ idle' = idle BY <1>5, <1>8 DEF WriteText
  <2>2. Ordered(shown \o c, pending, taken \o c, emptied) BY <1>0, <1>i, <1>8, OrderedOn
  <2>3. LoopTypes' BY <1>0, <1>1, <1>3, <1>5, <1>6, <2>1 DEF LoopTypes
  <2>4. ShownInv'
    <3>1. Ordered(shown', pending', taken', emptied') BY <1>5, <2>1, <2>2
    <3> QED BY <1>i, <1>5, <2>1, <3>1 DEF ShownInv, Ordered
  <2> QED BY <1>7, <2>3, <2>4 DEF SessionInv
<1>9. CASE buf # 0
  <2>1. shown' = shown /\ pending' = pending \o c /\ idle' = (idle \/ c # <<>>) BY <1>5, <1>9 DEF WriteText
  <2>2. Ordered(shown, pending \o c, taken \o c, emptied) BY <1>0, <1>i, OrderedOn
  <2>3. LoopTypes' BY <1>0, <1>1, <1>3, <1>5, <1>6, <2>1 DEF LoopTypes
  <2>4. pending \o c # <<>> => pending # <<>> \/ c # <<>> BY <1>0
  <2>5. ShownInv'
    <3>1. Ordered(shown', pending', taken', emptied') BY <1>5, <2>1, <2>2
    <3>2. pending' # <<>> => idle' /\ ~exit'
      <4>1. ~exit' BY <1>5
      <4> QED BY <1>i, <2>1, <2>4, <4>1
    <3> QED BY <1>5, <1>9, <3>1, <3>2 DEF ShownInv, Ordered
  <2> QED BY <1>7, <2>3, <2>5 DEF SessionInv
<1> QED BY <1>8, <1>9

LEMMA TakePromptStep ==
  ASSUME SessionInv, TakePrompt, events' = Tail(events), UNCHANGED pumpVars
  PROVE  SessionInv'
<1>1. events' \in Seq(Events)
  <2>1. events \in Seq(Events) /\ events # <<>> BY DEF SessionInv, PumpKnows, TakePrompt
  <2> HIDE DEF Events
  <2> QED BY <2>1
<1>2. PumpKnows'
  <2>1. UNCHANGED <<stream, pump, told>> BY DEF pumpVars
  <2> QED BY <1>1, <2>1 DEF SessionInv, PumpKnows
<1>3. echoes' \in Seq(Nat) /\ extra' \in Nat
  <2>1. echoes \in Seq(Nat) /\ extra \in Nat BY DEF SessionInv, LoopTypes
  <2>2. echoes # <<>> => Tail(echoes) \in Seq(Nat) BY <2>1
  <2>3. extra' = IF extra > 0 THEN extra - 1 ELSE extra BY DEF TakePrompt
  <2>4. echoes' = echoes \/ (echoes # <<>> /\ echoes' = Tail(echoes)) BY DEF TakePrompt
  <2> QED BY <2>1, <2>2, <2>3, <2>4
<1>4. UNCHANGED <<shown, pending, taken, buf, form, emptied, idle, exit>> BY DEF TakePrompt, lineVars, textVars
<1>5. LoopTypes' BY <1>3, <1>4 DEF SessionInv, LoopTypes
<1>6. ShownInv' BY <1>4 DEF SessionInv, ShownInv, Ordered
<1> QED BY <1>2, <1>5, <1>6 DEF SessionInv

\* A step that flushes the held text: what else it changes is typed.
LEMMA FlushStep ==
  ASSUME SessionInv, Flush, events' \in Seq(Events), UNCHANGED pumpVars, UNCHANGED <<taken, emptied, extra>>,
         buf' \in Nat, form' \in Nat, echoes' \in Seq(Nat)
  PROVE  SessionInv'
<1>1. PumpKnows'
  <2>1. UNCHANGED <<stream, pump, told>> BY DEF pumpVars
  <2> QED BY <2>1 DEF SessionInv, PumpKnows
<1>2. shown' \in Seq(Symbols) /\ pending' \in Seq(Symbols) /\ ShownInv' BY Flushed
<1>3. LoopTypes' BY <1>2 DEF SessionInv, LoopTypes
<1> QED BY <1>1, <1>2, <1>3 DEF SessionInv

LEMMA TakeErrorStep ==
  ASSUME SessionInv, TakeError, events' = Tail(events), UNCHANGED pumpVars
  PROVE  SessionInv'
<1>1. events' \in Seq(Events)
  <2>1. events \in Seq(Events) /\ events # <<>> BY DEF SessionInv, PumpKnows, TakeError
  <2> HIDE DEF Events
  <2> QED BY <2>1
<1>2. Flush /\ UNCHANGED <<taken, emptied, extra, buf, form, echoes>> BY DEF TakeError, Leave, lineVars, echoVars
<1>3. buf' \in Nat /\ form' \in Nat /\ echoes' \in Seq(Nat) BY <1>2 DEF SessionInv, LoopTypes
<1> QED BY <1>1, <1>2, <1>3, FlushStep

\* A key that changes the line and nothing else.
LEMMA EditedStep ==
  ASSUME SessionInv, NEW n \in Nat, Edited(n), UNCHANGED <<pumpVars, events, textVars, echoVars, exit>>,
         form' \in Nat
  PROVE  SessionInv'
<1>1. UNCHANGED <<stream, pump, told, events, shown, pending, taken, echoes, extra, idle, exit>>
  BY DEF pumpVars, textVars, echoVars
<1>2. buf' = n /\ emptied' = (emptied \/ (n = 0 /\ pending # <<>>)) BY DEF Edited
<1>3. PumpKnows' BY <1>1 DEF SessionInv, PumpKnows
<1>4. emptied' \in BOOLEAN BY <1>2 DEF SessionInv, LoopTypes
<1>5. LoopTypes' BY <1>1, <1>2, <1>4 DEF SessionInv, LoopTypes
<1>6. ShownInv'
  <2>1. Ordered(shown', pending', taken', emptied') BY <1>1, <1>2 DEF SessionInv, ShownInv, Ordered
  <2>2. pending' # <<>> /\ buf' = 0 => emptied' BY <1>1, <1>2
  <2>3. pending' # <<>> => idle' /\ ~exit' BY <1>1 DEF SessionInv, ShownInv
  <2> QED BY <2>1, <2>2, <2>3 DEF ShownInv, Ordered
<1> QED BY <1>3, <1>5, <1>6 DEF SessionInv

LEMMA EditStep ==
  ASSUME SessionInv, Edit PROVE SessionInv'
<1>1. PICK n \in 0 .. MaxTyped : Edited(n) BY DEF Edit
<1>2. n \in Nat BY ConnectAssumption
<1>3. UNCHANGED <<pumpVars, events, textVars, echoVars, exit>> /\ form' = form BY DEF Edit, Key
<1>4. form' \in Nat BY <1>3 DEF SessionInv, LoopTypes
<1> QED BY <1>1, <1>2, <1>3, <1>4, EditedStep

LEMMA SubmitStep ==
  ASSUME SessionInv, Submit PROVE SessionInv'
<1>1. Flush /\ UNCHANGED pumpVars /\ UNCHANGED <<taken, emptied, extra>> /\ buf' \in Nat BY DEF Submit, Key
<1>2. buf \in Nat /\ form \in Nat /\ echoes \in Seq(Nat) BY DEF SessionInv, LoopTypes
<1>3. form + buf \in Nat /\ Append(echoes, form + buf) \in Seq(Nat) BY <1>2
<1>4. form' \in Nat /\ echoes' \in Seq(Nat)
  <2>1. CASE form' = form + buf /\ UNCHANGED echoes BY <1>2, <1>3, <2>1
  <2>2. CASE form' = 0 /\ echoes' \in {echoes, IF form + buf = 0 THEN echoes ELSE Append(echoes, form + buf)}
    <3>1. echoes' = echoes \/ echoes' = Append(echoes, form + buf) BY <2>2
    <3> QED BY <1>2, <1>3, <2>2, <3>1
  <2> QED BY <2>1, <2>2 DEF Submit
<1>5. events' \in Seq(Events) BY DEF Submit, Key, SessionInv, PumpKnows
<1> QED BY <1>1, <1>4, <1>5, FlushStep

\* A key or a signal that leaves, and the timer.
LEMMA FlushOnlyStep ==
  ASSUME SessionInv, Flush, UNCHANGED <<pumpVars, events, buf, form, emptied, echoVars>>
  PROVE  SessionInv'
<1>1. UNCHANGED pumpVars /\ UNCHANGED <<taken, emptied, extra>> BY DEF echoVars
<1>2. events' \in Seq(Events) BY DEF SessionInv, PumpKnows
<1>3. buf' \in Nat /\ form' \in Nat /\ echoes' \in Seq(Nat) BY DEF SessionInv, LoopTypes, echoVars
<1> QED BY <1>1, <1>2, <1>3, FlushStep

LEMMA PressCtrlCStep ==
  ASSUME SessionInv, PressCtrlC PROVE SessionInv'
<1>1. UNCHANGED <<pumpVars, events, echoVars>> BY DEF PressCtrlC, Key
<1>2. CASE Leave /\ UNCHANGED <<buf, form, emptied>>
  BY <1>1, <1>2, FlushOnlyStep DEF Leave
<1>3. CASE Edited(0) /\ form' = 0 /\ UNCHANGED <<textVars, exit>>
  BY <1>1, <1>3, EditedStep
<1>4. CASE UNCHANGED <<buf, form, emptied, textVars, exit>>
  <2>1. UNCHANGED <<stream, pump, told, events, shown, pending, taken, echoes, extra, idle, exit, buf, form, emptied>>
    BY <1>1, <1>4 DEF pumpVars, textVars, echoVars
  <2> QED BY <2>1 DEF SessionInv, PumpKnows, LoopTypes, ShownInv, Ordered
<1> QED BY <1>2, <1>3, <1>4 DEF PressCtrlC

LEMMA SessionStep ==
  ASSUME SessionInv, [ConnectNext]_connectVars PROVE SessionInv'
<1>1. CASE Pump BY <1>1, PumpChunkStep, PumpErrorStep DEF Pump
<1>2. CASE Loop
  <2>1. CASE TakeEvent
    <3>1. ~exit /\ events' = Tail(events) /\ UNCHANGED pumpVars BY <1>2, <2>1 DEF Loop, TakeEvent
    <3> QED BY <2>1, <3>1, TakeTextStep, TakePromptStep, TakeErrorStep DEF TakeEvent
  <2>2. CASE InputEnds
    <3>1. Flush /\ UNCHANGED <<pumpVars, events, buf, form, emptied, echoVars>> BY <2>2 DEF InputEnds, Leave, Key
    <3> QED BY <3>1, FlushOnlyStep
  <2>3. CASE IdleFires
    <3>1. Flush /\ UNCHANGED <<pumpVars, events, buf, form, emptied, echoVars>> BY <2>3 DEF IdleFires, lineVars
    <3> QED BY <3>1, FlushOnlyStep
  <2>4. CASE Edit \/ Submit \/ PressCtrlC BY <2>4, EditStep, SubmitStep, PressCtrlCStep
  <2> QED BY <1>2, <2>1, <2>2, <2>3, <2>4 DEF Loop
<1>3. CASE UNCHANGED connectVars
  <2>1. UNCHANGED <<stream, pump, told, events, shown, pending, taken, echoes, extra, idle, exit, buf, form, emptied>>
    BY <1>3 DEF connectVars, pumpVars, lineVars, textVars, echoVars
  <2> QED BY <2>1 DEF SessionInv, PumpKnows, LoopTypes, ShownInv, Ordered
<1> QED BY <1>1, <1>2, <1>3 DEF ConnectNext

\* What the invariant says of the bytes so far is the property.
LEMMA SessionIsFaithful ==
  ASSUME SessionInv PROVE SessionFaithful
<1>1. ASSUME pump.on
      PROVE  told = FlattenSeq([i \in 1 .. Len(stream) - (IF pump.held THEN 1 ELSE 0) |-> Meaning(stream, i)])
  <2>1. Took(pump, stream, told) /\ pump.out = <<>> /\ stream \in Seq(Bytes) /\ told \in Seq(Symbols)
    BY <1>1 DEF SessionInv, PumpKnows
  <2>2. told \o Flat(pump.out) = told
    <3>1. Flat(pump.out) = <<>> BY <2>1, FlatEvents
    <3> QED BY <2>1, <3>1
  <2>3. CASE ~pump.held
    <3>1. told = Told(stream) BY <2>1, <2>2, <2>3 DEF Took, Heard
    <3>2. Len(stream) - 0 = Len(stream) BY <2>1
    <3> QED BY <2>3, <3>1, <3>2 DEF Told, Meanings
  <2>4. CASE pump.held
    <3>1. PICK u \in Seq(Bytes) : stream = u \o <<"gt">> /\ After(pump, u) /\ Heard(pump, u, told)
      BY <2>1, <2>4 DEF Took
    <3>2. told = Told(u) BY <2>2, <3>1 DEF Heard
    <3>3. PICK gt \in Seq(Bytes) : gt = <<"gt">> BY GtSp
    <3>4. Len(stream) = Len(u) + 1 /\ \A i \in 1 .. Len(u) : stream[i] = u[i]
      <4>1. Len(gt) = 1 BY <3>3
      <4>2. stream = u \o gt BY <3>1, <3>3
      <4>3. Len(u \o gt) = Len(u) + Len(gt) /\ \A i \in 1 .. Len(u) : (u \o gt)[i] = u[i] BY Joined
      <4> QED BY <4>1, <4>2, <4>3
    <3>5. Unheld(u) BY <3>1 DEF After
    <3>6. \A i \in 1 .. Len(u) : Meaning(stream, i) = Meaning(u, i)
      <4>1. Len(u) <= Len(stream) BY <3>4
      <4> QED BY <2>1, <3>4, <3>5, <4>1, MeaningKept
    <3>7. Len(stream) - 1 = Len(u) BY <3>4
    <3>8. [i \in 1 .. Len(stream) - 1 |-> Meaning(stream, i)] = [i \in 1 .. Len(u) |-> Meaning(u, i)]
      BY <3>6, <3>7
    <3> QED BY <2>4, <3>2, <3>8 DEF Told, Meanings
  <2> QED BY <2>3, <2>4
<1>2. ShownOnce BY DEF SessionInv, LoopTypes, ShownInv, Ordered, ShownOnce
<1> QED BY <1>1, <1>2 DEF SessionFaithful, PumpSplitBlind
-----------------------------------------------------------------------------
(* The program, whichever command it runs *)

\* A step of one command leaves the other's variables.
LEMMA HostStep ==
  /\ HostInit => IInv /\ SessionInv
  /\ IInv /\ SessionInv /\ [HostNextStep]_hostRun => IInv' /\ SessionInv'
<1>1. HostInit => IInv /\ SessionInv BY InitHolds, SessionBegins DEF HostInit
<1>2. ASSUME IInv, SessionInv, [HostNextStep]_hostRun PROVE IInv' /\ SessionInv'
  <2>1. [SendNext]_sendVars /\ [ConnectNext]_connectVars BY <1>2 DEF HostNextStep, hostRun
  <2> QED BY <1>2, <2>1, StepHolds, SessionStep
<1> QED BY <1>1, <1>2

\* However the serial line splits what the board writes into reads, and whatever
\* the user types meanwhile: `connect` tells prompts, resets and text apart the
\* same, and what it does not swallow as an echo it shows once, in the order it
\* came unless the user emptied the line that held it back, and none is left when
\* it ends (cmd/frothy-session/connect_pump.go:5-8, connect_unix.go:210-224,
\* 507-519, 550-616).
THEOREM SessionIsShown == HostSpec => []SessionFaithful
<1>1. HostInit => SessionInv /\ IInv BY HostStep
<1>2. SessionInv /\ IInv /\ [HostNextStep]_hostRun => SessionInv' /\ IInv' BY HostStep
<1>3. SessionInv => SessionFaithful BY SessionIsFaithful
<1> QED BY <1>1, <1>2, <1>3, PTL DEF HostSpec

\* AnswersMatch of the program itself, whichever command it runs: a session at the
\* terminal takes no answer (cmd/frothy-session/main.go:190-198, install.go,
\* wipe_user.go).
THEOREM HostAnswersAreOwn == HostSpec => []AnswersMatch
<1>1. HostInit => SessionInv /\ IInv BY HostStep
<1>2. SessionInv /\ IInv /\ [HostNextStep]_hostRun => SessionInv' /\ IInv' BY HostStep
<1>3. IInv => AnswersMatch BY HoldsMatch
<1> QED BY <1>1, <1>2, <1>3, PTL DEF HostSpec
=============================================================================
