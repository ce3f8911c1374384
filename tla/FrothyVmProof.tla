--------------------------- MODULE FrothyVmProof ----------------------------
(* Proof that no error stays readable: error.code answers in a rescue and     *)
(* nowhere else, for every code the frames may hold and every bound.          *)
(*                                                                            *)
(* An error is readable because a rescue saved the one before it, and a frame *)
(* the one of its caller.  The invariant says that these saved errors form a  *)
(* chain down to None, which leaving a rescue or a frame takes back.          *)
EXTENDS FrothyVm, SequenceTheorems, WellFoundedInduction, TLAPS

----------------------------------------------------------------------------
(* The inductive invariant *)

Sequence(s) == s \in Seq(Range(s))

\* The first rescue of a frame saved what was readable when the frame began.
FrameOK(f) ==
    /\ {"rescues", "saved"} \subseteq DOMAIN f
    /\ Sequence(f.rescues)
    /\ f.rescues # <<>> => f.rescues[1].saved = f.saved

\* Frames with no rescue under them, or in them, had nothing to read and have
\* nothing to read.
Chained(fs, r) ==
    /\ \A k \in 1..Len(fs) : FrameOK(fs[k])
    /\ \A k \in 1..Len(fs) :
         (\A j \in 1..(k - 1) : fs[j].rescues = <<>>) => fs[k].saved = None
    /\ \A k \in 2..Len(fs) :
         fs[k - 1].rescues = <<>> => fs[k].saved = fs[k - 1].saved
    /\ fs # <<>> /\ fs[Len(fs)].rescues = <<>> => r = fs[Len(fs)].saved
    /\ fs = <<>> => r = None

IInv ==
    /\ Sequence(frames)
    /\ Chained(frames, rescue)
    /\ frames = <<>> => fault = NoFault

----------------------------------------------------------------------------
(* Sequences of frames *)

LEMMA IsSequence == ASSUME NEW S, NEW s \in Seq(S) PROVE Sequence(s)
BY SeqOfRange DEF Sequence

\* The head of a sequence.
LEMMA HeadOf ==
    ASSUME NEW s, Sequence(s), NEW n \in 0..Len(s)
    PROVE  /\ Sequence(SubSeq(s, 1, n)) /\ Len(SubSeq(s, 1, n)) = n
           /\ \A i \in 1..n : SubSeq(s, 1, n)[i] = s[i]
           /\ SubSeq(s, 1, n) = <<>> <=> n = 0
<1>1. Len(s) \in Nat
  BY LenProperties DEF Sequence
<1>2. n \in Nat /\ \A i \in 1..n : s[i] \in Range(s)
  BY <1>1, ElementOfSeq DEF Sequence
<1>3. /\ SubSeq(s, 1, n) \in Seq(Range(s))
      /\ Len(SubSeq(s, 1, n)) = IF 1 <= n THEN n - 1 + 1 ELSE 0
      /\ \A i \in 1..(n - 1 + 1) : SubSeq(s, 1, n)[i] = s[1 + i - 1]
  <2>1. PICK one \in Int : one = 1
    OBVIOUS
  <2>2. /\ SubSeq(s, one, n) \in Seq(Range(s))
        /\ Len(SubSeq(s, one, n)) = IF one <= n THEN n - one + 1 ELSE 0
        /\ \A i \in 1..(n - one + 1) : SubSeq(s, one, n)[i] = s[one + i - 1]
    BY <1>2, <2>1, SubSeqProperties
  <2> QED BY <2>1, <2>2
<1>4. Len(SubSeq(s, 1, n)) = n /\ \A i \in 1..n : SubSeq(s, 1, n)[i] = s[i]
  BY <1>2, <1>3
<1>5. SubSeq(s, 1, n) = <<>> <=> n = 0
  BY <1>3, <1>4, EmptySeq
<1> QED BY <1>3, <1>4, <1>5, IsSequence

\* A sequence with one more element.
LEMMA OneMore ==
    ASSUME NEW s, Sequence(s), NEW e
    PROVE  /\ Sequence(Append(s, e)) /\ Append(s, e) # <<>>
           /\ Len(s) \in Nat /\ Len(Append(s, e)) = Len(s) + 1
           /\ \A i \in 1..Len(s) : Append(s, e)[i] = s[i]
           /\ Append(s, e)[Len(s) + 1] = e
<1> DEFINE T == Range(s) \cup {e}
<1>1. s \in Seq(T) /\ e \in T
  <2>1. s \in Seq(Range(s)) /\ Len(s) \in Nat
    BY LenProperties DEF Sequence
  <2>2. Range(s) \subseteq T
    OBVIOUS
  <2> HIDE DEF T
  <2>3. s \in Seq(T)
    BY <2>1, <2>2, SeqMonotonic
  <2> QED BY <2>3 DEF T
<1> HIDE DEF T
<1>2. /\ Append(s, e) \in Seq(T) /\ Append(s, e) # <<>>
      /\ Len(Append(s, e)) = Len(s) + 1
      /\ \A i \in 1..Len(s) : Append(s, e)[i] = s[i]
      /\ Append(s, e)[Len(s) + 1] = e
  BY <1>1, AppendProperties
<1>3. Len(s) \in Nat
  BY <1>1, LenProperties
<1> QED BY <1>2, <1>3, IsSequence

\* A sequence with another last element.
LEMMA OtherLast ==
    ASSUME NEW s, Sequence(s), s # <<>>, NEW e
    PROVE  /\ Sequence([s EXCEPT ![Len(s)] = e]) /\ [s EXCEPT ![Len(s)] = e] # <<>>
           /\ Len(s) \in Nat \ {0} /\ Len([s EXCEPT ![Len(s)] = e]) = Len(s)
           /\ \A i \in 1..(Len(s) - 1) : [s EXCEPT ![Len(s)] = e][i] = s[i]
           /\ [s EXCEPT ![Len(s)] = e][Len(s)] = e
<1> DEFINE T == Range(s) \cup {e}
           n == Len(s)
<1>1. s \in Seq(T) /\ e \in T
  <2>1. s \in Seq(Range(s))
    BY DEF Sequence
  <2>2. Range(s) \subseteq T
    OBVIOUS
  <2> HIDE DEF T
  <2>3. s \in Seq(T)
    BY <2>1, <2>2, SeqMonotonic
  <2> QED BY <2>3 DEF T
<1> HIDE DEF T
<1>2. n \in Nat \ {0}
  BY <1>1, EmptySeq
<1>3. n \in 1..Len(s)
  BY <1>2
<1>4. /\ [s EXCEPT ![n] = e] \in Seq(T) /\ Len([s EXCEPT ![n] = e]) = n
      /\ \A j \in 1..n : [s EXCEPT ![n] = e][j] = IF j = n THEN e ELSE s[j]
  <2> HIDE DEF n
  <2>1. /\ [s EXCEPT ![n] = e] \in Seq(T)
        /\ Len([s EXCEPT ![n] = e]) = Len(s)
        /\ \A j \in 1..Len(s) : [s EXCEPT ![n] = e][j] = IF j = n THEN e ELSE s[j]
    BY <1>1, <1>3, ExceptSeq
  <2> QED BY <2>1 DEF n
<1>5. [s EXCEPT ![n] = e] # <<>>
  BY <1>2, <1>4, EmptySeq
<1>6. Sequence([s EXCEPT ![n] = e])
  BY <1>4, IsSequence
<1>7. \A i \in 1..(n - 1) : [s EXCEPT ![n] = e][i] = s[i]
  BY <1>2, <1>4
<1>8. [s EXCEPT ![n] = e][n] = e
  BY <1>2, <1>4
<1> QED BY <1>2, <1>4, <1>5, <1>6, <1>7, <1>8

----------------------------------------------------------------------------
(* The chain of saved errors *)

\* With no rescue open, nothing is readable.
LEMMA ChainEnds ==
    ASSUME NEW fs, NEW r, Sequence(fs), Chained(fs, r),
           \A k \in 1..Len(fs) : fs[k].rescues = <<>>
    PROVE  r = None
<1>1. CASE fs = <<>>
  BY <1>1 DEF Chained
<1>2. CASE fs # <<>>
  <2>1. Len(fs) \in Nat \ {0}
    BY <1>2, EmptySeq DEF Sequence
  <2>2. Len(fs) \in 1..Len(fs) /\ \A j \in 1..(Len(fs) - 1) : j \in 1..Len(fs)
    BY <2>1
  <2>3. r = fs[Len(fs)].saved /\ fs[Len(fs)].saved = None
    BY <1>2, <2>2 DEF Chained
  <2> QED BY <2>3
<1> QED BY <1>1, <1>2

\* The last frame changes and keeps what it saved.
LEMMA ChainTop ==
    ASSUME NEW fs, NEW r, NEW f, NEW q, Sequence(fs), fs # <<>>, Chained(fs, r),
           FrameOK(f), f.saved = fs[Len(fs)].saved, f.rescues = <<>> => q = f.saved
    PROVE  LET gs == [fs EXCEPT ![Len(fs)] = f] IN
           Sequence(gs) /\ gs # <<>> /\ Chained(gs, q)
<1> DEFINE gs == [fs EXCEPT ![Len(fs)] = f]
           n == Len(fs)
<1>1. /\ Sequence(gs) /\ gs # <<>> /\ n \in Nat \ {0} /\ Len(gs) = n
      /\ \A i \in 1..(n - 1) : gs[i] = fs[i]
      /\ gs[n] = f
  BY OtherLast
<1> HIDE DEF gs, n
<1>2. \A k \in 1..n : k = n \/ k \in 1..(n - 1)
  BY <1>1
<1>3. \A k \in 1..n : gs[k].saved = fs[k].saved
  BY <1>1, <1>2 DEF n
<1>4. \A k \in 1..Len(gs) : FrameOK(gs[k])
  BY <1>1, <1>2 DEF Chained, n
<1>5. \A k \in 1..Len(gs) :
         (\A j \in 1..(k - 1) : gs[j].rescues = <<>>) => gs[k].saved = None
  <2> SUFFICES ASSUME NEW k \in 1..n, \A j \in 1..(k - 1) : gs[j].rescues = <<>>
               PROVE  gs[k].saved = None
    BY <1>1
  <2>1. \A j \in 1..(k - 1) : j \in 1..(n - 1)
    BY <1>1
  <2>2. \A j \in 1..(k - 1) : fs[j].rescues = <<>>
    BY <1>1, <2>1
  <2> QED BY <1>3, <2>2 DEF Chained, n
<1>6. \A k \in 2..Len(gs) :
         gs[k - 1].rescues = <<>> => gs[k].saved = gs[k - 1].saved
  <2> SUFFICES ASSUME NEW k \in 2..n, gs[k - 1].rescues = <<>>
               PROVE  gs[k].saved = gs[k - 1].saved
    BY <1>1
  <2>1. k \in 1..n /\ k - 1 \in 1..n /\ k - 1 \in 1..(n - 1)
    BY <1>1
  <2>2. fs[k - 1].rescues = <<>>
    BY <1>1, <2>1
  <2>3. fs[k].saved = fs[k - 1].saved
    BY <2>2 DEF Chained, n
  <2> QED BY <1>3, <2>1, <2>3
<1>7. gs[Len(gs)].rescues = <<>> => q = gs[Len(gs)].saved
  BY <1>1
<1>8. Chained(gs, q)
  BY <1>1, <1>4, <1>5, <1>6, <1>7 DEF Chained
<1> QED BY <1>1, <1>8 DEF gs

\* A frame begins with what is readable.
LEMMA ChainPush ==
    ASSUME NEW fs, NEW r, NEW f, Sequence(fs), Chained(fs, r),
           FrameOK(f), f.rescues = <<>>, f.saved = r
    PROVE  LET gs == Append(fs, f) IN
           Sequence(gs) /\ gs # <<>> /\ Chained(gs, r)
<1> DEFINE gs == Append(fs, f)
           n == Len(fs)
<1>1. /\ Sequence(gs) /\ gs # <<>> /\ n \in Nat /\ Len(gs) = n + 1
      /\ \A i \in 1..n : gs[i] = fs[i]
      /\ gs[n + 1] = f
  BY OneMore
<1> HIDE DEF gs, n
<1>2. \A k \in 1..Len(gs) : k = n + 1 \/ k \in 1..n
  BY <1>1
<1>3. \A k \in 1..Len(gs) : FrameOK(gs[k])
  BY <1>1, <1>2 DEF Chained, n
<1>4. ASSUME NEW k \in 1..Len(gs), \A j \in 1..(k - 1) : gs[j].rescues = <<>>
      PROVE  gs[k].saved = None
  <2>1. \A j \in 1..(k - 1) : j \in 1..n
    BY <1>1
  <2>2. \A j \in 1..(k - 1) : fs[j].rescues = <<>>
    BY <1>1, <1>4, <2>1
  <2>3. CASE k \in 1..n
    BY <1>1, <2>2, <2>3 DEF Chained, n
  <2>4. CASE k = n + 1
    <3>1. \A j \in 1..n : j \in 1..(k - 1)
      BY <1>1, <2>4
    <3>2. r = None
      BY <2>2, <3>1, ChainEnds DEF n
    <3> QED BY <1>1, <2>4, <3>2
  <2> QED BY <1>2, <2>3, <2>4
<1>5. ASSUME NEW k \in 2..Len(gs), gs[k - 1].rescues = <<>>
      PROVE  gs[k].saved = gs[k - 1].saved
  <2>1. k - 1 \in 1..n /\ (k \in 2..n \/ k = n + 1)
    BY <1>1
  <2>2. gs[k - 1] = fs[k - 1]
    BY <1>1, <2>1
  <2>3. CASE k \in 2..n
    <3>1. k \in 1..n
      BY <1>1, <2>3
    <3> QED BY <1>1, <1>5, <2>2, <2>3, <3>1 DEF Chained, n
  <2>4. CASE k = n + 1
    <3>1. n # 0 /\ k - 1 = n
      BY <1>1, <2>1, <2>4
    <3>2. fs # <<>>
      BY <3>1, EmptySeq DEF n
    <3>3. r = fs[n].saved
      BY <1>5, <2>2, <3>1, <3>2 DEF Chained, n
    <3> QED BY <1>1, <2>2, <2>4, <3>1, <3>3
  <2> QED BY <2>1, <2>3, <2>4
<1>6. gs[Len(gs)].rescues = <<>> => r = gs[Len(gs)].saved
  BY <1>1
<1>7. Chained(gs, r)
  BY <1>1, <1>3, <1>4, <1>5, <1>6 DEF Chained
<1> QED BY <1>1, <1>7 DEF gs

\* A frame ends: what it saved is readable again.
LEMMA ChainPop ==
    ASSUME NEW fs, NEW r, Sequence(fs), fs # <<>>, Chained(fs, r)
    PROVE  LET gs == SubSeq(fs, 1, Len(fs) - 1) IN
           /\ Sequence(gs) /\ Chained(gs, fs[Len(fs)].saved)
           /\ Len(fs) \in Nat \ {0} /\ Len(gs) = Len(fs) - 1
           /\ gs = <<>> <=> Len(fs) = 1
           /\ \A i \in 1..(Len(fs) - 1) : gs[i] = fs[i]
<1> DEFINE gs == SubSeq(fs, 1, Len(fs) - 1)
           n == Len(fs)
<1>1. n \in Nat \ {0}
  BY EmptySeq DEF Sequence
<1>2. /\ Sequence(gs) /\ Len(gs) = n - 1
      /\ \A i \in 1..(n - 1) : gs[i] = fs[i]
      /\ gs = <<>> <=> n - 1 = 0
  <2>1. PICK m \in 0..Len(fs) : m = n - 1
    BY <1>1
  <2> QED BY <2>1, HeadOf
<1> HIDE DEF gs, n
<1>3. gs = <<>> <=> n = 1
  BY <1>1, <1>2
<1>4. \A k \in 1..(n - 1) : k \in 1..n
  BY <1>1
<1>5. \A k \in 1..Len(gs) : FrameOK(gs[k])
  BY <1>2, <1>4 DEF Chained, n
<1>6. ASSUME NEW k \in 1..Len(gs), \A j \in 1..(k - 1) : gs[j].rescues = <<>>
      PROVE  gs[k].saved = None
  <2>1. \A j \in 1..(k - 1) : j \in 1..(n - 1)
    BY <1>1, <1>2
  <2>2. \A j \in 1..(k - 1) : fs[j].rescues = <<>>
    BY <1>2, <1>6, <2>1
  <2> QED BY <1>2, <1>4, <2>2 DEF Chained, n
<1>7. ASSUME NEW k \in 2..Len(gs), gs[k - 1].rescues = <<>>
      PROVE  gs[k].saved = gs[k - 1].saved
  <2>1. k \in 2..n /\ k \in 1..(n - 1) /\ k - 1 \in 1..(n - 1)
    BY <1>1, <1>2
  <2> QED BY <1>2, <1>7, <2>1 DEF Chained, n
<1>8. ASSUME gs # <<>>, gs[Len(gs)].rescues = <<>>
      PROVE  fs[n].saved = gs[Len(gs)].saved
  <2>1. n \in 2..n /\ n - 1 \in 1..(n - 1)
    BY <1>1, <1>3, <1>8
  <2> QED BY <1>2, <1>8, <2>1 DEF Chained, n
<1>9. gs = <<>> => fs[n].saved = None
  <2> SUFFICES ASSUME n = 1 PROVE fs[n].saved = None
    BY <1>3
  <2>1. \A j \in 1..(n - 1) : FALSE
    OBVIOUS
  <2>2. n \in 1..n
    BY <1>1
  <2> QED BY <2>1, <2>2 DEF Chained, n
<1>10. Chained(gs, fs[n].saved)
  BY <1>5, <1>6, <1>7, <1>8, <1>9 DEF Chained
<1> QED BY <1>1, <1>2, <1>3, <1>10 DEF gs, n

----------------------------------------------------------------------------
(* What an instruction does to its frame *)

\* Neither its rescues nor what it saved.
Kin(g, f) ==
    /\ {"rescues", "saved"} \subseteq DOMAIN g
    /\ g.rescues = f.rescues /\ g.saved = f.saved
Fine(e, f) == e.err # None \/ Kin(e.frame, f)

LEMMA OkFine == ASSUME NEW g, NEW f, NEW m, Kin(g, f) PROVE Fine(Ok(g, m), f)
BY DEF Ok, Fine

LEMMA ErrFine == ASSUME NEW e, NEW f, e # None PROVE Fine(Err(e), f)
BY DEF Err, Fine

\* Changes of the other fields.
LEMMA KinSteps ==
    ASSUME NEW g, NEW f, Kin(g, f)
    PROVE  /\ \A n, vs : Kin(Next(g, n, vs), f)
           /\ \A d : Kin(Jumped(g, d), f)
           /\ \A ip : Kin([g EXCEPT !.ip = ip], f)
           /\ \A l : Kin([g EXCEPT !.locals = l], f)
           /\ \A k, v : Kin([g EXCEPT !.locals[k] = v], f)
           /\ \A a : Kin([g EXCEPT !.attempts = a], f)
           /\ \A s : Kin([g EXCEPT !.stack = s], f)
BY DEF Kin, Next, Jumped

LEMMA StoreFine ==
    ASSUME NEW f, Kin(f, f)
    PROVE  /\ \A n, v, m : Fine(StoreIn(f, n, v, m), f)
           /\ \A s : Fine(StoreSlot(f, s), f)
           /\ \A k, set : Fine(StoreLocal(f, k, set), f)
<1>1. \A g, m : Kin(g, f) => Fine(Ok(g, m), f)
  BY OkFine
<1>2. Fine(Err("VOLATILE"), f) /\ Fine(Err("TYPE"), f)
  BY ErrFine DEF None
<1>3. \A n, vs : Kin(Next(f, n, vs), f)
  BY KinSteps
<1>4. \A n, vs, k, v : Kin([Next(f, n, vs) EXCEPT !.locals[k] = v], f)
  BY <1>3, KinSteps
<1>5. \A n, v, m : Fine(StoreIn(f, n, v, m), f)
  BY <1>1, <1>2, <1>3 DEF StoreIn
<1>6. \A s : Fine(StoreSlot(f, s), f)
  BY <1>1, <1>2, <1>3 DEF StoreSlot
<1>7. \A k, set : Fine(StoreLocal(f, k, set), f)
  BY <1>1, <1>2, <1>4 DEF StoreLocal
<1> QED BY <1>5, <1>6, <1>7

LEMMA BinaryFine == ASSUME NEW f, NEW op, Kin(f, f) PROVE Fine(Binary(f, op), f)
<1>1. \A n, vs, m : Fine(Ok(Next(f, n, vs), m), f)
  BY OkFine, KinSteps
<1>2. Fine(Err("TYPE"), f) /\ Fine(Err("DOMAIN"), f) /\ Fine(Err("RANGE"), f)
  BY ErrFine DEF None
<1> QED BY <1>1, <1>2 DEF Binary

LEMMA CellFine ==
    ASSUME NEW f, NEW slot, NEW index, NEW write, Kin(f, f)
    PROVE  Fine(Cell(f, slot, index, write), f)
<1>1. \A n, vs, m : Fine(Ok(Next(f, n, vs), m), f)
  BY OkFine, KinSteps
<1>2. Fine(Err("TYPE"), f) /\ Fine(Err("RANGE"), f)
  BY ErrFine DEF None
<1>3. \A n, v, m : Fine(StoreIn(f, n, v, m), f)
  BY StoreFine
<1> QED BY <1>1, <1>2, <1>3 DEF Cell

LEMMA FieldFine ==
    ASSUME NEW f, NEW name, NEW write, Kin(f, f)
    PROVE  Fine(Field(f, name, write), f)
<1>1. \A n, vs, m : Fine(Ok(Next(f, n, vs), m), f)
  BY OkFine, KinSteps
<1>2. Fine(Err("TYPE"), f) /\ Fine(Err("NOT_FOUND"), f)
  BY ErrFine DEF None
<1>3. \A n, v, m : Fine(StoreIn(f, n, v, m), f)
  BY StoreFine
<1> QED BY <1>1, <1>2, <1>3 DEF Field

LEMMA LoopFine ==
    ASSUME NEW f, NEW d, NEW k, Kin(f, f)
    PROVE  /\ Fine(RepeatBegin(f, d, k), f) /\ Fine(RepeatNext(f, d, k), f)
           /\ Fine(MarkBytes(f, k), f) /\ Fine(RewindBytes(f, k), f)
<1>1. \A g, m : Kin(g, f) => Fine(Ok(g, m), f)
  BY OkFine
<1>2. /\ Fine(Err("TYPE"), f) /\ Fine(Err("RANGE"), f) /\ Fine(Err("INVALID"), f)
  BY ErrFine DEF None
<1>3. \A n, vs : Kin(Next(f, n, vs), f)
  BY KinSteps
<1>4. \A g, i, n : Kin(g, f) => Kin(Counted(g, i, n), f)
  BY KinSteps DEF Counted
<1>5. \A g, ip : Kin(g, f) => Kin([g EXCEPT !.ip = ip], f)
  BY KinSteps
<1>6. \A g, i, v : Kin(g, f) => Kin([g EXCEPT !.locals[i] = v], f)
  BY KinSteps
<1>7. Fine(RepeatBegin(f, d, k), f)
  BY <1>1, <1>2, <1>3, <1>4, <1>5 DEF RepeatBegin
<1>8. Fine(RepeatNext(f, d, k), f)
  BY <1>1, <1>2, <1>3, <1>4, <1>5 DEF RepeatNext
<1>9. Fine(MarkBytes(f, k), f) /\ Fine(RewindBytes(f, k), f)
  BY <1>1, <1>2, <1>3, <1>6 DEF MarkBytes, RewindBytes
<1> QED BY <1>7, <1>8, <1>9

LEMMA AttemptFine ==
    ASSUME NEW f, NEW d, Kin(f, f)
    PROVE  Fine(AttemptBegin(f, d), f) /\ Fine(AttemptEnd(f, d), f)
<1>1. \A g, m : Kin(g, f) => Fine(Ok(g, m), f)
  BY OkFine
<1>2. Fine(Err("CAPACITY"), f) /\ Fine(Err("INVALID"), f)
  BY ErrFine DEF None
<1>3. Kin(Next(f, 0, <<>>), f) /\ Kin(Jumped(f, d), f)
  BY KinSteps
<1>4. \A g, a : Kin(g, f) => Kin([g EXCEPT !.attempts = a], f)
  BY KinSteps
<1>5. Fine(AttemptBegin(f, d), f)
  BY <1>1, <1>2, <1>3, <1>4 DEF AttemptBegin
<1>6. Fine(AttemptEnd(f, d), f)
  BY <1>1, <1>2, <1>3, <1>4 DEF AttemptEnd
<1> QED BY <1>5, <1>6

LEMMA NativeFine ==
    ASSUME NEW f, Kin(f, f)
    PROVE  /\ Fine(Modulo(f), f) /\ Fine(FromText(f), f) /\ Fine(BytesLength(f), f)
           /\ \A v : Fine(ErrorValue(f, v), f)
<1>1. \A n, vs, m : Fine(Ok(Next(f, n, vs), m), f)
  BY OkFine, KinSteps
<1>2. /\ Fine(Err("TYPE"), f) /\ Fine(Err("DOMAIN"), f) /\ Fine(Err("CAPACITY"), f)
      /\ Fine(Err("VOLATILE"), f) /\ Fine(Err("INVALID"), f)
  BY ErrFine DEF None
<1>3. Fine(Modulo(f), f)
  BY <1>1, <1>2 DEF Modulo
<1>4. Fine(FromText(f), f)
  BY <1>1, <1>2 DEF FromText
<1>5. Fine(BytesLength(f), f)
  BY <1>1, <1>2 DEF BytesLength
<1>6. \A v : Fine(ErrorValue(f, v), f)
  BY <1>1, <1>2 DEF ErrorValue
<1> QED BY <1>3, <1>4, <1>5, <1>6

\* No instruction changes the rescues of its frame or what it saved, whatever
\* its operands are.
LEMMA EffectFine == ASSUME NEW f, NEW in, Kin(f, f) PROVE Fine(Effect(f, in), f)
<1>1. /\ \A n, vs, m : Fine(Ok(Next(f, n, vs), m), f)
      /\ \A d, m : Fine(Ok(Jumped(f, d), m), f)
      /\ \A n, vs, ip, m : Fine(Ok([Next(f, n, vs) EXCEPT !.ip = ip], m), f)
  <2>1. \A g, m : Kin(g, f) => Fine(Ok(g, m), f)
    BY OkFine
  <2>2. \A n, vs : Kin(Next(f, n, vs), f)
    BY KinSteps
  <2>3. \A d : Kin(Jumped(f, d), f)
    BY KinSteps
  <2>4. \A n, vs, ip : Kin([Next(f, n, vs) EXCEPT !.ip = ip], f)
    BY <2>2, KinSteps
  <2> QED BY <2>1, <2>2, <2>3, <2>4
<1>2. Fine(Err("UNDERFLOW"), f) /\ Fine(Err("TYPE"), f) /\ Fine(Err("INVALID"), f)
  BY ErrFine DEF None
<1>3. \A s, k, set : Fine(StoreSlot(f, s), f) /\ Fine(StoreLocal(f, k, set), f)
  BY StoreFine
<1>4. \A op : Fine(Binary(f, op), f)
  BY BinaryFine
<1>5. \A s, i, w : Fine(Cell(f, s, i, w), f) /\ Fine(Field(f, s, w), f)
  BY CellFine, FieldFine
<1>6. \A d, k : /\ Fine(RepeatBegin(f, d, k), f) /\ Fine(RepeatNext(f, d, k), f)
                /\ Fine(MarkBytes(f, k), f) /\ Fine(RewindBytes(f, k), f)
  BY LoopFine
<1>7. \A d : Fine(AttemptBegin(f, d), f) /\ Fine(AttemptEnd(f, d), f)
  BY AttemptFine
<1>8. /\ Fine(Modulo(f), f) /\ Fine(FromText(f), f) /\ Fine(BytesLength(f), f)
      /\ \A v : Fine(ErrorValue(f, v), f)
  BY NativeFine
<1> QED BY <1>1, <1>2, <1>3, <1>4, <1>5, <1>6, <1>7, <1>8 DEF Effect

----------------------------------------------------------------------------
(* Leaving rescues *)

\* A set of numbers has a least one.
LEMMA BelowIsWellFounded ==
    \E R : IsWellFoundedOn(R, Nat) /\ \A x, y \in Nat : y < x => <<y, x>> \in R
<1>1. IsWellFoundedOn(OpToRel(<, Nat), Nat)
  BY NatLessThanWellFounded
<1>2. \A x, y \in Nat : y < x => <<y, x>> \in OpToRel(<, Nat)
  BY DEF OpToRel
<1> QED BY <1>1, <1>2

LEMMA Least ==
    ASSUME NEW T, T \subseteq Nat, T # {} PROVE \E x \in T : \A y \in T : x <= y
<1>1. PICK R : IsWellFoundedOn(R, Nat) /\ \A x, y \in Nat : y < x => <<y, x>> \in R
  BY BelowIsWellFounded
<1>2. \E x \in T : \A y \in T : <<y, x>> \notin R
  BY <1>1, WFMin
<1>3. PICK x \in T : \A y \in T : <<y, x>> \notin R
  BY <1>2
<1>4. ASSUME NEW y \in T PROVE x <= y
  <2>1. x \in Nat /\ y \in Nat
    OBVIOUS
  <2>2. ~(y < x)
    BY <1>1, <1>3, <2>1
  <2> QED BY <2>1, <2>2
<1> QED BY <1>4

\* The innermost rescue that stays is one of those that are open.
LEMMA KeptIs ==
    ASSUME NEW q, NEW places, Sequence(q)
    PROVE  Kept(q, places) \in 0..Len(q)
<1> DEFINE P(n) == \A k \in n + 1..Len(q) : q[k].end \in places
           T == {n \in 0..Len(q) : P(n)}
<1>1. Len(q) \in Nat
  BY LenProperties DEF Sequence
<1>2. Len(q) \in T
  BY <1>1
<1>3. T \subseteq Nat
  OBVIOUS
<1>4. \E x \in T : \A y \in T : x <= y
  <2> HIDE DEF T
  <2> QED BY <1>2, <1>3, Least
<1>5. PICK m \in T : \A y \in T : m <= y
  BY <1>4
<1>6. m = 0 \/ q[m].end \notin places
  <2> SUFFICES ASSUME m # 0, q[m].end \in places PROVE FALSE
    OBVIOUS
  <2>1. m \in Nat /\ m - 1 \in 0..Len(q) /\ ~(m <= m - 1)
    BY <1>1
  <2>2. \A k \in (m - 1) + 1..Len(q) : k = m \/ k \in m + 1..Len(q)
    BY <1>1
  <2>3. m - 1 \in T
    BY <2>1, <2>2
  <2> QED BY <1>5, <2>1, <2>3
<1>7. \E n \in 0..Len(q) :
        /\ n = 0 \/ q[n].end \notin places
        /\ \A k \in n + 1..Len(q) : q[k].end \in places
  BY <1>6
<1> QED BY <1>7 DEF Kept

\* When the first rescue is left, what it saved is readable again, and that is
\* what the frame saved.
LEMMA Leave ==
    ASSUME NEW f, NEW places, FrameOK(f), f.rescues = <<>> => rescue = f.saved
    PROVE  /\ FrameOK(Leaving(f, places)) /\ Leaving(f, places).saved = f.saved
           /\ Leaving(f, places).rescues = <<>> => ErrorAfter(f, places) = f.saved
<1> DEFINE q == f.rescues
           n == Kept(q, places)
           g == Leaving(f, places)
<1>1. Sequence(q) /\ n \in 0..Len(q) /\ Len(q) \in Nat
  BY KeptIs, LenProperties DEF FrameOK, Sequence
<1>2. g = [f EXCEPT !.rescues = SubSeq(q, 1, n)]
  BY DEF Leaving
<1>3. ErrorAfter(f, places) = IF n = Len(q) THEN rescue ELSE q[n + 1].saved
  BY DEF ErrorAfter
<1>4. /\ Sequence(SubSeq(q, 1, n)) /\ Len(SubSeq(q, 1, n)) = n
      /\ \A i \in 1..n : SubSeq(q, 1, n)[i] = q[i]
      /\ SubSeq(q, 1, n) = <<>> <=> n = 0
  BY <1>1, HeadOf
<1>5. q = <<>> <=> Len(q) = 0
  BY <1>1, EmptySeq DEF Sequence
<1>6. q # <<>> => q[1].saved = f.saved
  BY DEF FrameOK
<1>7. /\ {"rescues", "saved"} \subseteq DOMAIN g
      /\ g.rescues = SubSeq(q, 1, n) /\ g.saved = f.saved
  BY <1>2 DEF FrameOK
<1> HIDE DEF g, n, q
<1>8. n # 0 => SubSeq(q, 1, n)[1] = q[1] /\ q # <<>>
  <2> SUFFICES ASSUME n # 0 PROVE SubSeq(q, 1, n)[1] = q[1] /\ q # <<>>
    OBVIOUS
  <2>1. 1 \in 1..n /\ Len(q) # 0
    BY <1>1
  <2> QED BY <1>4, <1>5, <2>1
<1>9. FrameOK(g)
  BY <1>4, <1>6, <1>7, <1>8 DEF FrameOK
<1>10. n = 0 => ErrorAfter(f, places) = f.saved
  <2>1. CASE Len(q) = 0
    BY <1>3, <1>5, <2>1 DEF q
  <2>2. CASE Len(q) # 0
    BY <1>3, <1>5, <1>6, <2>2
  <2> QED BY <2>1, <2>2
<1> QED BY <1>4, <1>7, <1>9, <1>10 DEF g

\* So of the frame a step finds.
LEMMA TopFrame ==
    ASSUME IInv, frames # <<>>
    PROVE  /\ FrameOK(frames[Len(frames)])
           /\ frames[Len(frames)].rescues = <<>> => rescue = frames[Len(frames)].saved
           /\ FrameOK(Frame) /\ Kin(Frame, Frame)
           /\ Frame.saved = frames[Len(frames)].saved
           /\ Frame.rescues = <<>> => Readable = Frame.saved
<1>1. Len(frames) \in 1..Len(frames)
  <2>1. Len(frames) \in Nat \ {0}
    BY EmptySeq DEF IInv, Sequence
  <2> QED BY <2>1
<1>2. /\ FrameOK(frames[Len(frames)])
      /\ frames[Len(frames)].rescues = <<>> => rescue = frames[Len(frames)].saved
  BY <1>1 DEF IInv, Chained
<1> DEFINE f == frames[Len(frames)]
           here == {f.ip}
<1> HIDE DEF f
<1>3. /\ FrameOK(Leaving(f, here)) /\ Leaving(f, here).saved = f.saved
      /\ Leaving(f, here).rescues = <<>> => ErrorAfter(f, here) = f.saved
  BY <1>2, Leave DEF f
<1>4. Frame = Leaving(f, here) /\ Readable = ErrorAfter(f, here)
  BY DEF Frame, Readable, f
<1>5. Kin(Frame, Frame)
  BY <1>3, <1>4 DEF FrameOK, Kin
<1> QED BY <1>2, <1>3, <1>4, <1>5 DEF f

----------------------------------------------------------------------------
(* Steps *)

\* A step of the last frame that leaves the chain alone.
LEMMA TopSteps ==
    ASSUME IInv, frames # <<>>, NEW g, Kin(g, Frame), frames' = WithTop(g), rescue' = Readable
    PROVE  IInv'
<1>1. FrameOK(g) /\ g.saved = frames[Len(frames)].saved /\ (g.rescues = <<>> => rescue' = g.saved)
  BY TopFrame DEF Kin, FrameOK
<1>2. Sequence(frames) /\ Chained(frames, rescue)
  BY DEF IInv
<1>3. frames' = [frames EXCEPT ![Len(frames)] = g]
  BY DEF WithTop
<1> DEFINE q == rescue'
<1>4. q = rescue'
  OBVIOUS
<1> HIDE DEF q
<1>5. LET gs == [frames EXCEPT ![Len(frames)] = g] IN
      Sequence(gs) /\ gs # <<>> /\ Chained(gs, q)
  BY <1>1, <1>2, <1>4, ChainTop
<1> QED BY <1>3, <1>4, <1>5 DEF IInv

LEMMA ExecuteKeeps == IInv /\ Execute => IInv'
<1> SUFFICES ASSUME IInv, Execute PROVE IInv'
  OBVIOUS
<1>1. frames # <<>> /\ rescue' = Readable
  BY DEF Execute, Running
<1> DEFINE e == Effect(Frame, Instruction)
<1>2. IF e.err = None THEN Pushed(e.frame, e.memory) ELSE Fail(e.err)
  BY DEF Execute
<1>3. Kin(Frame, Frame) /\ Fine(e, Frame)
  BY <1>1, TopFrame, EffectFine
<1> HIDE DEF e
<1>4. \E g : Kin(g, Frame) /\ frames' = WithTop(g)
  <2>1. CASE e.err = None
    BY <1>2, <1>3, <2>1 DEF Pushed, Fine
  <2>2. CASE e.err # None
    BY <1>2, <1>3, <2>2 DEF Fail
  <2> QED BY <2>1, <2>2
<1> QED BY <1>1, <1>4, TopSteps

LEMMA AskWorldKeeps == ASSUME NEW answer, IInv, AskWorld(answer) PROVE IInv'
<1>1. frames # <<>> /\ rescue' = Readable
  BY DEF AskWorld, Running
<1>2. Kin(Frame, Frame) /\ Kin(Next(Frame, 0, <<answer>>), Frame)
  BY <1>1, TopFrame, KinSteps
<1>3. \E g : Kin(g, Frame) /\ frames' = WithTop(g)
  BY <1>2 DEF AskWorld, Pushed, Fail
<1> QED BY <1>1, <1>3, TopSteps

LEMMA DropValueKeeps == IInv /\ DropValue => IInv'
<1> SUFFICES ASSUME IInv, DropValue PROVE IInv'
  OBVIOUS
<1>1. frames # <<>> /\ rescue' = Readable
  BY DEF DropValue, At, Running
<1>2. Kin(Frame, Frame) /\ Kin(Next(Frame, 1, <<>>), Frame)
  BY <1>1, TopFrame, KinSteps
<1>3. \E g : Kin(g, Frame) /\ frames' = WithTop(g)
  BY <1>2 DEF DropValue, Fail
<1> QED BY <1>1, <1>3, TopSteps

\* A call: the caller's frame leaves the rescues that end here, the new frame
\* saves what is readable then.
LEMMA CallKeeps == IInv /\ Call => IInv'
<1> SUFFICES ASSUME IInv, Call PROVE IInv'
  OBVIOUS
<1>1. frames # <<>> /\ rescue' = Readable
  BY DEF Call, At, Running
<1> DEFINE n == Instruction[3]
           rest == [Frame EXCEPT !.stack = SubSeq(@, 1, Len(@) - n)]
<1>2. Kin(Frame, Frame) /\ Kin(rest, Frame)
  BY <1>1, TopFrame, KinSteps
<1>3. \/ \E err : Fail(err)
      \/ \E w, args, locals :
           frames' = Append(WithTop(rest), NewFrame(w, args, locals, Readable))
  BY DEF Call
<1>4. CASE \E err : Fail(err)
  BY <1>1, <1>2, <1>4, TopSteps DEF Fail
<1>5. CASE \E w, args, locals :
             frames' = Append(WithTop(rest), NewFrame(w, args, locals, Readable))
  <2>1. PICK w, args, locals :
          frames' = Append(WithTop(rest), NewFrame(w, args, locals, Readable))
    BY <1>5
  <2> DEFINE f == NewFrame(w, args, locals, Readable)
  <2>2. FrameOK(f) /\ f.rescues = <<>> /\ f.saved = Readable
    <3>1. Sequence(<<>>)
      BY EmptySeq, IsSequence
    <3> QED BY <3>1 DEF NewFrame, FrameOK
  <2>3. FrameOK(rest) /\ rest.saved = frames[Len(frames)].saved
        /\ (rest.rescues = <<>> => Readable = rest.saved)
    <3> HIDE DEF rest
    <3> QED BY <1>1, <1>2, TopFrame DEF Kin, FrameOK
  <2> HIDE DEF rest, f
  <2>4. Sequence(frames) /\ Chained(frames, rescue)
    BY DEF IInv
  <2> DEFINE gs == WithTop(rest)
             q == Readable
  <2>5. Sequence(gs) /\ Chained(gs, q)
    <3>1. LET hs == [frames EXCEPT ![Len(frames)] = rest] IN
          Sequence(hs) /\ hs # <<>> /\ Chained(hs, q)
      BY <1>1, <2>3, <2>4, ChainTop
    <3> QED BY <3>1 DEF WithTop
  <2>6. frames' = Append(gs, f) /\ rescue' = q /\ FrameOK(f) /\ f.rescues = <<>> /\ f.saved = q
    BY <1>1, <2>1, <2>2 DEF f
  <2> HIDE DEF gs, q
  <2>7. LET hs == Append(gs, f) IN Sequence(hs) /\ hs # <<>> /\ Chained(hs, q)
    BY <2>5, <2>6, ChainPush
  <2> QED BY <2>6, <2>7 DEF IInv
<1> QED BY <1>3, <1>4, <1>5

\* A return: what the frame saved is readable in its caller.
LEMMA ReturnKeeps == IInv /\ Return => IInv'
<1> SUFFICES ASSUME IInv, Return PROVE IInv'
  OBVIOUS
<1>1. frames # <<>> /\ fault = NoFault /\ Sequence(frames) /\ Chained(frames, rescue)
  BY DEF Return, At, Running, IInv
<1>2. CASE pending # None
  <2>1. frames' = WithTop(Frame) /\ rescue' = Readable
    BY <1>2 DEF Return
  <2> QED BY <1>1, <2>1, TopFrame, TopSteps
<1>3. CASE pending = None
  <2> DEFINE n == Len(frames)
             q == rescue'
             outer == SubSeq(frames, 1, Len(frames) - 1)
             caller == Next(frames[n - 1], 0, <<Answer>>)
  <2>1. q = frames[n].saved
    BY <1>1, <1>3, TopFrame DEF Return
  <2>2. /\ Sequence(outer) /\ Chained(outer, q)
        /\ n \in Nat \ {0} /\ Len(outer) = n - 1
        /\ outer = <<>> <=> n = 1
        /\ \A i \in 1..(n - 1) : outer[i] = frames[i]
    <3>1. LET gs == SubSeq(frames, 1, Len(frames) - 1) IN
          /\ Sequence(gs) /\ Chained(gs, frames[Len(frames)].saved)
          /\ Len(frames) \in Nat \ {0} /\ Len(gs) = Len(frames) - 1
          /\ gs = <<>> <=> Len(frames) = 1
          /\ \A i \in 1..(Len(frames) - 1) : gs[i] = frames[i]
      BY <1>1, ChainPop
    <3> QED BY <2>1, <3>1
  <2>3. CASE n = 1
    <3>1. frames' = <<>> /\ fault' = fault
      BY <1>3, <2>3 DEF Return
    <3> HIDE DEF outer
    <3> QED BY <1>1, <2>2, <2>3, <3>1 DEF IInv
  <2>4. CASE n # 1
    <3>1. \/ frames' = outer
          \/ frames' = [outer EXCEPT ![n - 1] = caller]
      BY <1>3, <2>4 DEF Return, Outer
    <3> HIDE DEF outer
    <3>2. outer # <<>>
      BY <2>2, <2>4
    <3>3. CASE frames' = outer
      BY <2>2, <3>2, <3>3 DEF IInv
    <3>4. CASE frames' = [outer EXCEPT ![n - 1] = caller]
      <4>1. n - 1 \in 1..(n - 1) /\ n - 1 \in 1..Len(outer)
        BY <2>2, <2>4
      <4>2. FrameOK(outer[Len(outer)]) /\ outer[Len(outer)] = frames[n - 1]
        BY <2>2, <4>1 DEF Chained
      <4>3. Kin(frames[n - 1], frames[n - 1])
        BY <4>2 DEF FrameOK, Kin
      <4>4. Kin(caller, frames[n - 1])
        BY <4>3, KinSteps
      <4> HIDE DEF caller
      <4>5. FrameOK(caller) /\ caller.saved = outer[Len(outer)].saved
        BY <4>2, <4>4 DEF Kin, FrameOK
      <4>6. caller.rescues = <<>> => q = caller.saved
        BY <2>2, <3>2, <4>2, <4>4 DEF Chained, Kin
      <4> HIDE DEF q
      <4>7. LET gs == [outer EXCEPT ![Len(outer)] = caller] IN
            Sequence(gs) /\ gs # <<>> /\ Chained(gs, q)
        BY <2>2, <3>2, <4>5, <4>6, ChainTop
      <4> QED BY <2>2, <3>4, <4>7 DEF IInv, q
    <3> QED BY <3>1, <3>3, <3>4
  <2> QED BY <2>3, <2>4
<1> QED BY <1>2, <1>3

\* A rescue starts: it saves what was readable before the attempt's rescues
\* began.
LEMMA CatchKeeps == IInv /\ Catch => IInv'
<1> SUFFICES ASSUME IInv, Catch PROVE IInv'
  OBVIOUS
<1>1. frames # <<>> /\ Sequence(frames) /\ Chained(frames, rescue)
  BY DEF Catch, Caught, IInv
<1> DEFINE f == frames[Len(frames)]
<1>2. FrameOK(f) /\ (f.rescues = <<>> => rescue = f.saved)
  BY <1>1, TopFrame
<1>3. PICK k, a, places :
        frames' = WithTop(
          [Leaving(f, places) EXCEPT
             !.attempts = SubSeq(@, 1, k - 1), !.ip = a.fallback,
             !.stack = SubSeq(@, 1, a.depth),
             !.rescues = Append(@, [saved |-> ErrorAfter(f, places), end |-> a.end])])
  BY DEF Catch
<1> HIDE DEF f
<1> DEFINE h == Leaving(f, places)
           new == [saved |-> ErrorAfter(f, places), end |-> a.end]
<1>4. FrameOK(h) /\ h.saved = f.saved /\ (h.rescues = <<>> => new.saved = f.saved)
  BY <1>2, Leave
<1> HIDE DEF h, new
<1> DEFINE g == [h EXCEPT !.attempts = SubSeq(@, 1, k - 1), !.ip = a.fallback,
                          !.stack = SubSeq(@, 1, a.depth),
                          !.rescues = Append(@, new)]
<1>5. frames' = [frames EXCEPT ![Len(frames)] = g]
  BY <1>3 DEF h, new, WithTop
<1>6. {"rescues", "saved"} \subseteq DOMAIN g /\ g.saved = h.saved
      /\ g.rescues = Append(h.rescues, new)
  BY <1>4 DEF FrameOK
<1> HIDE DEF g
<1>7. /\ Sequence(g.rescues) /\ g.rescues # <<>>
      /\ g.rescues[1] = IF h.rescues = <<>> THEN new ELSE h.rescues[1]
  <2> DEFINE q == h.rescues
  <2>1. Sequence(q)
    BY <1>4 DEF FrameOK
  <2> HIDE DEF q
  <2>2. /\ Sequence(Append(q, new)) /\ Append(q, new) # <<>>
        /\ Len(q) \in Nat
        /\ \A i \in 1..Len(q) : Append(q, new)[i] = q[i]
        /\ Append(q, new)[Len(q) + 1] = new
    BY <2>1, OneMore
  <2>3. q = <<>> <=> Len(q) = 0
    BY <2>1, EmptySeq DEF Sequence
  <2>4. CASE q = <<>>
    <3>1. Len(q) + 1 = 1
      BY <2>3, <2>4
    <3> QED BY <1>6, <2>2, <2>4, <3>1 DEF q
  <2>5. CASE q # <<>>
    <3>1. 1 \in 1..Len(q)
      BY <2>2, <2>3, <2>5
    <3> QED BY <1>6, <2>2, <2>5, <3>1 DEF q
  <2> QED BY <2>4, <2>5
<1>8. FrameOK(g)
  BY <1>4, <1>6, <1>7 DEF FrameOK
<1> DEFINE r == rescue'
<1>9. g.saved = frames[Len(frames)].saved /\ (g.rescues = <<>> => r = g.saved)
  BY <1>4, <1>6, <1>7 DEF f
<1> HIDE DEF r
<1>10. LET gs == [frames EXCEPT ![Len(frames)] = g] IN
       Sequence(gs) /\ gs # <<>> /\ Chained(gs, r)
  BY <1>1, <1>8, <1>9, ChainTop
<1> QED BY <1>5, <1>10 DEF IInv, r

\* An error leaves a frame: what it saved is readable in its caller.
LEMMA UnwindKeeps == IInv /\ Unwind => IInv'
<1> SUFFICES ASSUME IInv, Unwind PROVE IInv'
  OBVIOUS
<1>1. frames # <<>> /\ Sequence(frames) /\ Chained(frames, rescue)
  BY DEF Unwind, IInv
<1> DEFINE q == frames[Len(frames)].saved
           outer == SubSeq(frames, 1, Len(frames) - 1)
<1>2. Sequence(outer) /\ Chained(outer, q) /\ (outer = <<>> <=> Len(frames) = 1)
  BY <1>1, ChainPop
<1>3. frames' = outer /\ rescue' = q /\ (Len(frames) = 1 => fault' = NoFault)
  BY DEF Unwind, Outer
<1> HIDE DEF outer, q
<1> QED BY <1>2, <1>3 DEF IInv

\* Between runs: a frame begins with nothing readable.
LEMMA IdleKeeps == IInv /\ Idle => IInv'
<1> SUFFICES ASSUME IInv, Idle PROVE IInv'
  OBVIOUS
<1>1. frames = <<>> /\ rescue = None /\ rescue' = None /\ fault' = fault /\ fault = NoFault
  BY DEF Idle, IInv, Chained
<1>2. CASE frames' = <<>>
  BY <1>1, <1>2 DEF IInv, Chained
<1>3. CASE Begins
  <2>1. PICK w, locals : frames' = <<NewFrame(w, <<>>, locals, rescue)>>
    BY <1>3 DEF Begins
  <2> DEFINE f == NewFrame(w, <<>>, locals, rescue)
             fs == <<f>>
  <2>2. FrameOK(f) /\ f.rescues = <<>> /\ f.saved = None
    <3>1. Sequence(<<>>)
      BY EmptySeq, IsSequence
    <3> QED BY <1>1, <3>1 DEF NewFrame, FrameOK
  <2> HIDE DEF f
  <2>3. Sequence(fs)
    <3>1. fs \in Seq({f})
      OBVIOUS
    <3> QED BY <3>1, IsSequence
  <2>4. Len(fs) = 1 /\ fs[1] = f /\ fs # <<>>
    OBVIOUS
  <2>5. (\A k \in 1..Len(fs) : k = 1) /\ \A k \in 2..Len(fs) : FALSE
    BY <2>4
  <2>6. frames' = fs
    BY <2>1 DEF f
  <2> HIDE DEF fs
  <2>7. Chained(fs, None)
    BY <2>2, <2>4, <2>5 DEF Chained
  <2> QED BY <1>1, <2>3, <2>4, <2>6, <2>7 DEF IInv
<1> QED BY <1>2, <1>3 DEF Idle

LEMMA NextKeeps == IInv /\ [VmNext]_vmVars => IInv'
<1> SUFFICES ASSUME IInv, [VmNext]_vmVars PROVE IInv'
  OBVIOUS
<1>1. CASE UNCHANGED <<frames, rescue, fault>>
  BY <1>1 DEF IInv
<1>2. CASE Execute
  BY <1>2, ExecuteKeeps
<1>3. CASE DropValue
  BY <1>3, DropValueKeeps
<1>4. CASE Call
  BY <1>4, CallKeeps
<1>5. CASE Return
  BY <1>5, ReturnKeeps
<1>6. CASE Catch
  BY <1>6, CatchKeeps
<1>7. CASE Unwind
  BY <1>7, UnwindKeeps
<1>8. CASE \E answer \in Answers : AskWorld(answer)
  BY <1>8, AskWorldKeeps
<1>9. CASE Idle
  BY <1>9, IdleKeeps
<1>10. CASE \E n \in DOMAIN Errors : Disturb(Errors[n])
  BY <1>1, <1>10 DEF Disturb
<1>11. CASE UNCHANGED vmVars
  BY <1>1, <1>11 DEF vmVars
<1> QED BY <1>2, <1>3, <1>4, <1>5, <1>6, <1>7, <1>8, <1>9, <1>10, <1>11, Zenon DEF VmNext, VmStep

\* The saved errors are a chain down to None in every state of the machine,
\* whatever code it runs, however deep calls and attempts nest.
THEOREM Inductive == VmSpec => []IInv
<1>1. VmInit => IInv
  <2> SUFFICES ASSUME VmInit PROVE IInv
    OBVIOUS
  <2>1. Sequence(<<>>) /\ Len(<<>>) = 0
    BY EmptySeq, IsSequence
  <2>2. (\A k \in 1..Len(<<>>) : FALSE) /\ \A k \in 2..Len(<<>>) : FALSE
    BY <2>1
  <2> QED BY <2>1, <2>2 DEF VmInit, IInv, Chained
<1> QED BY <1>1, NextKeeps, PTL DEF VmSpec

\* error.code can be read in a rescue and nowhere else: whichever way rescues
\* and the frames they are in end, no error stays readable.
THEOREM NoErrorStays == VmSpec => []ErrorScoped
<1>1. IInv => ErrorScoped
  <2> SUFFICES ASSUME IInv, \A k \in DOMAIN frames : frames[k].rescues = <<>>
               PROVE  rescue = None
    BY DEF ErrorScoped
  <2>1. DOMAIN frames = 1..Len(frames)
    BY LenProperties DEF IInv, Sequence
  <2> QED BY <2>1, ChainEnds DEF IInv
<1> QED BY <1>1, Inductive, PTL
=============================================================================
