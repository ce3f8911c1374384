---------------------------- MODULE FrothyTables ---------------------------
(***************************************************************************)
(* The code and object tables of a Frothy runtime (src/src/code.c,         *)
(* src/src/object.c), what a compiled definition adds to them              *)
(* (src/src/image.c) and the clear of a project (src/src/runtime.c), as    *)
(* operators on a runtime record.                                          *)
(*                                                                         *)
(* An id is a position of its table, so the tables only grow, until a      *)
(* clear cuts them back to the part that came from the saved image         *)
(* (imgCodes, imgObjs) or a mount rebuilds them.  A cut table must leave   *)
(* no id of the cut part behind, in a slot, an event or another object.    *)
(*                                                                         *)
(* Code is abstracted to what it refers to: the slot it calls, a Text it   *)
(* pushes, an inner body that it arms as an event.  says is the name that  *)
(* the source wrote for the slot: the device does not keep it, and no      *)
(* definition reads it except the properties.                              *)
(*                                                                         *)
(* Left out: base-image code and objects (ids below the ones modelled);    *)
(* buffers and Bytes; the pools of bytes under the tables, which a bound   *)
(* on the table size stands for.                                           *)
(***************************************************************************)
EXTENDS FrothySlots

CONSTANTS MaxCodes,   \* FR_PROFILE_CODE_OBJECT_TABLE_SIZE
          MaxObjs     \* FR_PROFILE_OBJECT_TABLE_SIZE

ASSUME TablesAssumption == MaxCodes \in Nat /\ MaxObjs \in Nat

\* 0 is no id; NoSlot is no slot.
Code(calls, says, text, inner) ==
  [calls |-> calls, says |-> says, text |-> text, inner |-> inner]

Object(kind, key, of, vals) == [kind |-> kind, key |-> key, of |-> of, vals |-> vals]
Text(t)        == Object("text", t, 0, <<>>)
Shape(n)       == Object("shape", n, 0, <<>>)
Record(sh, v)  == Object("record", "", sh, <<v>>)
Cells          == Object("cells", "", 0, <<Nil>>)

IsObject(rt, v, kinds) ==
  Kind(v) = "obj" /\ v[2] \in DOMAIN rt.objs /\ rt.objs[v[2]].kind \in kinds

\* The one object with these contents, or a new one at the end.
Interned(rt, o) ==
  LET i == SelectInSeq(rt.objs, LAMBDA p : p = o)
  IN  IF i # 0 THEN [id |-> i, rt |-> rt]
      ELSE [id |-> Len(rt.objs) + 1, rt |-> [rt EXCEPT !.objs = Append(@, o)]]

InstallText(rt, t)  == Interned(rt, Text(t))
InstallShape(rt, n) == Interned(rt, Shape(n))
\* Records and cells have an identity: each install is a new object.
InstallNew(rt, o)   == [id |-> Len(rt.objs) + 1, rt |-> [rt EXCEPT !.objs = Append(@, o)]]

InstallCode(rt, c) ==
  [id |-> Len(rt.codes) + 1, rt |-> [rt EXCEPT !.codes = Append(@, c)]]

\* What an element of cells and a field of a record may hold.
CellAllowed(rt, v)  == Kind(v) \in {"nil", "int"} \/ IsObject(rt, v, {"text", "record"})
FieldAllowed(rt, v) == Kind(v) \in {"nil", "int"} \/ IsObject(rt, v, {"text"})

ElementAllowed(rt, id, v) ==
  CASE rt.objs[id].kind = "cells"  -> CellAllowed(rt, v)
    [] rt.objs[id].kind = "record" -> FieldAllowed(rt, v)
    [] OTHER -> FALSE

WriteElement(rt, id, v) == [rt EXCEPT !.objs[id].vals[1] = v]

------------------------------------------------------------------------------
(***************************************************************************)
(* Cutting the tables back.                                                *)
(***************************************************************************)
ClearCode(rt) ==
  [rt EXCEPT !.codes = SubSeq(@, 1, rt.imgCodes)]

\* The contents of mounted cells and records stay as they are now: only
\* objects of the base image have a copy to go back to.
ClearObjects(rt) ==
  [rt EXCEPT !.objs = SubSeq(@, 1, rt.imgObjs)]

RestoreBaseTables(rt) ==
  [rt EXCEPT !.codes = <<>>, !.imgCodes = 0, !.objs = <<>>, !.imgObjs = 0]

MarkImage(rt) == [rt EXCEPT !.imgObjs = Len(rt.objs)]

\* (Mutant of ClearProject: the bodies of armed events go, the events stay.)
ClearLeavingEvents(rt) ==
  [ClearObjects(ClearCode(ClearSlots(rt))) EXCEPT !.events = rt.events]

\* `clear`, and the start of every mount: events first, so that none can
\* reach a body that is about to go.
ClearProject(rt) ==
  ClearObjects(ClearCode(ClearSlots([rt EXCEPT !.events = <<>>])))

------------------------------------------------------------------------------
(***************************************************************************)
(* A definition with a literal right-hand side, compiled to one overlay    *)
(* update: all of its parts are counted before anything changes.           *)
(*   <<"int", k>>         n is 1                                           *)
(*   <<"nil">>            n is nil                                         *)
(*   <<"text", t>>        n is "t"                                         *)
(*   <<"cells">>          n is cells: 1                                    *)
(*   <<"shape">>          record n [ x ]                                   *)
(*   <<"record", m, t>>   n is m: "t"                                      *)
(*   <<"fn", m, t>>       n is fn [ m: "t" ]                               *)
(*   <<"timer", m>>       n is fn [ every 10 [ m: ] ]                      *)
(***************************************************************************)
Callee(body) == body[2]

\* A definition of code may name itself: the name is bound while it compiles.
CalleeSlot(rt, n, s, body) ==
  IF Callee(body) = n THEN s ELSE IdForName(rt, Callee(body))

ShapeOf(rt, body) ==
  LET s == IdForName(rt, body[2])
  IN  IF s # NoSlot /\ IsObject(rt, rt.slot[s].cur, {"shape"})
      THEN rt.slot[s].cur[2] ELSE 0

\* The compiler's answer: the slot, or why there is none.
Compile(rt, n, body) ==
  LET p == Prepare(rt, n)
      refused(err) == [err |-> err, slot |-> NoSlot]
  IN  IF p.err # "OK" THEN p
      ELSE IF /\ Kind(body) \in {"fn", "timer"}
              /\ CalleeSlot(rt, n, p.slot, body) = NoSlot THEN refused("NOT_FOUND")
      ELSE IF Kind(body) = "record" /\ ShapeOf(rt, body) = 0 THEN refused("UNSUPPORTED")
      ELSE p

NewText(rt, t) == IF \E i \in DOMAIN rt.objs : rt.objs[i] = Text(t) THEN 0 ELSE 1

NewObjects(rt, n, body) ==
  CASE Kind(body) = "text"   -> NewText(rt, body[2])
    [] Kind(body) = "fn"     -> NewText(rt, body[3])
    [] Kind(body) = "record" -> NewText(rt, body[3]) + 1
    [] Kind(body) = "cells"  -> 1
    [] Kind(body) = "shape"  ->
         IF \E i \in DOMAIN rt.objs : rt.objs[i] = Shape(n) THEN 0 ELSE 1
    [] OTHER -> 0

NewCodes(body) ==
  CASE Kind(body) = "fn" -> 1 [] Kind(body) = "timer" -> 2 [] OTHER -> 0

\* The tables have room for everything the update adds.
HasRoom(rt, n, body) ==
  /\ Len(rt.objs) + NewObjects(rt, n, body) <= MaxObjs
  /\ Len(rt.codes) + NewCodes(body) <= MaxCodes

CheckApply(rt, n, s, body) ==
  IF ~ HasRoom(rt, n, body) THEN "CAPACITY"
  ELSE IF s = 0 THEN "OK"
  ELSE ValidateName(rt, n, s, Higher(rt.count, s + 1))

\* The Texts, code and objects of the update, and the value they make.
Installed(rt, n, s, body) ==
  LET made(v, rt2) == [val |-> v, rt |-> rt2]
  IN  CASE Kind(body) \in {"int", "nil"} -> made(body, rt)
        [] Kind(body) = "text" ->
             LET t == InstallText(rt, body[2]) IN made(<<"obj", t.id>>, t.rt)
        [] Kind(body) = "cells" ->
             LET c == InstallNew(rt, Cells) IN made(<<"obj", c.id>>, c.rt)
        [] Kind(body) = "shape" ->
             LET h == InstallShape(rt, n) IN made(<<"obj", h.id>>, h.rt)
        [] Kind(body) = "record" ->
             LET t == InstallText(rt, body[3])
                 r == InstallNew(t.rt, Record(ShapeOf(rt, body), <<"obj", t.id>>))
             IN  made(<<"obj", r.id>>, r.rt)
        [] Kind(body) = "fn" ->
             LET t == InstallText(rt, body[3])
                 c == InstallCode(t.rt, Code(CalleeSlot(rt, n, s, body), Callee(body), t.id, 0))
             IN  made(<<"code", c.id>>, c.rt)
        [] Kind(body) = "timer" ->
             LET b == InstallCode(rt, Code(CalleeSlot(rt, n, s, body), Callee(body), 0, 0))
                 c == InstallCode(b.rt, Code(NoSlot, BaseWord, 0, b.id))
             IN  made(<<"code", c.id>>, c.rt)

\* An update that passed the check goes in whole: objects and code, then the
\* slot, then the name.
ApplyUpdate(rt, n, s, body) ==
  LET i == Installed(rt, n, s, body)
  IN  BindName(Write(i.rt, s, i.val), n, s)
==============================================================================
