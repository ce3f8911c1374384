--------------------------- MODULE FrothyPayload ---------------------------
(***************************************************************************)
(* The payload of a saved image (src/src/persist_payload.c) as a save      *)
(* encodes it from the runtime, as operators on a runtime record.          *)
(*                                                                         *)
(* An image has code and object records under final ids, values bound to   *)
(* slots (each in a tier: a library that a tool installed, or the user's   *)
(* own words), names, reserved names and armed events.  A full encode      *)
(* writes the library and all it reaches first, then the user tier.  A     *)
(* plain save instead copies the library records of the mounted image      *)
(* as they are and encodes only the user tier after them, so ids in the    *)
(* kept records must still mean the same objects.                          *)
(*                                                                         *)
(* Records are kept as functions from ids, so that a gap in the ids can be *)
(* seen.  Left out: the byte layout of records, parameter names, the       *)
(* limits in bytes; the header and its checksum are FrothyPersist's.       *)
(***************************************************************************)
EXTENDS FrothyTables

Image(codes, objs, binds, names, events) ==
  [codes |-> codes, objs |-> objs, binds |-> binds, names |-> names,
   events |-> events]
Bind(s, tier, v) == [slot |-> s, tier |-> tier, val |-> v]
NameRecord(s, n, reserved) == [slot |-> s, name |-> n, reserved |-> reserved]

Least(S) == CHOOSE i \in S : \A j \in S : i =< j
SlotsBelow(rt) == [i \in 1 .. rt.count |-> i - 1]

------------------------------------------------------------------------------
(***************************************************************************)
(* Which slots a save writes, and in which tier.                           *)
(***************************************************************************)
\* The tier of the value that a slot has now.  No stamp counts as user.
EncodeTier(rt, s) ==
  LET tier == IF rt.slot[s].ov THEN rt.slot[s].stamp ELSE rt.slot[s].tier
  IN  IF tier \in Tiers THEN tier ELSE "user"

ShouldEncode(rt, s, tiers) ==
  /\ rt.slot[s].ov \/ rt.slot[s].tier # "none"
  /\ EncodeTier(rt, s) \in tiers

\* A save cannot store a handle; a tolerant save stores nil for the held ones.
CheckSavable(rt, held) ==
  IF \E s \in 0 .. rt.count - 1 :
       rt.slot[s].ov /\ s \notin held /\ Kind(rt.slot[s].cur) = "handle"
  THEN "VOLATILE" ELSE "OK"

HandleSlots(rt) ==
  {s \in 0 .. rt.count - 1 : rt.slot[s].ov /\ Kind(rt.slot[s].cur) = "handle"}

\* The slots whose handles a tolerant save keeps open: none in the library.
HoldVolatile(rt) ==
  IF \E s \in HandleSlots(rt) : EncodeTier(rt, s) = "lib" THEN {}
  ELSE HandleSlots(rt)

------------------------------------------------------------------------------
(***************************************************************************)
(* Encoding.  enc carries the records written so far, the runtime id that  *)
(* each final id stands for (0: none), the slots that written code names,  *)
(* the final id just found or written (at), and the first error.           *)
(***************************************************************************)
Failed(enc, err) == [enc EXCEPT !.err = err]
At(enc, i)       == [enc EXCEPT !.at = i]

\* Texts and shapes are one record per contents, the rest one per object.
SameObject(rt, a, b) ==
  a = b \/ (rt.objs[a].kind \in {"text", "shape"} /\ rt.objs[a] = rt.objs[b])

FoundObjects(enc, rt, id) ==
  {i \in 1 .. Len(enc.omap) : /\ enc.omap[i] \in DOMAIN rt.objs
                              /\ SameObject(rt, enc.omap[i], id)}

NewObjectRecord(enc, id, o) ==
  LET i == Len(enc.omap) + 1
  IN  IF i > MaxObjs THEN Failed(enc, "CAPACITY")
      ELSE [enc EXCEPT !.objs = i :> o @@ @, !.omap = Append(@, id), !.at = i]

\* A value that is already encoded, with the final id of what it refers to.
EncodedElement(enc, rt, v) ==
  IF Kind(v) = "obj" THEN <<"obj", Least(FoundObjects(enc, rt, v[2]))>> ELSE v

\* The record of an object whose parts are written.
AddObject(enc, rt, id, o) ==
  IF enc.err # "OK" THEN enc
  ELSE NewObjectRecord(enc, id,
         [o EXCEPT !.of = IF @ = 0 THEN 0 ELSE Least(FoundObjects(enc, rt, @)),
                   !.vals = [j \in DOMAIN @ |-> EncodedElement(enc, rt, @[j])]])

RECURSIVE EncodeObject(_, _, _)
\* What an object holds is written before it, so that its ids are lower.
EncodeObject(enc, rt, id) ==
  IF enc.err # "OK" THEN enc
  ELSE IF id \notin DOMAIN rt.objs THEN Failed(enc, "TYPE")
  ELSE IF FoundObjects(enc, rt, id) # {} THEN At(enc, Least(FoundObjects(enc, rt, id)))
  ELSE LET o == rt.objs[id]
           held == SelectSeq(o.vals, LAMBDA v : Kind(v) = "obj")
           ids == (IF o.of = 0 THEN <<>> ELSE <<o.of>>) \o [j \in DOMAIN held |-> held[j][2]]
       IN  AddObject(FoldLeft(LAMBDA a, part : EncodeObject(a, rt, part), enc, ids), rt, id, o)

\* Equal instructions; what the source called the slot is not among them.
SameCode(c, d) == c = [d EXCEPT !.says = c.says]

FoundCodes(enc, rt, id) ==
  {i \in 1 .. Len(enc.cmap) : /\ enc.cmap[i] \in DOMAIN rt.codes
                              /\ SameCode(rt.codes[enc.cmap[i]], rt.codes[id])}

\* The record of code whose Text and inner body are written; the slot that
\* the code names is marked.
AddCode(enc, id, c, text, inner) ==
  LET i == Len(enc.cmap) + 1
  IN  IF enc.err # "OK" THEN enc
      ELSE IF i > MaxCodes THEN Failed(enc, "CAPACITY")
      ELSE [enc EXCEPT !.codes = i :> [c EXCEPT !.text = text, !.inner = inner] @@ @,
                       !.cmap = Append(@, id),
                       !.marks = @ \cup {c.calls},
                       !.at = i]

RECURSIVE EncodeCode(_, _, _)
\* The inner body comes first.
EncodeCode(enc, rt, id) ==
  IF enc.err # "OK" THEN enc
  ELSE IF id \notin DOMAIN rt.codes THEN Failed(enc, "NOT_FOUND")
  ELSE IF FoundCodes(enc, rt, id) # {} THEN At(enc, Least(FoundCodes(enc, rt, id)))
  ELSE LET c == rt.codes[id]
           add(body, text) == AddCode(body, id, c, text.at, body.at)
           then(text) == add(IF c.inner = 0 THEN At(text, 0)
                             ELSE EncodeCode(text, rt, c.inner), text)
       IN  then(IF c.text = 0 THEN At(enc, 0) ELSE EncodeObject(enc, rt, c.text))

\* A value of a record names it by its final id.
AsRecord(kind, found) ==
  IF found = {} THEN [err |-> "CORRUPT", val |-> Nil]
  ELSE [err |-> "OK", val |-> <<kind, Least(found)>>]

EncodeValue(enc, rt, v) ==
  CASE Kind(v) = "code" ->
         AsRecord("code", IF v[2] \in DOMAIN rt.codes THEN FoundCodes(enc, rt, v[2]) ELSE {})
    [] Kind(v) = "obj" ->
         AsRecord("obj", IF v[2] \in DOMAIN rt.objs THEN FoundObjects(enc, rt, v[2]) ELSE {})
    [] Kind(v) = "handle" -> [err |-> "VOLATILE", val |-> Nil]
    [] OTHER -> [err |-> "OK", val |-> v]

\* The code that the slots of a tier hold, then their objects.
EncodeTierParts(enc, rt, tier) ==
  LET parts(a0, kind, Encode(_, _, _)) ==
        FoldLeft(LAMBDA a, s :
                   IF ShouldEncode(rt, s, {tier}) /\ Kind(rt.slot[s].cur) = kind
                   THEN Encode(a, rt, rt.slot[s].cur[2]) ELSE a,
                 a0, SlotsBelow(rt))
  IN  parts(parts(enc, "code", EncodeCode), "obj", EncodeObject)

------------------------------------------------------------------------------
(***************************************************************************)
(* The payload of a save.                                                  *)
(***************************************************************************)
NoRecords == Image(<<>>, <<>>, <<>>, <<>>, <<>>)

InTier(binds, tier) == SelectSeq(binds, LAMBDA b : b.tier = tier)
SlotsOf(binds) == {binds[i].slot : i \in DOMAIN binds}

\* The records that a record refers to.
RefsOf(img, r) ==
  IF Kind(r) = "code"
  THEN {<<"obj", img.codes[r[2]].text>>, <<"code", img.codes[r[2]].inner>>}
  ELSE {<<"obj", img.objs[r[2]].of>>} \cup ToSet(img.objs[r[2]].vals)

IsRecord(img, r) ==
  \/ Kind(r) = "code" /\ r[2] \in DOMAIN img.codes
  \/ Kind(r) = "obj" /\ r[2] \in DOMAIN img.objs

RECURSIVE Reached(_, _)
Reached(img, S) ==
  LET T == S \cup {r \in UNION {RefsOf(img, q) : q \in S} : IsRecord(img, r)}
  IN  IF T = S THEN S ELSE Reached(img, T)

\* The records that the library's binds hold.
LibraryRoots(img) ==
  LET binds == InTier(img.binds, "lib")
  IN  {r \in {binds[i].val : i \in DOMAIN binds} : IsRecord(img, r)}

\* (Mutant of LibraryRecords: only the records that are bound are kept.)
BoundRecords(img) ==
  LET binds == InTier(img.binds, "lib")
      kept == LibraryRoots(img)
  IN  [img EXCEPT
         !.codes = [i \in {j \in DOMAIN @ : <<"code", j>> \in kept} |-> @[i]],
         !.objs  = [i \in {j \in DOMAIN @ : <<"obj", j>> \in kept} |-> @[i]],
         !.binds = binds,
         !.names = SelectSeq(@, LAMBDA n : ~ n.reserved /\ n.slot \in SlotsOf(binds)),
         !.events = <<>>]

\* What a plain save copies from the mounted image: the library's binds and
\* names, and every record that they reach.
LibraryRecords(img) ==
  LET binds == InTier(img.binds, "lib")
      kept == Reached(img, LibraryRoots(img))
  IN  [img EXCEPT
         !.codes = [i \in {j \in DOMAIN @ : <<"code", j>> \in kept} |-> @[i]],
         !.objs  = [i \in {j \in DOMAIN @ : <<"obj", j>> \in kept} |-> @[i]],
         !.binds = binds,
         !.names = SelectSeq(@, LAMBDA n : ~ n.reserved /\ n.slot \in SlotsOf(binds)),
         !.events = <<>>]

\* One past the highest kept id; each id below it is taken to be the same
\* id of the runtime, which is mounted on the image.
KeptIds(records, table) ==
  LET top == IF DOMAIN records = {} THEN 0 ELSE Max(DOMAIN records)
  IN  [i \in 1 .. top |-> IF i \in DOMAIN table THEN i ELSE 0]

StartEncoding(rt, kept) ==
  [codes |-> kept.codes, objs |-> kept.objs,
   cmap |-> KeptIds(kept.codes, rt.codes), omap |-> KeptIds(kept.objs, rt.objs),
   marks |-> {kept.codes[i].calls : i \in DOMAIN kept.codes},
   at |-> 0, err |-> "OK"]

EncodeTiers(enc, rt, tiers) ==
  FoldLeft(LAMBDA a, t : IF t \in tiers THEN EncodeTierParts(a, rt, t) ELSE a,
           enc, <<"lib", "user">>)

\* Every event's body, with the final ids that the event records carry.
EncodeEvents(enc, rt) ==
  LET written(a, e) == [enc |-> e, ids |-> Append(a.ids, e.at)]
  IN  FoldLeft(LAMBDA a, id : written(a, EncodeCode(a.enc, rt, id)),
               [enc |-> enc, ids |-> <<>>], rt.events)

\* A user-tier save leaves out the name of a library word: its record is kept.
WritesName(rt, e, tiers) ==
  /\ Active(e)
  /\ ShouldEncode(rt, IdForName(rt, e.name), tiers)
  /\ tiers = {"user"} => rt.slot[IdForName(rt, e.name)].lib = <<>>

\* Reserved names last: one is kept while the written code names its slot.
NamesOf(rt, tiers, marks) ==
  LET named    == SelectSeq(rt.names, LAMBDA e : WritesName(rt, e, tiers))
      reserved == SelectSeq(rt.names, LAMBDA e : ~ Active(e) /\ e.slot \in marks)
      record(e) == NameRecord(e.slot, e.name, ~ Active(e))
  IN  [i \in DOMAIN named |-> record(named[i])]
        \o [i \in DOMAIN reserved |-> record(reserved[i])]

Unwritten(err) == [err |-> err, img |-> NoRecords]
FirstError(vals) == LET bad == {i \in DOMAIN vals : vals[i].err # "OK"}
                    IN  IF bad = {} THEN "OK" ELSE vals[Least(bad)].err

\* The answer of an encode: the image, or the first error.  The limit of BIND
\* records is checked as they are written.
Assembled(rt, kept, tiers, slots, vals, evs) ==
  IF FirstError(vals) # "OK" THEN Unwritten(FirstError(vals))
  ELSE IF Len(kept.binds) + Len(slots) > MaxSlots THEN Unwritten("CAPACITY")
  ELSE IF evs.enc.err # "OK" THEN Unwritten(evs.enc.err)
  ELSE [err |-> "OK",
        img |-> Image(evs.enc.codes, evs.enc.objs,
                  kept.binds \o [i \in DOMAIN slots |->
                    Bind(slots[i], EncodeTier(rt, slots[i]), vals[i].val)],
                  kept.names \o NamesOf(rt, tiers, evs.enc.marks),
                  evs.ids)]

\* The binds, names and events, after the records of the slots' values.
Encoded(rt, kept, tiers, held, slots, enc) ==
  IF enc.err # "OK" THEN Unwritten(enc.err)
  ELSE Assembled(rt, kept, tiers, slots,
         [i \in DOMAIN slots |->
            IF slots[i] \in held THEN [err |-> "OK", val |-> Nil]
            ELSE EncodeValue(enc, rt, rt.slot[slots[i]].cur)],
         EncodeEvents(enc, rt))

Payload(rt, kept, tiers, held) ==
  IF CheckSavable(rt, held) # "OK" THEN Unwritten(CheckSavable(rt, held))
  ELSE Encoded(rt, kept, tiers, held,
         SelectSeq(SlotsBelow(rt), LAMBDA s : ShouldEncode(rt, s, tiers)),
         EncodeTiers(StartEncoding(rt, kept), rt, tiers))

FullPayload(rt) == Payload(rt, NoRecords, Tiers, {})

\* mounted is the image that the runtime is mounted on, or no records.
UserPayload(rt, mounted, held) ==
  Payload(rt, LibraryRecords(mounted), {"user"}, held)
==============================================================================
