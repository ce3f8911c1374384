------------------------- MODULE FrothyHandlesProof -------------------------
(***************************************************************************)
(* Proofs about the handle table.  Every action but an open only takes     *)
(* entries away (Shrinks); an open that fails only retires spent entries   *)
(* (Keeps); an open that succeeds adds one reference (Grows).  Each shape  *)
(* preserves the invariant and is a step of Capabilities, so the actions   *)
(* need only be shown to have one of the shapes.                           *)
(***************************************************************************)
EXTENDS FrothyHandles, TLAPS

(***************************************************************************)
(* The inductive invariant.                                                *)
(***************************************************************************)
\* A reference was issued for one resource, and means it while it is live.
IssuedMean ==
    /\ \A x, y \in issued : x.ref = y.ref => x = y
    /\ \A x \in issued :
        Resolves(table, x.ref) => table[x.ref.id].target = x.target

\* Natives leave no entry reserved, the hold lasts until the reset of the
\* first mount, and a save answers only at its end.
HoldSpent ==
    /\ holding => pc = "remount"
    /\ pc # "idle" => reply = "none"
    /\ \A i \in Ids : table[i].target # Reserved

\* Until that mount, the runtime holds all the save set aside, and none of it
\* is a connection, which the clear drops.
HoldWhole ==
    pc = "remount" =>
        /\ HeldRefs(held) # {} => holding
        /\ \A ref \in HeldRefs(held) :
            Resolves(table, ref) => table[ref.id].target \notin Ble

\* After the reset a save leaves live what it holds and what is stuck.
AppliedHeld ==
    pc = "applied" => \A i \in LiveIds(table) \ refused :
        [id |-> i, gen |-> table[i].gen] \in HeldRefs(held)

TableInv == Ownership /\ OnlyUseSpendsEntries /\ IssuedMean

IInv ==
    /\ TypeOK /\ TableInv
    /\ HoldSpent /\ HoldWhole /\ AppliedHeld /\ NothingLeftOpen

(***************************************************************************)
(* Entries and the operations of the table.                                *)
(***************************************************************************)
USE CapacityAssumption, MaxGenAssumption, TargetAssumption

\* The fields of an entry, and the entry from its fields.
LEMMA EntryOf ==
    ASSUME NEW e \in Entries
    PROVE  /\ e.target \in Resources \cup {Free, Reserved}
           /\ e.gen \in 0 .. MaxGen /\ e.retired \in BOOLEAN
           /\ e = [target |-> e.target, gen |-> e.gen, retired |-> e.retired]
BY DEF Entries

\* Clearing an entry keeps its generation and its retirement.
LEMMA ClearedEntry ==
    ASSUME NEW e \in Entries
    PROVE  /\ Cleared(e) \in Entries
           /\ Cleared(e).target = Free
           /\ Cleared(e).gen = e.gen /\ Cleared(e).retired = e.retired
BY DEF Entries, Cleared

\* Retiring an entry keeps its target and its generation.
LEMMA RetiredEntry ==
    ASSUME NEW e \in Entries
    PROVE  /\ [e EXCEPT !.retired = TRUE] \in Entries
           /\ [e EXCEPT !.retired = TRUE].target = e.target
           /\ [e EXCEPT !.retired = TRUE].gen = e.gen
           /\ [e EXCEPT !.retired = TRUE].retired = TRUE
BY DEF Entries

\* The scan changes nothing but the retirement of spent entries.
LEMMA ScannedTable ==
    ASSUME NEW t \in [Ids -> Entries], NEW n \in Int
    PROVE  /\ Scanned(t, n) \in [Ids -> Entries]
           /\ \A j \in Ids :
                /\ Scanned(t, n)[j].target = t[j].target
                /\ Scanned(t, n)[j].gen = t[j].gen
                /\ Scanned(t, n)[j].retired = t[j].retired \/ Spent(t[j])
<1> DEFINE s == Scanned(t, n)
<1>1. s = [j \in Ids |-> IF j < n /\ Spent(t[j])
                         THEN [t[j] EXCEPT !.retired = TRUE] ELSE t[j]]
  BY DEF Scanned
<1>2. ASSUME NEW j \in Ids
      PROVE  /\ s[j] \in Entries
             /\ s[j].target = t[j].target /\ s[j].gen = t[j].gen
             /\ s[j].retired = t[j].retired \/ Spent(t[j])
  <2> HIDE DEF s
  <2>1. CASE j < n /\ Spent(t[j])
    <3>1. s[j] = [t[j] EXCEPT !.retired = TRUE]
      BY <1>1, <2>1
    <3> QED BY <3>1, <2>1, RetiredEntry
  <2>2. CASE ~(j < n /\ Spent(t[j]))
    BY <1>1, <2>2
  <2> QED BY <2>1, <2>2
<1>3. s \in [Ids -> Entries]
  BY <1>1, <1>2
<1> QED BY <1>2, <1>3

\* A fresh entry is an entry of the table and is not retired.
LEMMA EntryRecord ==
    ASSUME NEW target \in Resources \cup {Free, Reserved}, NEW gen \in 0 .. MaxGen
    PROVE  /\ Entry(target, gen) \in Entries
           /\ Entry(target, gen).target = target /\ Entry(target, gen).gen = gen
           /\ ~Entry(target, gen).retired
BY DEF Entry, Entries

\* A reservation and its release are a scan.
LEMMA ReleasedTable ==
    ASSUME NEW t \in [Ids -> Entries], NEW i \in Ids, Usable(t, i)
    PROVE  Release(Reserve(t, i), i) = Scanned(t, i)
<1> DEFINE s == Scanned(t, i)
           r == Reserve(t, i)
<1>0. i \in Int BY DEF Ids
<1>1. s \in [Ids -> Entries]
  BY <1>0, ScannedTable
<1>2. t[i].gen \in 0 .. MaxGen /\ t[i].gen + 1 \in 0 .. MaxGen /\ t[i].gen + 1 - 1 = t[i].gen
  BY EntryOf DEF Usable
<1>3. s[i] = t[i]
  BY <1>0 DEF Scanned
<1>4. t[i] = Entry(Free, t[i].gen)
  BY EntryOf DEF Usable, Entry
<1>5. r = [s EXCEPT ![i] = Entry(Reserved, t[i].gen + 1)]
  BY DEF Reserve
<1> HIDE DEF s, r
<1>6. r[i].gen = t[i].gen + 1
  BY <1>1, <1>2, <1>5, EntryRecord
<1>7. Release(r, i) = [r EXCEPT ![i] = s[i]]
  <2>1. r[i].gen - 1 = t[i].gen
    BY <1>2, <1>6
  <2>2. Entry(Free, r[i].gen - 1) = s[i]
    BY <2>1, <1>3, <1>4
  <2> QED BY <2>2 DEF Release
<1>8. Release(r, i) = s
  BY <1>1, <1>5, <1>7
<1> QED BY <1>8 DEF s, r

\* A reservation that takes a resource nobody owns.
LEMMA ActivatedTable ==
    ASSUME NEW t \in [Ids -> Entries], NEW i \in Ids, Usable(t, i),
           NEW res \in Resources, Owners(t, res) = {}
    PROVE  LET u == Activate(Reserve(t, i), i, res) IN
           /\ u \in [Ids -> Entries]
           /\ u[i].target = res /\ u[i].gen = t[i].gen + 1
           /\ ~u[i].retired
           /\ \A j \in Ids \ {i} : u[j] = Scanned(t, i)[j]
<1> DEFINE s == Scanned(t, i)
           r == Reserve(t, i)
<1>0. i \in Int BY DEF Ids
<1>1. s \in [Ids -> Entries] /\ \A j \in Ids : s[j].target = t[j].target
  BY <1>0, ScannedTable
<1>2. t[i].gen + 1 \in 0 .. MaxGen
  BY EntryOf DEF Usable
<1>3. r = [s EXCEPT ![i] = Entry(Reserved, t[i].gen + 1)]
  BY DEF Reserve
<1> HIDE DEF s, r
<1>4. /\ r \in [Ids -> Entries] /\ r[i].gen = t[i].gen + 1
      /\ \A j \in Ids \ {i} : r[j] = s[j]
  BY <1>1, <1>2, <1>3, EntryRecord
<1>5. Owners(r, res) \ {i} = {}
  <2>1. \A j \in Ids : t[j].target # res
    BY DEF Owners
  <2> QED BY <2>1, <1>1, <1>4 DEF Owners
<1>6. Activate(r, i, res) = [r EXCEPT ![i] = Entry(res, t[i].gen + 1)]
  BY <1>4, <1>5 DEF Activate
<1>7. /\ Activate(r, i, res) \in [Ids -> Entries]
      /\ Activate(r, i, res)[i] = Entry(res, t[i].gen + 1)
      /\ \A j \in Ids \ {i} : Activate(r, i, res)[j] = s[j]
  BY <1>2, <1>4, <1>6, EntryRecord
<1> QED BY <1>2, <1>7, EntryRecord DEF r, s

(***************************************************************************)
(* The three shapes of a step on the table.                                *)
(***************************************************************************)
\* Entries go, and their resources with them.
Shrinks ==
    /\ table' \in [Ids -> Entries]
    /\ \A i \in Ids : table'[i] = table[i] \/ table'[i] = Cleared(table[i])
    /\ open' = {table'[i].target : i \in LiveIds(table')}
    /\ issued' = issued

\* Only spent entries change: they retire.
Keeps ==
    /\ \E n \in Int : table' = Scanned(table, n)
    /\ open' = open /\ issued' = issued

\* One entry takes a resource nobody owns, and gets a new reference.
Grows ==
    \E i \in Ids, res \in Resources :
        /\ Usable(table, i) /\ Owners(table, res) = {}
        /\ table' = Activate(Reserve(table, i), i, res)
        /\ Issue(i, res)

\* Taking entries away preserves the table's invariant.
LEMMA ShrinksInv ==
    ASSUME TypeOK, TableInv, Shrinks
    PROVE  TableInv'
<1> USE DEF TypeOK
<1>1. \A i \in Ids : /\ table'[i].gen = table[i].gen
                     /\ table'[i].retired = table[i].retired
                     /\ table'[i].target \in {table[i].target, Free}
  BY ClearedEntry DEF Shrinks
<1>2. LiveIds(table') \subseteq LiveIds(table)
      /\ \A i \in LiveIds(table') : table'[i].target = table[i].target
  BY <1>1 DEF LiveIds, Live
<1>3. Ownership'
  <2>1. open' = {table'[i].target : i \in LiveIds(table')}
    BY DEF Shrinks
  <2>2. \A i, j \in LiveIds(table') : table'[i].target = table'[j].target => i = j
    BY <1>2 DEF TableInv, Ownership
  <2> QED BY <2>1, <2>2 DEF Ownership
<1>4. OnlyUseSpendsEntries'
  <2>1. ASSUME NEW i \in Ids
        PROVE  /\ {x.ref.gen : x \in {y \in issued' : y.ref.id = i}} = 1 .. table'[i].gen
               /\ table'[i].retired => Spent(table'[i])
    <3>1. {x.ref.gen : x \in {y \in issued' : y.ref.id = i}} = 1 .. table'[i].gen
      BY <1>1 DEF Shrinks, TableInv, OnlyUseSpendsEntries
    <3>2. table'[i].retired => Spent(table'[i])
      BY <1>1 DEF Spent, TableInv, OnlyUseSpendsEntries
    <3> QED BY <3>1, <3>2
  <2> QED BY <2>1 DEF OnlyUseSpendsEntries
<1>5. IssuedMean'
  <2>1. \A x \in issued : x.ref \in Refs
    OBVIOUS
  <2>2. \A x \in issued : x.ref.id \in Ids
    BY <2>1 DEF Refs
  <2>3. ASSUME NEW x \in issued, Resolves(table', x.ref)
        PROVE  table'[x.ref.id].target = x.target
    <3>1. x.ref.id \in LiveIds(table')
      BY <2>2, <2>3 DEF Resolves, LiveIds
    <3>2. Resolves(table, x.ref)
      BY <3>1, <2>2, <2>3, <1>1, <1>2 DEF Resolves, LiveIds
    <3> QED BY <3>1, <3>2, <1>2 DEF TableInv, IssuedMean
  <2> QED BY <2>3 DEF IssuedMean, TableInv, Shrinks
<1> QED BY <1>3, <1>4, <1>5 DEF TableInv

\* So does retiring spent entries, which leaves references as they are.
LEMMA KeepsInv ==
    ASSUME TypeOK, TableInv, Keeps
    PROVE  /\ TableInv'
           /\ \A ref \in Refs : Resolves(table', ref) = Resolves(table, ref)
           /\ \A i \in Ids : table'[i].target = table[i].target
           /\ \A i \in Ids : table'[i].gen = table[i].gen
<1> USE DEF TypeOK
<1>1. \A i \in Ids : /\ table'[i].gen = table[i].gen
                     /\ table'[i].target = table[i].target
                     /\ table'[i].retired = table[i].retired \/ Spent(table[i])
  BY ScannedTable DEF Keeps
<1>2. LiveIds(table') = LiveIds(table)
      /\ \A i \in LiveIds(table') : table'[i].target = table[i].target
  BY <1>1 DEF LiveIds, Live
<1>3. Ownership'
  BY <1>2 DEF Ownership, TableInv, Keeps
<1>4. OnlyUseSpendsEntries'
  <2>1. ASSUME NEW i \in Ids
        PROVE  /\ {x.ref.gen : x \in {y \in issued' : y.ref.id = i}} = 1 .. table'[i].gen
               /\ table'[i].retired => Spent(table'[i])
    <3>1. {x.ref.gen : x \in {y \in issued' : y.ref.id = i}} = 1 .. table'[i].gen
      BY <1>1 DEF Keeps, TableInv, OnlyUseSpendsEntries
    <3>2. table'[i].retired => Spent(table'[i])
      BY <1>1 DEF Spent, TableInv, OnlyUseSpendsEntries
    <3> QED BY <3>1, <3>2
  <2> QED BY <2>1 DEF OnlyUseSpendsEntries
<1>5. \A ref \in Refs : Resolves(table', ref) = Resolves(table, ref)
  BY <1>1 DEF Refs, Resolves, Live
<1>6. IssuedMean'
  <2>1. \A x \in issued : x.ref \in Refs /\ x.ref.id \in Ids
    BY DEF Refs
  <2> QED BY <2>1, <1>1, <1>5 DEF IssuedMean, TableInv, Keeps
<1> QED BY <1>1, <1>3, <1>4, <1>5, <1>6 DEF TableInv

\* What an open that succeeds does: the reference is new, and it is the only
\* thing that comes to life.
LEMMA GrowsTable ==
    ASSUME TypeOK, TableInv, NEW i \in Ids, NEW res \in Resources,
           Usable(table, i), Owners(table, res) = {},
           table' = Activate(Reserve(table, i), i, res), Issue(i, res)
    PROVE  LET new == [ref |-> [id |-> i, gen |-> table[i].gen + 1], target |-> res] IN
           /\ table' \in [Ids -> Entries]
           /\ open' = open \cup {res} /\ issued' = issued \cup {new}
           /\ new.ref \in Refs /\ \A x \in issued : x.ref # new.ref
           /\ table'[i].target = res /\ table'[i].gen = table[i].gen + 1
           /\ ~table'[i].retired
           /\ ~Live(table, i)
           /\ \A j \in Ids \ {i} :
                /\ table'[j].target = table[j].target
                /\ table'[j].gen = table[j].gen
                /\ table'[j].retired = table[j].retired \/ Spent(table[j])
<1> USE DEF TypeOK
<1> DEFINE new == [ref |-> [id |-> i, gen |-> table[i].gen + 1], target |-> res]
<1>0. i \in Int BY DEF Ids
<1>1. /\ table' \in [Ids -> Entries]
      /\ table'[i].target = res /\ table'[i].gen = table[i].gen + 1
      /\ ~table'[i].retired
      /\ \A j \in Ids \ {i} : table'[j] = Scanned(table, i)[j]
  BY ActivatedTable
<1>2. open' = open \cup {res} /\ issued' = issued \cup {new}
  BY <1>1 DEF Issue
<1>3. new.ref \in Refs
  <2>1. table[i].gen + 1 \in 1 .. MaxGen
    BY EntryOf DEF Usable
  <2> QED BY <2>1 DEF Refs
<1>4. \A x \in issued : x.ref # new.ref
  <2> SUFFICES ASSUME NEW x \in issued, x.ref = new.ref
               PROVE  FALSE
    OBVIOUS
  <2>1. x.ref.gen \in {y.ref.gen : y \in {z \in issued : z.ref.id = i}}
    OBVIOUS
  <2>2. table[i].gen + 1 \in 1 .. table[i].gen
    BY <2>1 DEF TableInv, OnlyUseSpendsEntries
  <2> QED BY <2>2, EntryOf
<1>5. ~Live(table, i)
  BY DEF Usable, Live
<1>6. \A j \in Ids \ {i} :
        /\ table'[j].target = table[j].target
        /\ table'[j].gen = table[j].gen
        /\ table'[j].retired = table[j].retired \/ Spent(table[j])
  <2>1. \A j \in Ids :
          /\ Scanned(table, i)[j].target = table[j].target
          /\ Scanned(table, i)[j].gen = table[j].gen
          /\ Scanned(table, i)[j].retired = table[j].retired \/ Spent(table[j])
    BY <1>0, ScannedTable
  <2> QED BY <1>1, <2>1
<1> QED BY <1>1, <1>2, <1>3, <1>4, <1>5, <1>6

\* So does giving an entry a resource nobody owns.
LEMMA GrowsInv ==
    ASSUME TypeOK, TableInv, Grows
    PROVE  /\ TableInv'
           /\ table' \in [Ids -> Entries] /\ open' \subseteq Resources
           /\ issued' \subseteq [ref : Refs, target : Resources]
           /\ \A j \in Ids : Live(table, j) =>
                table'[j].target = table[j].target /\ table'[j].gen = table[j].gen
           /\ \A j \in Ids : table[j].target # Reserved => table'[j].target # Reserved
<1> USE DEF TypeOK
<1>0. PICK i \in Ids, res \in Resources :
        /\ Usable(table, i) /\ Owners(table, res) = {}
        /\ table' = Activate(Reserve(table, i), i, res)
        /\ Issue(i, res)
  BY DEF Grows
<1> DEFINE ref == [id |-> i, gen |-> table[i].gen + 1]
           new == [ref |-> ref, target |-> res]
<1>1. /\ table' \in [Ids -> Entries]
      /\ open' = open \cup {res} /\ issued' = issued \cup {new}
      /\ ref \in Refs /\ \A x \in issued : x.ref # ref
      /\ table'[i].target = res /\ table'[i].gen = table[i].gen + 1
      /\ ~table'[i].retired /\ ~Live(table, i)
      /\ \A j \in Ids \ {i} :
            /\ table'[j].target = table[j].target
            /\ table'[j].gen = table[j].gen
            /\ table'[j].retired = table[j].retired \/ Spent(table[j])
  BY <1>0, GrowsTable
<1>2. LiveIds(table') = LiveIds(table) \cup {i}
  BY <1>1 DEF LiveIds, Live
<1>3. Ownership'
  <2>1. \A j \in LiveIds(table) : j # i /\ table'[j].target = table[j].target
    BY <1>1 DEF LiveIds
  <2>2. open' = {table'[j].target : j \in LiveIds(table')}
    BY <1>1, <1>2, <2>1 DEF TableInv, Ownership
  <2>3. \A j \in LiveIds(table) : table[j].target # res
    BY <1>0 DEF Owners, LiveIds
  <2>4. ASSUME NEW j \in LiveIds(table'), NEW k \in LiveIds(table'),
               table'[j].target = table'[k].target
        PROVE  j = k
    BY <2>1, <2>3, <2>4, <1>1, <1>2 DEF TableInv, Ownership
  <2> QED BY <2>2, <2>4 DEF Ownership
<1>4. OnlyUseSpendsEntries'
  <2>1. ASSUME NEW j \in Ids
        PROVE  /\ {x.ref.gen : x \in {y \in issued' : y.ref.id = j}} = 1 .. table'[j].gen
               /\ table'[j].retired => Spent(table'[j])
    <3>1. CASE j = i
      <4>1. {y \in issued' : y.ref.id = i} = {y \in issued : y.ref.id = i} \cup {new}
        <5>1. new.ref.id = i
          OBVIOUS
        <5>2. issued' = issued \cup {new}
          BY <1>1
        <5> HIDE DEF new
        <5> QED BY <5>1, <5>2
      <4>2. {x.ref.gen : x \in {y \in issued' : y.ref.id = i}}
              = {x.ref.gen : x \in {y \in issued : y.ref.id = i}} \cup {table[i].gen + 1}
        <5>1. new.ref.gen = table[i].gen + 1
          OBVIOUS
        <5> HIDE DEF new
        <5> QED BY <4>1, <5>1
      <4>3. {x.ref.gen : x \in {y \in issued : y.ref.id = i}} = 1 .. table[i].gen
        BY DEF TableInv, OnlyUseSpendsEntries
      <4>4. table[i].gen \in Nat
        BY EntryOf
      <4>5. (1 .. table[i].gen) \cup {table[i].gen + 1} = 1 .. (table[i].gen + 1)
        BY <4>4
      <4> QED BY <3>1, <4>2, <4>3, <4>5, <1>1
    <3>2. CASE j # i
      <4>1. {y \in issued' : y.ref.id = j} = {y \in issued : y.ref.id = j}
        BY <1>1, <3>2
      <4>2. {x.ref.gen : x \in {y \in issued' : y.ref.id = j}} = 1 .. table'[j].gen
        BY <4>1, <1>1, <3>2 DEF TableInv, OnlyUseSpendsEntries
      <4>3. table'[j].retired => Spent(table'[j])
        BY <1>1, <3>2 DEF Spent, TableInv, OnlyUseSpendsEntries
      <4> QED BY <4>2, <4>3
    <3> QED BY <3>1, <3>2
  <2> QED BY <2>1 DEF OnlyUseSpendsEntries
<1>5. IssuedMean'
  <2>1. \A x \in issued : x.ref \in Refs /\ x.ref.id \in Ids
    BY DEF Refs
  <2>2. \A x, y \in issued' : x.ref = y.ref => x = y
    BY <1>1 DEF TableInv, IssuedMean
  <2>3. ASSUME NEW x \in issued', Resolves(table', x.ref)
        PROVE  table'[x.ref.id].target = x.target
    <3>1. CASE x = new
      BY <3>1, <1>1
    <3>2. CASE x \in issued
      <4>1. CASE x.ref.id = i
        <5>1. x.ref.gen = table[i].gen + 1
          BY <4>1, <2>3, <1>1 DEF Resolves
        <5>2. x.ref = ref
          BY <5>1, <4>1, <2>1, <3>2 DEF Refs
        <5> QED BY <5>2, <3>2, <1>1
      <4>2. CASE x.ref.id # i
        BY <4>2, <3>2, <2>1, <2>3, <1>1 DEF Resolves, Live, TableInv, IssuedMean
      <4> QED BY <4>1, <4>2
    <3> QED BY <3>1, <3>2, <1>1
  <2> QED BY <2>2, <2>3 DEF IssuedMean
<1>6. \A j \in Ids : Live(table, j) =>
        table'[j].target = table[j].target /\ table'[j].gen = table[j].gen
  BY <1>1
<1>7. \A j \in Ids : table[j].target # Reserved => table'[j].target # Reserved
  BY <1>1
<1> QED BY <1>1, <1>3, <1>4, <1>5, <1>6, <1>7 DEF TableInv

(***************************************************************************)
(* The shapes as steps of Capabilities.                                    *)
(***************************************************************************)
LEMMA ShrinksDies ==
    ASSUME TypeOK, TableInv, Shrinks \/ Keeps
    PROVE  Caps!Die
<1> USE DEF TypeOK
<1>1. \A x \in issued : x.ref \in Refs /\ x.ref.id \in Ids
  BY DEF Refs
<1>2. issued' = issued
  BY DEF Shrinks, Keeps
<1>3. \A ref \in Refs : Resolves(table', ref) =>
        Resolves(table, ref) /\ table'[ref.id].target = table[ref.id].target
  <2>1. CASE Shrinks
    <3>1. \A i \in Ids : /\ table'[i].gen = table[i].gen
                         /\ table'[i].target \in {table[i].target, Free}
      BY <2>1, ClearedEntry DEF Shrinks
    <3> QED BY <3>1 DEF Resolves, Live, Refs
  <2>2. CASE Keeps
    BY <2>2, KeepsInv DEF Refs
  <2> QED BY <2>1, <2>2
<1>4. Refers' \subseteq Refers
  BY <1>1, <1>2, <1>3 DEF Refers
<1> QED BY <1>2, <1>4 DEF Caps!Die

\* A step that adds one gives out one new reference.
LEMMA GrowsGives ==
    ASSUME TypeOK, TableInv, Grows
    PROVE  \E ref \in Refs, res \in Resources : Caps!Give(ref, res)
<1> USE DEF TypeOK
<1>0. PICK i \in Ids, res \in Resources :
        /\ Usable(table, i) /\ Owners(table, res) = {}
        /\ table' = Activate(Reserve(table, i), i, res)
        /\ Issue(i, res)
  BY DEF Grows
<1> DEFINE ref == [id |-> i, gen |-> table[i].gen + 1]
           new == [ref |-> ref, target |-> res]
<1>1. /\ issued' = issued \cup {new}
      /\ ref \in Refs /\ \A x \in issued : x.ref # ref
      /\ table'[i].target = res /\ table'[i].gen = table[i].gen + 1
      /\ ~Live(table, i)
      /\ \A j \in Ids \ {i} :
            table'[j].target = table[j].target /\ table'[j].gen = table[j].gen
  BY <1>0, GrowsTable
<1>2. \A x \in issued : x.ref \in Refs /\ x.ref.id \in Ids
  BY DEF Refs
<1>3. \A r \in Refs : r # ref =>
        /\ Resolves(table', r) = Resolves(table, r)
        /\ Resolves(table, r) => table'[r.id].target = table[r.id].target
  <2> SUFFICES ASSUME NEW r \in Refs, r # ref
               PROVE  /\ Resolves(table', r) = Resolves(table, r)
                      /\ Resolves(table, r) => table'[r.id].target = table[r.id].target
    OBVIOUS
  <2>0. r = [id |-> r.id, gen |-> r.gen] /\ r.id \in Ids
    BY DEF Refs
  <2>1. CASE r.id = i
    <3>1. r.gen # table[i].gen + 1
      BY <2>0, <2>1
    <3> QED BY <2>1, <3>1, <1>1 DEF Resolves
  <2>2. CASE r.id # i
    BY <2>0, <2>2, <1>1 DEF Resolves, Live
  <2> QED BY <2>1, <2>2
<1>4. Resolves(table', ref) /\ table'[ref.id].target = res
  BY <1>1 DEF Resolves, Live
<1> HIDE DEF ref
<1>5. Refers' = Refers \cup {new}
  <2>1. {r \in {x.ref : x \in issued'} : Resolves(table', r)}
          = {r \in {x.ref : x \in issued} : Resolves(table, r)} \cup {ref}
    <3>1. {x.ref : x \in issued'} = {x.ref : x \in issued} \cup {ref}
      <4>1. new.ref = ref
        OBVIOUS
      <4>2. issued' = issued \cup {new}
        BY <1>1
      <4> HIDE DEF new
      <4> QED BY <4>1, <4>2
    <3>2. \A r \in {x.ref : x \in issued} :
            r \in Refs /\ r # ref /\ Resolves(table', r) = Resolves(table, r)
      BY <1>1, <1>2, <1>3
    <3> QED BY <3>1, <3>2, <1>4
  <2>2. \A r \in {r \in {x.ref : x \in issued} : Resolves(table, r)} :
          table'[r.id].target = table[r.id].target
    BY <1>1, <1>2, <1>3
  <2> QED BY <2>1, <2>2, <1>4 DEF Refers
<1>6. \A x \in Refers : x.target # res
  BY <1>0, <1>2 DEF Refers, Owners
<1>7. Caps!Give(ref, res)
  BY <1>1, <1>5, <1>6 DEF Caps!Give
<1> QED BY <1>1, <1>7

(***************************************************************************)
(* Every action has one of the shapes.                                     *)
(***************************************************************************)
\* A close that takes out of open what the entries it clears owned.
LEMMA GoneClosed ==
    ASSUME TypeOK, TableInv, table' \in [Ids -> Entries], issued' = issued,
           \A i \in Ids : table'[i] = table[i] \/ table'[i] = Cleared(table[i]),
           open' = open \ {table[i].target : i \in LiveIds(table) \ LiveIds(table')}
    PROVE  Shrinks
<1> USE DEF TypeOK
<1>1. LiveIds(table') \subseteq LiveIds(table)
      /\ \A i \in LiveIds(table') : table'[i].target = table[i].target
  BY ClearedEntry DEF LiveIds, Live
<1>2. open' = {table'[i].target : i \in LiveIds(table')}
  BY <1>1 DEF TableInv, Ownership
<1> QED BY <1>2 DEF Shrinks

\* A bulk close, entry by entry.
LEMMA BulkCloseTable ==
    ASSUME NEW t \in [Ids -> Entries], NEW kept, NEW failed
    PROVE  /\ BulkClose(t, kept, failed) \in [Ids -> Entries]
           /\ \A i \in Ids : BulkClose(t, kept, failed)[i] =
                IF i \in kept \cup failed THEN t[i] ELSE Cleared(t[i])
BY ClearedEntry DEF BulkClose

\* Forgetting the BLE entries, entry by entry.
LEMMA ForgetBleTable ==
    ASSUME NEW t \in [Ids -> Entries]
    PROVE  /\ ForgetBle(t) \in [Ids -> Entries]
           /\ \A i \in Ids : ForgetBle(t)[i] =
                IF t[i].target \in Ble THEN Cleared(t[i]) ELSE t[i]
BY ClearedEntry DEF ForgetBle

\* An entry cleared twice is cleared once.
LEMMA ClearedTwice ==
    ASSUME NEW e \in Entries
    PROVE  Cleared(Cleared(e)) = Cleared(e)
BY DEF Entries, Cleared

\* A clear: bulk close, then forget BLE.
LEMMA ClearShrinks ==
    ASSUME TypeOK, TableInv, NEW kept, NEW failed, issued' = issued,
           table' = ForgetBle(BulkClose(table, kept, failed)),
           open' = StillOpen(table, kept, failed) \ Ble
    PROVE  /\ Shrinks
           /\ LiveIds(table') = {i \in LiveIds(table) :
                i \in kept \cup failed /\ table[i].target \notin Ble}
<1> USE DEF TypeOK
<1> DEFINE t == BulkClose(table, kept, failed)
<1>1. /\ t \in [Ids -> Entries]
      /\ \A i \in Ids : t[i] = IF i \in kept \cup failed THEN table[i]
                               ELSE Cleared(table[i])
  BY BulkCloseTable
<1> HIDE DEF t
<1>2. /\ table' \in [Ids -> Entries]
      /\ \A i \in Ids : table'[i] = IF t[i].target \in Ble THEN Cleared(t[i])
                                    ELSE t[i]
  BY <1>1, ForgetBleTable DEF t
<1>3. \A i \in Ids : table'[i] = table[i] \/ table'[i] = Cleared(table[i])
  BY <1>1, <1>2, ClearedTwice
<1>4. Free \notin Ble /\ Ble \subseteq Resources
  BY DEF Resources
<1>5. \A i \in Ids : Live(table', i) <=>
        Live(table, i) /\ i \in kept \cup failed /\ table[i].target \notin Ble
  BY <1>1, <1>2, <1>4, ClearedEntry DEF Live
<1>6. LiveIds(table') = {i \in LiveIds(table) :
        i \in kept \cup failed /\ table[i].target \notin Ble}
  BY <1>5 DEF LiveIds
<1>7. open' = open \ {table[i].target : i \in LiveIds(table) \ LiveIds(table')}
  BY <1>6 DEF StillOpen, TableInv, Ownership
<1> QED BY <1>2, <1>3, <1>6, <1>7, GoneClosed

\* close-handles and the first step of wipe-user take entries away.
LEMMA CloseAllShrinks ==
    ASSUME TypeOK, TableInv, NEW failed, issued' = issued, CloseAll(table, failed)
    PROVE  Shrinks
<1> USE DEF TypeOK
<1>1. /\ table' \in [Ids -> Entries]
      /\ \A i \in Ids : table'[i] = IF i \in failed THEN table[i]
                                    ELSE Cleared(table[i])
  BY BulkCloseTable DEF CloseAll
<1>2. \A i \in Ids : Live(table', i) <=> Live(table, i) /\ i \in failed
  BY <1>1, ClearedEntry DEF Live
<1>3. LiveIds(table) \ LiveIds(table') = LiveIds(table) \ failed
  BY <1>2 DEF LiveIds
<1>4. open' = open \ {table[i].target : i \in LiveIds(table) \ LiveIds(table')}
  BY <1>3 DEF CloseAll, StillOpen
<1> QED BY <1>1, <1>4, GoneClosed

\* ble.off takes entries away.
LEMMA BleOffShrinks ==
    ASSUME TypeOK, TableInv, issued' = issued,
           table' = ForgetBle(table), open' = open \ Ble
    PROVE  Shrinks
<1> USE DEF TypeOK
<1>1. /\ table' \in [Ids -> Entries]
      /\ \A i \in Ids : table'[i] = IF table[i].target \in Ble
                                    THEN Cleared(table[i]) ELSE table[i]
  BY ForgetBleTable
<1>2. Free \notin Ble /\ Ble \subseteq Resources
  BY DEF Resources
<1>3. \A i \in Ids : Live(table', i) <=> Live(table, i) /\ table[i].target \notin Ble
  BY <1>1, <1>2, ClearedEntry DEF Live
<1>4. LiveIds(table) \ LiveIds(table')
        = {i \in LiveIds(table) : table[i].target \in Ble}
  BY <1>3 DEF LiveIds
<1>5. open' = open \ {table[i].target : i \in LiveIds(table) \ LiveIds(table')}
  BY <1>4 DEF TableInv, Ownership
<1> QED BY <1>1, <1>5, GoneClosed

\* restore takes entries away.
LEMMA RestoreShrinks ==
    ASSUME TypeOK, TableInv, NEW failed, Restore(failed)
    PROVE  Shrinks
<1> USE DEF TypeOK
<1> DEFINE t == ForgetBle(table)
<1>1. /\ t \in [Ids -> Entries]
      /\ \A i \in Ids : t[i] = IF table[i].target \in Ble
                               THEN Cleared(table[i]) ELSE table[i]
  BY ForgetBleTable
<1> HIDE DEF t
<1>2. /\ table' \in [Ids -> Entries]
      /\ \A i \in Ids : table'[i] = IF i \in failed THEN t[i] ELSE Cleared(t[i])
  BY <1>1, BulkCloseTable DEF Restore, t
<1>3. \A i \in Ids : table'[i] = table[i] \/ table'[i] = Cleared(table[i])
  BY <1>1, <1>2, ClearedTwice
<1>4. Free \notin Ble /\ Ble \subseteq Resources
  BY DEF Resources
<1>5. \A i \in Ids : /\ Live(t, i) <=> Live(table, i) /\ table[i].target \notin Ble
                     /\ Live(table', i) <=> Live(t, i) /\ i \in failed
                     /\ Live(t, i) => t[i].target = table[i].target
  BY <1>1, <1>2, <1>4, ClearedEntry DEF Live
<1>6. LiveIds(table) \ LiveIds(table')
        = (LiveIds(t) \ failed) \cup {i \in LiveIds(table) : table[i].target \in Ble}
  BY <1>5 DEF LiveIds
<1>7. open' = (open \ {t[i].target : i \in LiveIds(t) \ failed}) \ Ble
  BY DEF Restore, StillOpen, t
<1>8. \A i \in LiveIds(t) : t[i].target = table[i].target
  BY <1>5 DEF LiveIds
<1>9. open' = open \ {table[i].target : i \in LiveIds(table) \ LiveIds(table')}
  BY <1>6, <1>7, <1>8 DEF TableInv, Ownership
<1> QED BY <1>2, <1>3, <1>9, GoneClosed DEF Restore

\* Closing one handle takes its entry away.
LEMMA CloseShrinks ==
    ASSUME TypeOK, TableInv, NEW ref \in Refs, Close(ref)
    PROVE  Shrinks
<1> USE DEF TypeOK
<1>1. ref.id \in LiveIds(table)
  BY DEF Close, Resolves, LiveIds, Refs
<1>2. /\ table' \in [Ids -> Entries]
      /\ table'[ref.id] = Cleared(table[ref.id])
      /\ \A i \in Ids \ {ref.id} : table'[i] = table[i]
  BY <1>1, ClearedEntry DEF Close, LiveIds
<1>3. LiveIds(table) \ LiveIds(table') = {ref.id}
  BY <1>1, <1>2, ClearedEntry DEF LiveIds, Live
<1>4. open' = open \ {table[i].target : i \in LiveIds(table) \ LiveIds(table')}
  BY <1>3 DEF Close
<1> QED BY <1>2, <1>4, GoneClosed DEF Close

\* An open at the prompt finds no other owner of its resource.
LEMMA OpenGrows ==
    ASSUME TypeOK, TableInv, NEW res \in Resources, Open(res)
    PROVE  Grows
<1>1. Owners(table, res) = {}
  BY DEF Open, Owners, TableInv, Ownership, LiveIds, Live
<1> QED BY <1>1 DEF Open, FirstUsable, Grows

\* tcp.listen adds an entry or, with the table full, closes again.
LEMMA ListenShape ==
    ASSUME TypeOK, TableInv, NEW res \in Resources, Listen(res)
    PROVE  Keeps \/ Grows
<1>1. CASE /\ TableFull
           /\ table' = Scanned(table, Capacity) /\ open' = open \ {res}
           /\ UNCHANGED issued
  <2>1. res \notin open
    BY DEF Listen, Owners, TableInv, Ownership, LiveIds
  <2> QED BY <1>1, <2>1 DEF Keeps
<1>2. CASE \E i \in Ids :
            /\ FirstUsable(table, i)
            /\ table' = Activate(Reserve(table, i), i, res)
            /\ Issue(i, res)
  BY <1>2 DEF Listen, FirstUsable, Grows
<1> QED BY <1>1, <1>2 DEF Listen

\* A refused or failed open leaves a scanned table.
LEMMA OpenRefusedKeeps ==
    ASSUME TypeOK, OpenRefused \/ OpenFails
    PROVE  Keeps
<1>1. CASE OpenRefused
  BY <1>1 DEF OpenRefused, Keeps
<1>2. CASE OpenFails
  <2>1. PICK i \in Ids : Usable(table, i) /\ table' = Release(Reserve(table, i), i)
    BY <1>2 DEF OpenFails, FirstUsable
  <2>2. table' = Scanned(table, i) /\ i \in Int
    BY <2>1, ReleasedTable DEF TypeOK, Ids
  <2> QED BY <2>2, <1>2 DEF OpenFails, Keeps
<1> QED BY <1>1, <1>2

\* Words, holds and replies change; the table does not.
TableSame == UNCHANGED <<table, open, issued>>

\* What the next-state relation says, action by action.
LEMMA NextShape ==
    ASSUME TypeOK, TableInv, Next
    PROVE  Shrinks \/ Keeps \/ Grows \/ TableSame \/ Restart
<1> USE DEF TypeOK
<1>0. Plain \cup Ble \subseteq Resources /\ Listeners \subseteq Resources
  BY DEF Resources
<1>1. CASE OpenRefused \/ OpenFails
  BY <1>1, OpenRefusedKeeps
<1>2. CASE \E res \in Plain \cup Ble : Open(res)
  BY <1>0, <1>2, OpenGrows
<1>3. CASE \E res \in Listeners : Listen(res)
  BY <1>0, <1>3, ListenShape
<1>4. CASE \E ref \in {x.ref : x \in issued} : Close(ref)
  BY <1>4, CloseShrinks
<1>5. CASE \E w \in Words, value \in {x.ref : x \in issued} \cup {Nil} : Write(w, value)
  BY <1>5 DEF Write, TableSame
<1>6. CASE BleOff
  BY <1>6, BleOffShrinks DEF BleOff
<1>7. ASSUME NEW failed \in SUBSET LiveIds(table),
             \/ CloseHandles(failed) \/ Restore(failed) \/ Clear(failed)
             \/ WipeUser(failed)
             \/ Remount(failed) \/ ApplyFails(failed) \/ Recover(failed)
      PROVE  Shrinks
  <2>1. CASE CloseHandles(failed)
    BY <2>1, CloseAllShrinks DEF CloseHandles
  <2>2. CASE Restore(failed)
    BY <2>2, RestoreShrinks
  <2>3. CASE WipeUser(failed)
    BY <2>3, CloseAllShrinks DEF WipeUser
  <2>4. CASE ClearProject(failed)
    BY <2>4, ClearShrinks DEF ClearProject
  <2> QED BY <1>7, <2>1, <2>2, <2>3, <2>4 DEF Clear, Remount, ApplyFails, Recover
<1>8. CASE SaveAtOnce \/ Save \/ SaveEnds
  BY <1>8 DEF SaveAtOnce, Save, SaveEnds, TableSame
<1> QED BY <1>1, <1>2, <1>3, <1>4, <1>5, <1>6, <1>7, <1>8 DEF Next

\* Steps that leave the table alone preserve its invariant.
LEMMA SameInv ==
    ASSUME TableInv, TableSame
    PROVE  TableInv'
BY DEF TableSame, TableInv, Ownership, OnlyUseSpendsEntries, IssuedMean,
       LiveIds, Live, Spent, Resolves

\* A restart establishes the table's invariant.
LEMMA RestartInv ==
    ASSUME Restart
    PROVE  TableInv' /\ table' \in [Ids -> Entries]
           /\ \A i \in Ids : table'[i].target = Free
<1>1. table' = [i \in Ids |-> Entry(Free, 0)] /\ open' = {} /\ issued' = {}
  BY DEF Restart
<1>2. /\ table' \in [Ids -> Entries]
      /\ \A i \in Ids : table'[i].target = Free /\ table'[i].gen = 0
                        /\ ~table'[i].retired
  BY <1>1, EntryRecord
<1>3. LiveIds(table') = {}
  BY <1>2 DEF LiveIds, Live
<1>4. OnlyUseSpendsEntries'
  BY <1>1, <1>2 DEF OnlyUseSpendsEntries
<1> QED BY <1>1, <1>2, <1>3, <1>4 DEF TableInv, Ownership, IssuedMean

\* Every step preserves the table's invariant, the types of the table, and
\* that no entry is left reserved.
LEMMA TableInvStep ==
    ASSUME TypeOK, TableInv, [Next]_vars
    PROVE  /\ TableInv'
           /\ table' \in [Ids -> Entries] /\ open' \subseteq Resources
           /\ issued' \subseteq [ref : Refs, target : Resources]
           /\ (\A i \in Ids : table[i].target # Reserved)
                => \A i \in Ids : table'[i].target # Reserved
<1> USE DEF TypeOK
<1>1. CASE Shrinks
  <2>1. open' \subseteq Resources
    BY <1>1 DEF Shrinks, LiveIds, Live
  <2>2. \A i \in Ids : table'[i].target \in {table[i].target, Free}
    BY <1>1, ClearedEntry DEF Shrinks
  <2> QED BY <1>1, <2>1, <2>2, ShrinksInv DEF Shrinks
<1>2. CASE Keeps
  <2>1. table' \in [Ids -> Entries]
    BY <1>2, ScannedTable DEF Keeps
  <2> QED BY <1>2, <2>1, KeepsInv DEF Keeps
<1>3. CASE Grows
  <2> HIDE DEF TypeOK
  <2>1. /\ TableInv' /\ table' \in [Ids -> Entries] /\ open' \subseteq Resources
        /\ issued' \subseteq [ref : Refs, target : Resources]
    BY <1>3, GrowsInv
  <2>2. \A j \in Ids : table[j].target # Reserved => table'[j].target # Reserved
    BY <1>3, GrowsInv
  <2> QED BY <2>1, <2>2
<1>4. CASE TableSame
  BY <1>4, SameInv DEF TableSame
<1>5. CASE Restart
  <2>1. open' = {} /\ issued' = {}
    BY <1>5 DEF Restart
  <2>2. /\ TableInv' /\ table' \in [Ids -> Entries]
        /\ \A i \in Ids : table'[i].target = Free
    BY <1>5, RestartInv
  <2> QED BY <2>1, <2>2
<1>6. CASE UNCHANGED vars
  BY <1>6, SameInv DEF TableSame, vars
<1> QED BY <1>1, <1>2, <1>3, <1>4, <1>5, <1>6, NextShape

(***************************************************************************)
(* The rest of the invariant: what words hold, and what a save holds.      *)
(***************************************************************************)
\* A project clear leaves live what the hold keeps and what would not close.
LEMMA ClearLeaves ==
    ASSUME TypeOK, TableInv, NEW failed \in SUBSET LiveIds(table),
           ClearProject(failed)
    PROVE  /\ LiveIds(table') \ refused' \subseteq HeldIds(table)
           /\ \A i \in LiveIds(table') : table'[i] = table[i]
<1> USE DEF TypeOK
<1>1. /\ Shrinks
      /\ LiveIds(table') = {i \in LiveIds(table) :
            i \in HeldIds(table) \cup failed /\ table[i].target \notin Ble}
  BY ClearShrinks DEF ClearProject
<1>2. refused' = failed
  BY DEF ClearProject
<1>3. \A i \in LiveIds(table') : table'[i] = table[i]
  <2>1. \A i \in Ids : ~Live(table', i) \/ table'[i] = table[i]
    BY <1>1, ClearedEntry DEF Shrinks, Live
  <2> QED BY <2>1 DEF LiveIds
<1> QED BY <1>1, <1>2, <1>3

\* Every step preserves the types.
LEMMA TypeStep ==
    ASSUME IInv, [Next]_vars
    PROVE  TypeOK'
<1> USE DEF TypeOK
<1>1. /\ table' \in [Ids -> Entries] /\ open' \subseteq Resources
      /\ issued' \subseteq [ref : Refs, target : Resources]
  BY TableInvStep DEF IInv
<1>2. \A x \in issued : x.ref \in Refs
  BY DEF IInv
<1> DEFINE Rest == /\ words' \in [Words -> Refs \cup {Nil}]
                   /\ held' \in [Words -> Refs \cup {Nil}]
                   /\ holding' \in BOOLEAN /\ refused' \subseteq Ids
                   /\ pc' \in {"idle", "remount", "applied", "recover"}
                   /\ reply' \in {"none", "saved", "cleared"}
<1>3. NoWords \in [Words -> Refs \cup {Nil}]
  BY DEF NoWords
<1>4. CASE OpenRefused \/ OpenFails \/ BleOff
  <2>1. words' = words /\ Prompt
    BY <1>4 DEF OpenRefused, OpenFails, BleOff
  <2> QED BY <1>1, <2>1 DEF IInv, Prompt
<1>5. CASE \E res \in Resources : Open(res) \/ Listen(res)
  <2>1. words' = words /\ Prompt
    BY <1>5 DEF Open, Listen
  <2> QED BY <1>1, <2>1 DEF IInv, Prompt
<1>6. CASE \E ref \in {x.ref : x \in issued} : Close(ref)
  <2>1. words' = words /\ Prompt
    BY <1>6 DEF Close
  <2> QED BY <1>1, <2>1 DEF IInv, Prompt
<1>7. CASE \E w \in Words, value \in {x.ref : x \in issued} \cup {Nil} : Write(w, value)
  <2>1. PICK w \in Words, value \in Refs \cup {Nil} : Write(w, value)
    BY <1>2, <1>7
  <2> QED BY <1>1, <2>1 DEF IInv, Write, Prompt
<1>8. ASSUME NEW failed \in SUBSET LiveIds(table),
             \/ CloseHandles(failed) \/ Restore(failed) \/ Clear(failed)
             \/ WipeUser(failed)
             \/ Remount(failed) \/ ApplyFails(failed) \/ Recover(failed)
      PROVE  Rest
  <2>1. failed \subseteq Ids
    BY DEF LiveIds
  <2>2. CASE CloseHandles(failed) \/ Restore(failed)
    <3>1. Prompt /\ words' \in {words, NoWords}
      BY <2>2 DEF CloseHandles, Restore
    <3> QED BY <1>3, <3>1 DEF IInv, Prompt
  <2>3. CASE WipeUser(failed)
    BY <1>3, <2>3 DEF IInv, WipeUser
  <2>4. CASE Clear(failed) \/ Remount(failed) \/ ApplyFails(failed) \/ Recover(failed)
    <3>1. words' = NoWords /\ holding' = FALSE /\ refused' = failed
      BY <2>4 DEF Clear, Remount, ApplyFails, Recover, ClearProject
    <3>2. /\ held' \in {held, NoWords}
          /\ pc' \in {pc, "applied", "recover", "idle"}
          /\ reply' \in {reply, "cleared"}
      BY <2>4 DEF Clear, Remount, ApplyFails, Recover
    <3> QED BY <1>3, <2>1, <3>1, <3>2 DEF IInv
  <2> QED BY <1>8, <2>2, <2>3, <2>4
<1>9. CASE SaveAtOnce \/ Save \/ SaveEnds \/ UNCHANGED vars
  BY <1>1, <1>3, <1>9 DEF IInv, SaveAtOnce, Save, SaveEnds, vars
<1>10. CASE Restart
  <2>1. /\ words' = NoWords /\ held' = NoWords /\ holding' = FALSE
        /\ refused' = {} /\ pc' = "idle" /\ reply' = "none"
    BY <1>10 DEF Restart
  <2> QED BY <1>1, <1>3, <2>1
<1> QED BY <1>1, <1>4, <1>5, <1>6, <1>7, <1>8, <1>9, <1>10 DEF Next, Resources

\* A hold ends with the mount it was taken for.
LEMMA HoldStep ==
    ASSUME IInv, [Next]_vars
    PROVE  HoldSpent'
<1>1. \A i \in Ids : table'[i].target # Reserved
  BY TableInvStep DEF IInv, HoldSpent
<1>2. (holding' => pc' = "remount") /\ (pc' # "idle" => reply' = "none")
  <2> USE DEF IInv, HoldSpent
  <2>1. CASE Prompt
    BY <2>1 DEF Prompt
  <2>2. ASSUME NEW failed \in SUBSET LiveIds(table),
               Clear(failed) \/ Remount(failed) \/ ApplyFails(failed) \/ Recover(failed)
        PROVE  (holding' => pc' = "remount") /\ (pc' # "idle" => reply' = "none")
    BY <2>2 DEF Clear, Remount, ApplyFails, Recover, ClearProject
  <2>3. CASE SaveAtOnce \/ Save \/ SaveEnds \/ Restart \/ UNCHANGED vars
    BY <2>3 DEF SaveAtOnce, Save, SaveEnds, Restart, vars
  <2>4. ASSUME NEW failed \in SUBSET LiveIds(table), WipeUser(failed)
        PROVE  (holding' => pc' = "remount") /\ (pc' # "idle" => reply' = "none")
    BY <2>4 DEF WipeUser
  <2> QED BY <2>1, <2>2, <2>3, <2>4
          DEF Next, OpenRefused, OpenFails, Open, Listen, Close, Write, BleOff,
              CloseHandles, Restore
<1> QED BY <1>1, <1>2 DEF HoldSpent

\* Only a save begins a hold, and it holds all it set aside.
LEMMA HoldWholeStep ==
    ASSUME IInv, [Next]_vars
    PROVE  HoldWhole'
<1> USE DEF IInv, HoldWhole
<1>1. CASE Prompt \/ SaveAtOnce \/ SaveEnds \/ Restart
  BY <1>1 DEF Prompt, SaveAtOnce, SaveEnds, Restart
<1>2. CASE Save
  <2>1. held' = words /\ holding' = (words # NoWords) /\ table' = table
    BY <1>2 DEF Save
  <2>2. HeldRefs(words) # {} => words # NoWords
    BY DEF HeldRefs, NoWords
  <2>3. \A ref \in HeldRefs(words) :
          Resolves(table, ref) => table[ref.id].target \notin Ble
    BY <1>2 DEF Save, Savable
  <2> QED BY <2>1, <2>2, <2>3 DEF HoldWhole
<1>3. ASSUME NEW failed \in SUBSET LiveIds(table),
             \/ Clear(failed) \/ WipeUser(failed)
             \/ Remount(failed) \/ ApplyFails(failed) \/ Recover(failed)
      PROVE  HoldWhole'
  BY <1>3 DEF Clear, WipeUser, Remount, ApplyFails, Recover
<1>4. CASE UNCHANGED vars
  BY <1>4 DEF vars
<1> QED BY <1>1, <1>2, <1>3, <1>4
        DEF Next, OpenRefused, OpenFails, Open, Listen, Close, Write, BleOff,
            CloseHandles, Restore

\* A step that ends or passes through a save or a clear.
LEMMA RepliesStep ==
    ASSUME IInv, [Next]_vars
    PROVE  AppliedHeld' /\ NothingLeftOpen'
<1> USE DEF IInv, HoldSpent
<1>1. CASE pc' # "applied" /\ reply' = "none"
  BY <1>1 DEF AppliedHeld, NothingLeftOpen
<1>2. CASE Prompt \/ SaveAtOnce \/ Save \/ Restart
  BY <1>1, <1>2 DEF Prompt, SaveAtOnce, Save, Restart
<1>3. ASSUME NEW failed \in SUBSET LiveIds(table), WipeUser(failed)
      PROVE  AppliedHeld' /\ NothingLeftOpen'
  BY <1>1, <1>3 DEF WipeUser
<1>4. ASSUME NEW failed \in SUBSET LiveIds(table), Clear(failed) \/ Recover(failed)
      PROVE  AppliedHeld' /\ NothingLeftOpen'
  <2>1. ClearProject(failed) /\ pc' = "idle" /\ ~holding
    BY <1>4 DEF Clear, Recover
  <2>2. LiveIds(table') \ refused' = {}
    BY <2>1, ClearLeaves DEF HeldIds
  <2> QED BY <2>1, <2>2 DEF AppliedHeld, NothingLeftOpen
<1>5. ASSUME NEW failed \in SUBSET LiveIds(table), Remount(failed)
      PROVE  AppliedHeld' /\ NothingLeftOpen'
  <2>1. ClearProject(failed) /\ held' = held /\ reply' = "none"
    BY <1>5 DEF Remount
  <2>2. \A i \in LiveIds(table') \ refused' :
          i \in HeldIds(table) /\ table'[i] = table[i]
    BY <2>1, ClearLeaves
  <2>3. \A i \in LiveIds(table') \ refused' :
          [id |-> i, gen |-> table'[i].gen] \in HeldRefs(held')
    BY <2>1, <2>2 DEF HeldIds
  <2> QED BY <2>1, <2>3 DEF AppliedHeld, NothingLeftOpen
<1>6. ASSUME NEW failed \in SUBSET LiveIds(table), ApplyFails(failed)
      PROVE  AppliedHeld' /\ NothingLeftOpen'
  BY <1>1, <1>6 DEF ApplyFails
<1>7. CASE SaveEnds
  <2>1. /\ pc = "applied" /\ pc' = "idle" /\ words' = held
        /\ table' = table /\ refused' = refused
    BY <1>7 DEF SaveEnds
  <2> QED BY <2>1 DEF AppliedHeld, NothingLeftOpen
<1>8. CASE UNCHANGED vars
  BY <1>8 DEF vars, AppliedHeld, NothingLeftOpen
<1> QED BY <1>2, <1>3, <1>4, <1>5, <1>6, <1>7, <1>8
        DEF Next, OpenRefused, OpenFails, Open, Listen, Close, Write, BleOff,
            CloseHandles, Restore

\* The mount after a save keeps the handles the save holds.
LEMMA RemountKeeps ==
    ASSUME IInv, pc = "remount", NEW failed \in SUBSET LiveIds(table),
           ClearProject(failed)
    PROVE  \A ref \in HeldRefs(held) : Resolves(table, ref) => Resolves(table', ref)
<1> USE DEF IInv
<1>1. LiveIds(table') = {i \in LiveIds(table) :
        i \in HeldIds(table) \cup failed /\ table[i].target \notin Ble}
  BY ClearShrinks DEF ClearProject
<1>2. \A i \in LiveIds(table') : table'[i] = table[i]
  BY ClearLeaves
<1>3. ASSUME NEW ref \in HeldRefs(held), Resolves(table, ref)
      PROVE  Resolves(table', ref)
  <2>1. ref \in Refs
    BY DEF HeldRefs, TypeOK
  <2>2. ref = [id |-> ref.id, gen |-> table[ref.id].gen] /\ ref.id \in Ids
    BY <1>3, <2>1 DEF Refs, Resolves
  <2>3. ref.id \in LiveIds(table) /\ table[ref.id].target \notin Ble /\ holding
    BY <1>3, <2>2 DEF LiveIds, Resolves, HoldWhole
  <2>4. ref.id \in HeldIds(table)
    BY <2>2, <2>3 DEF HeldIds
  <2>5. ref.id \in LiveIds(table')
    BY <1>1, <2>3, <2>4
  <2> QED BY <1>2, <1>3, <2>5 DEF Resolves, LiveIds
<1> QED BY <1>3

\* The initial states satisfy the invariant.
LEMMA InitInv == Init => IInv
<1> SUFFICES ASSUME Init PROVE IInv
  OBVIOUS
<1>1. /\ table = [i \in Ids |-> Entry(Free, 0)] /\ open = {} /\ issued = {}
      /\ words = NoWords /\ held = NoWords /\ holding = FALSE
      /\ refused = {} /\ pc = "idle" /\ reply = "none"
  BY DEF Init
<1>2. /\ table \in [Ids -> Entries]
      /\ \A i \in Ids : table[i].target = Free /\ table[i].gen = 0
                        /\ ~table[i].retired
  BY <1>1, EntryRecord
<1>3. TypeOK
  BY <1>1, <1>2 DEF TypeOK, NoWords
<1>4. LiveIds(table) = {}
  BY <1>2 DEF LiveIds, Live
<1>5. OnlyUseSpendsEntries
  BY <1>1, <1>2 DEF OnlyUseSpendsEntries
<1>6. Ownership /\ IssuedMean
  BY <1>1, <1>4 DEF Ownership, IssuedMean
<1>7. HoldSpent /\ HoldWhole /\ AppliedHeld /\ NothingLeftOpen
  BY <1>1, <1>2, <1>4 DEF HoldSpent, HoldWhole, AppliedHeld, NothingLeftOpen
<1> QED BY <1>3, <1>5, <1>6, <1>7 DEF IInv, TableInv

\* Every step preserves the invariant.
LEMMA StepInv == IInv /\ [Next]_vars => IInv'
BY TypeStep, TableInvStep, HoldStep, HoldWholeStep, RepliesStep DEF IInv

(***************************************************************************)
(* The theorems.                                                           *)
(***************************************************************************)
\* The inductive invariant holds in every state, whatever the number of
\* entries, generations, words and resources.
THEOREM Inductive == Spec => []IInv
BY InitInv, StepInv, PTL DEF Spec

\* The table, the words and the hold keep their types: in particular no
\* generation passes the limit a tagged word can carry.
THEOREM TypeCorrect == Spec => []TypeOK
<1>1. IInv => TypeOK
  BY DEF IInv
<1> QED BY <1>1, Inductive, PTL

\* What the platform has open is what the table owns, one entry each, across
\* failed opens, failed closes, bulk closes, ble.off and tolerant saves.
THEOREM TableOwns == Spec => []Ownership
<1>1. IInv => Ownership
  BY DEF IInv, TableInv
<1> QED BY <1>1, Inductive, PTL

\* An entry is worn only by references that user code was given, so failed
\* opens alone can never exhaust the table.
THEOREM FailedOpensCostNothing == Spec => []OnlyUseSpendsEntries
<1>1. IInv => OnlyUseSpendsEntries
  BY DEF IInv, TableInv
<1> QED BY <1>1, Inductive, PTL

\* After a save or a clear has answered, nothing is open that no word holds,
\* except what the platform refused to close.
THEOREM NoneLeaked == Spec => []NothingLeftOpen
<1>1. IInv => NothingLeftOpen
  BY DEF IInv
<1> QED BY <1>1, Inductive, PTL

\* From its commit to its answer a tolerant save keeps every handle it holds
\* alive through the bulk close, and gives each word its value back.
THEOREM HeldHandlesSurvive == Spec => SaveKeepsHandles
<1>1. ASSUME IInv, [Next]_vars, pc' = "applied" \/ reply' = "saved"
      PROVE  \/ /\ \A ref \in HeldRefs(held) :
                     Resolves(table, ref) => Resolves(table', ref)
                /\ reply' = "saved" => words' = held
             \/ UNCHANGED vars
  <2> USE DEF IInv, HoldSpent
  <2>1. CASE Prompt \/ SaveAtOnce \/ Save \/ Restart
    BY <1>1, <2>1 DEF Prompt, SaveAtOnce, Save, Restart
  <2>2. ASSUME NEW failed \in SUBSET LiveIds(table),
               \/ Clear(failed) \/ WipeUser(failed)
               \/ ApplyFails(failed) \/ Recover(failed)
        PROVE  FALSE
    BY <1>1, <2>2 DEF Clear, WipeUser, ApplyFails, Recover
  <2>3. CASE SaveEnds
    <3>1. table' = table /\ words' = held
      BY <2>3 DEF SaveEnds
    <3> QED BY <3>1
  <2>4. ASSUME NEW failed \in SUBSET LiveIds(table), Remount(failed)
        PROVE  /\ \A ref \in HeldRefs(held) :
                     Resolves(table, ref) => Resolves(table', ref)
               /\ reply' # "saved"
    <3>1. pc = "remount" /\ ClearProject(failed) /\ reply' # "saved"
      BY <1>1, <2>4 DEF Remount
    <3>2. \A ref \in HeldRefs(held) : Resolves(table, ref) => Resolves(table', ref)
      BY <1>1, <3>1, RemountKeeps
    <3> QED BY <3>1, <3>2
  <2> QED BY <1>1, <2>1, <2>2, <2>3, <2>4
          DEF Next, OpenRefused, OpenFails, Open, Listen, Close, Write, BleOff,
              CloseHandles, Restore
<1> QED BY <1>1, Inductive, PTL DEF Spec, SaveKeepsHandles

\* The table implements unforgeable capabilities: a reference given out means
\* its resource or nothing, and once dead it stays dead.
THEOREM CapabilitiesHold == Spec => ImplementsCapabilities
<1>1. Init => Caps!Init
  BY DEF Init, Caps!Init, Refers
<1>2. ASSUME IInv, [Next]_vars
      PROVE  [Caps!Next]_<<Refers, issued>>
  <2>0. TypeOK /\ TableInv
    BY <1>2 DEF IInv
  <2>1. CASE Shrinks \/ Keeps
    BY <2>0, <2>1, ShrinksDies DEF Caps!Next
  <2>2. CASE Grows
    <3>1. \E ref \in Refs, res \in Resources : Caps!Give(ref, res)
      BY <2>0, <2>2, GrowsGives
    <3> QED BY <3>1 DEF Caps!Next
  <2>3. CASE TableSame \/ UNCHANGED vars
    BY <2>3 DEF TableSame, vars, Refers, Resolves, Live
  <2>4. CASE Restart
    BY <2>4 DEF Restart, Refers, Caps!Next, Caps!Restart
  <2>5. Shrinks \/ Keeps \/ Grows \/ TableSame \/ Restart \/ UNCHANGED vars
    BY <1>2, <2>0, NextShape
  <2> QED BY <2>1, <2>2, <2>3, <2>4, <2>5
<1> QED BY <1>1, <1>2, Inductive, PTL DEF Spec, Caps!Spec, ImplementsCapabilities
=============================================================================
